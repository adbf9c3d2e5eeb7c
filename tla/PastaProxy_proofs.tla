--------------------------- MODULE PastaProxy_proofs ---------------------------
(***************************************************************************)
(* The gateway, browsers and relying party make the nodes do nothing that  *)
(* NodeSpec does not allow, so every theorem about the nodes holds of the  *)
(* whole system, under any interleaving of any number of requests, with    *)
(* lost and late calls and restarts.  The invariant is about what handlers *)
(* carry from one await to the next: the calls they wait on, commitments   *)
(* and replies they gathered, and credentials, none of which verifies      *)
(* unless the group signed it.                                             *)
(***************************************************************************)
EXTENDS ProxyIssuer, IdentityNode_proofs

\* The group has signed msg, as far as the shares S go.
SignedBy(S, msg) == \E s \in S : Aggregates(S, msg, s.commitments)

\* A credential that verifies is one the group has signed.
Genuine(S, c) == c.sigOk => c \in Credential /\ SignedBy(S, c.msg)

TokenAsked(S, a) ==
  /\ a.kind = "token"
  /\ a.grant \in Grant
  /\ a.proof \in Proof
  /\ Genuine(S, a.credential)

CallOK(c) ==
  /\ c = [node |-> c.node, state |-> c.state, nonce |-> c.nonce]
  /\ c.state \in {"sent", "ok"} => c.node \in Node /\ c.nonce \in Nat

PhasesOK == phase \in [Request -> Phase]

AsksOK ==
  /\ ask = [q \in Request |-> ask[q]]
  /\ \A q \in Request : phase[q] # "idle" => ask[q] \in Body \/ TokenAsked(shares, ask[q])

CallsOK ==
  /\ calls = [q \in Request |-> calls[q]]
  /\ \A q \in Request : /\ calls[q] = [i \in DOMAIN calls[q] |-> calls[q][i]]
                        /\ \A i \in DOMAIN calls[q] : CallOK(calls[q][i])

GatheredOK ==
  /\ access \in [Request -> SUBSET Commitment]
  /\ refresh \in [Request -> SUBSET Commitment]
  /\ issuedAt \in [Request -> Nat]
  /\ replies \in [Request -> SUBSET shares]

StraysOK == \A m \in stray :
  m.request \in Request /\ m.node \in Node /\ phase[m.request] # "idle"

WalletOK == \A t \in wallet : Genuine(shares, t)

ProxyInv ==
  NodeTypeOK /\ PhasesOK /\ AsksOK /\ CallsOK /\ GatheredOK /\ StraysOK /\ WalletOK

-------------------------------------------------------------------------------
(***************************************************************************)
(* Every step of the system is a step of the nodes, or leaves them alone.  *)
(***************************************************************************)

\* The rounds of a request are round ids.
LEMMA RoundTyped ==
  ASSUME NEW q \in Request, NEW ph \in {"commit", "refresh"}
  PROVE  RoundOf(q, ph) \in RoundId
BY RequestAssumption DEF RoundOf

\* A genuine credential's request is one any caller may make; any other is refused.
LEMMA SigningIsStep ==
  ASSUME ProxyInv, NEW q \in Request, NEW n \in Node, phase[q] # "idle",
         NodeAnswers(q, n) \/ NodeRefuses(q, n)
  PROVE  [NodeStep]_nodeState
<1>1. RoundOf(q, "commit") \in RoundId /\ RoundOf(q, "refresh") \in RoundId
  BY RoundTyped
<1>2. CASE IsSignOn(q)
  <2>1. ask[q] \in Body
    BY <1>2 DEF ProxyInv, AsksOK, IsSignOn, TokenAsked
  <2>2. SignOnCall(q) \in SignOnRequest
    BY <2>1 DEF ProxyInv, GatheredOK, Body, SignOnCall, SignOnRequest
  <2>3. HandleSignOn(n, RoundOf(q, "commit"), SignOnCall(q))
    BY <1>2 DEF NodeAnswers, NodeRefuses, HandleSignOn
  <2> QED
    BY <1>1, <2>2, <2>3 DEF NodeStep
<1>3. CASE ~IsSignOn(q)
  <2>1. TokenAsked(shares, ask[q])
    BY <1>3 DEF ProxyInv, AsksOK, IsSignOn, Body
  <2>2. HandleSign(n, RoundOf(q, "commit"), RoundOf(q, "refresh"), SignCall(q))
    BY <1>3 DEF NodeAnswers, NodeRefuses, HandleSign
  <2>3. SignCall(q).credential = ask[q].credential
    BY DEF SignCall
  <2>4. CASE ask[q].credential.sigOk
    <3>1. ask[q].credential \in Credential /\ GroupSigned(ask[q].credential.msg)
      BY <2>1, <2>4 DEF TokenAsked, Genuine, SignedBy, GroupSigned
    <3>2. /\ q \in Jti
          /\ issuedAt[q] \in Int
          /\ issuedAt[q] + ACCESS_TOKEN_LIFETIME_SECONDS \in Int
          /\ issuedAt[q] + REFRESH_TOKEN_LIFETIME_SECONDS \in Int
          /\ access[q] \in SUBSET Commitment
          /\ refresh[q] \in SUBSET Commitment
      BY RequestAssumption, IssueLifetimeAssumption DEF ProxyInv, GatheredOK
    <3>3. SignCall(q) \in SignRequest
      BY <2>1, <3>1, <3>2 DEF SignCall, SignRequest, TokenAsked
    <3>4. Unforged(SignCall(q).credential)
      BY <2>3, <3>1 DEF Unforged
    <3> QED
      BY <1>1, <2>2, <3>3, <3>4 DEF NodeStep
  <2>5. CASE ~ask[q].credential.sigOk
    <3>1. ~SignAccepted(n, RoundOf(q, "commit"), RoundOf(q, "refresh"), SignCall(q))
      BY <2>3, <2>5
      DEF SignAccepted, VerifyCredential, VerifyAssertion, VerifyRefreshToken, VerifyJwt
    <3> QED
      BY <2>2, <3>1 DEF HandleSign, AnswerSign, SpoilSign, RefuseSign, nodeState
  <2> QED
    BY <2>4, <2>5
<1> QED
  BY <1>2, <1>3

\* An awaited call is under way only to a node, and a request that has calls is not idle.
LEMMA SentToNode ==
  ASSUME ProxyInv, NEW q \in Request, NEW i \in Sent(q)
  PROVE  calls[q][i].node \in Node /\ i \in DOMAIN calls[q]
BY DEF ProxyInv, CallsOK, CallOK, Sent

\* Every step of the system, seen from the nodes.
LEMMA NextIsStep ==
  ASSUME ProxyInv, Next
  PROVE  [NodeStep]_nodeState
<1>1. ASSUME NEW q \in Request, Served(q) PROVE [NodeStep]_nodeState
  BY <1>1 DEF Served, StartSignOn, StartToken, EndCommit, EndSign, AssembleAssertion,
              nodeState
<1>2. ASSUME NEW q \in Request, NEW i \in DOMAIN calls[q], CommitAnswered(q, i)
      PROVE  [NodeStep]_nodeState
  <2>1. calls[q][i].node \in Node /\ RoundOf(q, phase[q]) \in RoundId
    BY <1>2, SentToNode, RoundTyped DEF CommitAnswered
  <2> QED
    BY <1>2, <2>1 DEF CommitAnswered, NodeStep
<1>3. ASSUME NEW q \in Request, NEW i \in DOMAIN calls[q],
             SignAnswered(q, i) \/ SignRefused(q, i)
      PROVE  [NodeStep]_nodeState
  <2>1. calls[q][i].node \in Node
    BY <1>3, SentToNode DEF SignAnswered, SignRefused
  <2>2. phase[q] # "idle"
    BY <1>3 DEF SignAnswered, SignRefused
  <2> QED
    BY <1>3, <2>1, <2>2, SigningIsStep DEF SignAnswered, SignRefused
<1>4. ASSUME NEW q \in Request, NEW i \in DOMAIN calls[q],
             CommitFails(q, i) \/ SignFails(q, i)
      PROVE  [NodeStep]_nodeState
  BY <1>4 DEF CommitFails, SignFails, nodeState
<1>5. ASSUME NEW m \in stray, StrayArrives(m) PROVE [NodeStep]_nodeState
  <2>1. m.request \in Request /\ m.node \in Node /\ phase[m.request] # "idle"
    BY DEF ProxyInv, StraysOK
  <2>2. CASE StrayCommit(m)
    BY <2>1, <2>2, RoundTyped DEF StrayCommit, NodeStep
  <2>3. CASE StraySign(m)
    BY <2>1, <2>3, SigningIsStep DEF StraySign
  <2> QED
    BY <1>5, <2>2, <2>3 DEF StrayArrives
<1>6. ASSUME NEW n \in Node, NodeRestarts(n) PROVE [NodeStep]_nodeState
  BY <1>6 DEF NodeRestarts, NodeStep
<1>7. CASE ClockTicks
  BY <1>7 DEF ClockTicks, NodeStep
<1> QED
  BY <1>1, <1>2, <1>3, <1>4, <1>5, <1>6, <1>7 DEF Next, CommitSettles, SignSettles

-------------------------------------------------------------------------------
(***************************************************************************)
(* What the gateway, the SDK and callers handle stays in shape.            *)
(***************************************************************************)

\* The step's effect on what the nodes keep: types stay, and shares only grow.
LEMMA SharesGrow ==
  ASSUME NodeTypeOK, [NodeStep]_nodeState
  PROVE  NodeTypeOK' /\ shares \subseteq shares'
<1>1. CASE NodeStep
  BY <1>1, StepTyped
  DEF NodeStep, HandleSignOn, HandleSign, AnswerSignOn, AnswerSign, GenerateCommitment,
      SpoilSignOn, RefuseSignOn, SpoilSign, RefuseSign, Restart, Tick, nodeVars
<1>2. CASE UNCHANGED nodeState
  BY <1>2 DEF nodeState, nodeVars, NodeTypeOK
<1> QED
  BY <1>1, <1>2

\* A genuine credential stays genuine as shares are added.
LEMMA GenuineStays ==
  ASSUME NEW S, NEW T, S \subseteq T, NEW c, Genuine(S, c)
  PROVE  Genuine(T, c)
<1> SUFFICES ASSUME c.sigOk PROVE c \in Credential /\ SignedBy(T, c.msg)
  BY DEF Genuine
<1>1. c \in Credential
  BY DEF Genuine
<1>2. PICK s \in S : Aggregates(S, c.msg, s.commitments)
  BY DEF Genuine, SignedBy
<1>3. Aggregates(T, c.msg, s.commitments)
  BY <1>2 DEF Aggregates, Signed
<1> QED
  BY <1>1, <1>2, <1>3 DEF SignedBy

\* What the SDK or the gateway assembles out of shares is genuine, whatever they expect
\* the message to be: it verifies only if those shares are of that very message.
LEMMA AssembledGenuine ==
  ASSUME NodeTypeOK, NEW S \in SUBSET shares, NEW msg, NEW C
  PROVE  Genuine(shares, Assembled(msg, S, C))
<1>1. /\ Assembled(msg, S, C).msg = msg
      /\ Assembled(msg, S, C).sigOk <=> Aggregates(S, msg, C)
  BY DEF Assembled
<1> SUFFICES ASSUME Aggregates(S, msg, C)
             PROVE  Assembled(msg, S, C) \in Credential /\ SignedBy(shares, msg)
  BY <1>1 DEF Genuine
<1>2. PICK c \in C : Signed(S, c, msg, C)
  BY QuorumNotEmpty DEF Aggregates
<1>3. PICK s \in S : s.msg = msg /\ s.commitments = C
  BY <1>2 DEF Signed
<1>4. msg \in Message
  BY <1>3 DEF NodeTypeOK, Share
<1>5. Assembled(msg, S, C) \in Credential
  BY <1>4 DEF Assembled, Aggregates, Credential
<1>6. Aggregates(shares, msg, s.commitments)
  BY <1>3 DEF Aggregates, Signed
<1> QED
  BY <1>3, <1>5, <1>6 DEF SignedBy

\* No request goes back to idle.
Onward == \A q \in Request : phase[q] # "idle" => phase'[q] # "idle"

\* What was asked stays in shape when no request is taken in.
LEMMA AsksKept ==
  ASSUME AsksOK, shares \subseteq shares', UNCHANGED ask,
         \A q \in Request : phase'[q] # "idle" => phase[q] # "idle"
  PROVE  AsksOK'
<1> SUFFICES ASSUME NEW q \in Request, phase'[q] # "idle"
             PROVE  ask[q] \in Body \/ TokenAsked(shares', ask[q])
  BY DEF AsksOK
<1> QED
  BY GenuineStays DEF AsksOK, TokenAsked

\* Credentials that are kept stay genuine, and so do those that are added.
LEMMA WalletKept ==
  ASSUME WalletOK, shares \subseteq shares', \A t \in wallet' \ wallet : Genuine(shares, t)
  PROVE  WalletOK'
BY GenuineStays DEF WalletOK

\* A request takes the calls it is given.
LEMMA CallsMade ==
  ASSUME NEW nodes
  PROVE  /\ CallAll(nodes) = [i \in DOMAIN CallAll(nodes) |-> CallAll(nodes)[i]]
         /\ \A i \in DOMAIN CallAll(nodes) : CallOK(CallAll(nodes)[i])
BY DEF CallAll, CallTo, CallOK, NoNonce

\* A handler that leaves its phase for ph, for the calls of nodes or for none.
LEMMA Moved ==
  ASSUME PhasesOK, CallsOK, NEW q \in Request, NEW ph \in Phase \ {"idle"}, NEW cs,
         phase' = [phase EXCEPT ![q] = ph],
         calls' = [calls EXCEPT ![q] = cs],
         cs = << >> \/ \E nodes : cs = CallAll(nodes)
  PROVE  PhasesOK' /\ CallsOK' /\ Onward
<1>1. PhasesOK' /\ Onward
  BY DEF PhasesOK, Onward
<1>2. cs = [i \in DOMAIN cs |-> cs[i]] /\ \A i \in DOMAIN cs : CallOK(cs[i])
  <2>1. CASE cs = << >>
    <3>1. DOMAIN cs = {}
      BY <2>1
    <3> QED
      BY <2>1, <3>1
  <2>2. CASE \E nodes : cs = CallAll(nodes)
    BY <2>2, CallsMade
  <2> QED
    BY <2>1, <2>2
<1>3. \A p \in Request : calls'[p] = IF p = q THEN cs ELSE calls[p]
  BY DEF CallsOK
<1>4. calls' = [p \in Request |-> calls'[p]]
  BY DEF CallsOK
<1> QED
  BY <1>1, <1>2, <1>3, <1>4 DEF CallsOK

\* An awaited call settles: nothing but its state and nonce change.
LEMMA CallSettles ==
  ASSUME CallsOK, NEW q \in Request, NEW i \in Sent(q),
         NEW state \in {"ok", "failed"}, NEW nonce \in Nat,
         Settle(q, i, state, nonce)
  PROVE  CallsOK'
<1>1. /\ i \in DOMAIN calls[q]
      /\ calls[q][i].node \in Node
  BY DEF CallsOK, CallOK, Sent
<1>2. /\ calls' = [p \in Request |-> calls'[p]]
      /\ \A p \in Request : p # q => calls'[p] = calls[p]
      /\ calls'[q] = [calls[q] EXCEPT ![i] =
           [node |-> calls[q][i].node, state |-> state, nonce |-> nonce]]
  BY DEF CallsOK, Settle
<1>3. /\ calls'[q] = [j \in DOMAIN calls'[q] |-> calls'[q][j]]
      /\ DOMAIN calls'[q] = DOMAIN calls[q]
      /\ \A j \in DOMAIN calls[q] : j # i => calls'[q][j] = calls[q][j]
      /\ calls'[q][i] = [node |-> calls[q][i].node, state |-> state, nonce |-> nonce]
  BY <1>1, <1>2 DEF CallsOK
<1>4. \A j \in DOMAIN calls'[q] : CallOK(calls'[q][j])
  BY <1>1, <1>3 DEF CallsOK, CallOK
<1> QED
  BY <1>2, <1>3, <1>4 DEF CallsOK

\* The commitments a round collected are commitments of nodes.
LEMMA CollectedTyped ==
  ASSUME CallsOK, NEW q \in Request
  PROVE  Collected(q) \in SUBSET Commitment
BY DEF CallsOK, CallOK, Collected, Ok, Commitment

\* Calls that go stray were under way to nodes, for a request already taken in.
LEMMA StraysKept ==
  ASSUME StraysOK, CallsOK, Onward, NEW q \in Request, phase[q] # "idle",
         \A m \in stray' \ stray : \E i \in Sent(q) : m = Stray(q, i)
  PROVE  StraysOK'
BY DEF StraysOK, CallsOK, CallOK, Onward, Sent, Stray

\* Commitments, times and replies that a step leaves alone.
LEMMA GatheredKept ==
  ASSUME GatheredOK, shares \subseteq shares', UNCHANGED <<access, refresh, issuedAt, replies>>
  PROVE  GatheredOK'
BY DEF GatheredOK

-------------------------------------------------------------------------------
\* A credential presented at /token is out of the wallet, or does not verify.
LEMMA PresentedGenuine ==
  ASSUME WalletOK, NEW c \in Presented
  PROVE  Genuine(shares, c)
<1>1. CASE c \in wallet
  BY <1>1 DEF WalletOK
<1>2. CASE c \notin wallet
  <2>1. PICK t \in wallet : c \in Altered(t)
    BY <1>2 DEF Presented
  <2>2. ~c.sigOk
    BY <2>1 DEF Altered
  <2> QED
    BY <2>2 DEF Genuine
<1> QED
  BY <1>1, <1>2

\* Requests taken in are in shape.
LEMMA StartKeepsInv ==
  ASSUME ProxyInv, NodeTypeOK', shares \subseteq shares', NEW q \in Request, NEW a,
         a \in Body \/ TokenAsked(shares, a),
         ask' = [ask EXCEPT ![q] = a],
         \/ Fail(q)
         \/ \E nodes : /\ phase' = [phase EXCEPT ![q] = "commit"]
                       /\ calls' = [calls EXCEPT ![q] = CallAll(nodes)],
         UNCHANGED <<shares, access, refresh, issuedAt, replies, stray, wallet>>
  PROVE  ProxyInv'
<1> USE DEF ProxyInv
<1>1. PhasesOK' /\ CallsOK' /\ Onward
  <2>1. CASE Fail(q)
    BY <2>1, Moved DEF Fail, Leave, Phase
  <2>2. ASSUME NEW nodes, phase' = [phase EXCEPT ![q] = "commit"],
               calls' = [calls EXCEPT ![q] = CallAll(nodes)]
        PROVE  PhasesOK' /\ CallsOK' /\ Onward
    BY <2>2, Moved DEF Phase
  <2> QED
    BY <2>1, <2>2
<1>2. AsksOK'
  <2>1. \A p \in Request : p # q => ask'[p] = ask[p] /\ phase'[p] = phase[p]
    BY DEF AsksOK, PhasesOK, Fail, Leave
  <2>2. ask'[q] = a /\ ask' = [p \in Request |-> ask'[p]]
    BY DEF AsksOK
  <2> QED
    BY <2>1, <2>2 DEF AsksOK
<1>3. StraysOK' /\ WalletOK' /\ GatheredOK'
  BY <1>1 DEF StraysOK, WalletOK, GatheredOK, Onward
<1> QED
  BY <1>1, <1>2, <1>3

\* What StartSignOn and StartToken take in.
LEMMA TakenKeepsInv ==
  ASSUME ProxyInv, NodeTypeOK', shares \subseteq shares', NEW q \in Request,
         \/ \E body \in SignOnBody : StartSignOn(q, body)
         \/ \E grant \in Grant, c \in Presented, jkt \in Proofs :
              StartToken(q, grant, c, ProofNow(jkt))
  PROVE  ProxyInv'
<1>1. ASSUME NEW body \in SignOnBody, StartSignOn(q, body) PROVE ProxyInv'
  <2>1. body \in Body
    BY BodyAssumption
  <2> QED
    BY <1>1, <2>1, StartKeepsInv DEF StartSignOn, nodeVars
<1>2. ASSUME NEW grant \in Grant, NEW c \in Presented, NEW jkt \in Proofs,
             StartToken(q, grant, c, ProofNow(jkt))
      PROVE  ProxyInv'
  <2> DEFINE a == [kind |-> "token", grant |-> grant, proof |-> ProofNow(jkt),
                   credential |-> c]
  <2>1. ProofNow(jkt) \in Proof
    BY ProofsAssumption DEF ProxyInv, NodeTypeOK, ProofNow, Proof
  <2>2. Genuine(shares, c)
    BY PresentedGenuine DEF ProxyInv
  <2>3. TokenAsked(shares, a)
    BY <2>1, <2>2 DEF TokenAsked
  <2>4. /\ ask' = [ask EXCEPT ![q] = a]
        /\ \/ Fail(q)
           \/ \E nodes : /\ phase' = [phase EXCEPT ![q] = "commit"]
                         /\ calls' = [calls EXCEPT ![q] = CallAll(nodes)]
        /\ UNCHANGED <<shares, access, refresh, issuedAt, replies, stray, wallet>>
    BY <1>2 DEF StartToken, nodeVars
  <2> HIDE DEF a
  <2> QED
    BY <2>3, <2>4, StartKeepsInv
<1> QED
  BY <1>1, <1>2

\* The end of a commit round.
LEMMA EndCommitKeepsInv ==
  ASSUME ProxyInv, NodeTypeOK', NEW q \in Request, EndCommit(q)
  PROVE  ProxyInv'
<1> USE DEF ProxyInv
<1>1. Collected(q) \in SUBSET Commitment /\ now \in Nat
  BY CollectedTyped DEF NodeTypeOK
<1>2. PhasesOK' /\ CallsOK' /\ Onward
  <2>1. CASE Fail(q)
    BY <2>1, Moved DEF Fail, Leave, Phase
  <2>2. ASSUME NEW ph \in {"sign", "refresh"}, NEW C,
               phase' = [phase EXCEPT ![q] = ph],
               calls' = [calls EXCEPT ![q] = CallAll(Signers(C))]
        PROVE  PhasesOK' /\ CallsOK' /\ Onward
    BY <2>2, Moved DEF Phase
  <2> QED
    BY <2>1, <2>2 DEF EndCommit
<1>3. shares' = shares /\ UNCHANGED <<ask, replies, stray, wallet>> /\ phase[q] # "idle"
  BY DEF EndCommit, nodeVars
<1>4. GatheredOK'
  BY <1>1, <1>3 DEF EndCommit, GatheredOK
<1>5. \A p \in Request : phase'[p] # "idle" => phase[p] # "idle"
  BY <1>3 DEF EndCommit, Fail, Leave, PhasesOK
<1>6. AsksOK'
  BY <1>3, <1>5, AsksKept
<1>7. StraysOK' /\ WalletOK'
  BY <1>2, <1>3 DEF StraysOK, WalletOK, Onward
<1> QED
  BY <1>2, <1>4, <1>6, <1>7

\* The end of a signing round, and the SDK's assembly.
LEMMA AssemblingKeepsInv ==
  ASSUME ProxyInv, NodeTypeOK', NEW q \in Request, EndSign(q) \/ AssembleAssertion(q)
  PROVE  ProxyInv'
<1> USE DEF ProxyInv
<1>1. /\ shares' = shares
      /\ UNCHANGED <<ask, access, refresh, issuedAt, replies, stray>>
      /\ phase[q] # "idle"
  BY DEF EndSign, AssembleAssertion, nodeVars
<1>2. PhasesOK' /\ CallsOK' /\ Onward
  <2>1. CASE EndSign(q)
    BY <2>1, Moved DEF EndSign, Leave, Phase
  <2>2. CASE AssembleAssertion(q)
    BY <2>2 DEF AssembleAssertion, PhasesOK, CallsOK, Onward
  <2> QED
    BY <2>1, <2>2
<1>3. \A p \in Request : phase'[p] # "idle" => phase[p] # "idle"
  BY <1>1 DEF EndSign, AssembleAssertion, Leave, PhasesOK
<1>4. WalletOK'
  <2>1. replies[q] \in SUBSET shares
    BY DEF GatheredOK
  <2>2. \A msg, C : Genuine(shares, Assembled(msg, replies[q], C))
    BY <2>1, AssembledGenuine
  <2>3. \A t \in wallet' \ wallet : Genuine(shares, t)
    BY <2>2 DEF EndSign, AssembleAssertion, AccessToken, RefreshToken
  <2> QED
    BY <1>1, <2>3, WalletKept
<1>5. StraysOK' /\ GatheredOK'
  BY <1>1, <1>2 DEF StraysOK, GatheredOK, Onward
<1> QED
  BY <1>1, <1>2, <1>3, <1>4, <1>5, AsksKept

\* A call of a commit round is answered, or fails and goes stray.
LEMMA CommitSettlingKeepsInv ==
  ASSUME ProxyInv, NodeTypeOK', shares \subseteq shares', NEW q \in Request,
         NEW i \in DOMAIN calls[q], CommitAnswered(q, i) \/ CommitFails(q, i)
  PROVE  ProxyInv'
<1> USE DEF ProxyInv
<1>1. /\ UNCHANGED <<phase, ask, access, refresh, issuedAt, replies, wallet>>
      /\ phase[q] # "idle" /\ i \in Sent(q)
  BY DEF CommitAnswered, CommitFails
<1>2. CallsOK'
  <2>1. CASE CommitAnswered(q, i)
    <3>1. calls[q][i].node \in Node
      BY <1>1, SentToNode
    <3>2. nonceCount'[calls[q][i].node] \in Nat
      BY <3>1 DEF NodeTypeOK
    <3> QED
      BY <1>1, <2>1, <3>2, CallSettles DEF CommitAnswered
  <2>2. CASE CommitFails(q, i)
    BY <1>1, <2>2, CallSettles DEF CommitFails, NoNonce
  <2> QED
    BY <2>1, <2>2
<1>3. PhasesOK' /\ Onward
  BY <1>1 DEF PhasesOK, Onward
<1>4. StraysOK'
  <2>1. \A m \in stray' \ stray : m = Stray(q, i)
    BY DEF CommitAnswered, CommitFails
  <2> QED
    BY <1>1, <1>3, <2>1, StraysKept
<1> QED
  BY <1>1, <1>2, <1>3, <1>4, AsksKept, GatheredKept, WalletKept

\* A call of a signing round is answered.
LEMMA SignAnsweredKeepsInv ==
  ASSUME ProxyInv, NodeTypeOK', shares \subseteq shares', NEW q \in Request,
         NEW i \in DOMAIN calls[q], SignAnswered(q, i)
  PROVE  ProxyInv'
<1> USE DEF ProxyInv
<1>1. /\ UNCHANGED <<phase, ask, access, refresh, issuedAt, stray, wallet>>
      /\ phase[q] # "idle" /\ i \in Sent(q)
  BY DEF SignAnswered
<1>2. CallsOK'
  BY <1>1, CallSettles DEF SignAnswered, NoNonce
<1>3. GatheredOK'
  BY <1>1 DEF SignAnswered, GatheredOK
<1>4. PhasesOK' /\ StraysOK'
  BY <1>1 DEF PhasesOK, StraysOK
<1> QED
  BY <1>1, <1>2, <1>3, <1>4, AsksKept, WalletKept

\* A signing round fails on a refusal or a failure.
LEMMA SignFailingKeepsInv ==
  ASSUME ProxyInv, NodeTypeOK', shares \subseteq shares', NEW q \in Request,
         NEW i \in DOMAIN calls[q], SignRefused(q, i) \/ SignFails(q, i)
  PROVE  ProxyInv'
<1> USE DEF ProxyInv
<1>1. /\ UNCHANGED <<ask, access, refresh, issuedAt, replies, wallet>>
      /\ phase[q] # "idle" /\ Fail(q)
  BY DEF SignRefused, SignFails
<1>2. PhasesOK' /\ CallsOK' /\ Onward
  BY <1>1, Moved DEF Fail, Leave, Phase
<1>3. \A p \in Request : phase'[p] # "idle" => phase[p] # "idle"
  BY <1>1 DEF Fail, Leave, PhasesOK
<1>4. StraysOK'
  <2>1. \A m \in stray' \ stray : \E j \in Sent(q) : m = Stray(q, j)
    BY DEF SignRefused, SignFails
  <2> QED
    BY <1>1, <1>2, <2>1, StraysKept
<1> QED
  BY <1>1, <1>2, <1>3, <1>4, AsksKept, GatheredKept, WalletKept

\* A stray call arrives, a node restarts or the clock ticks: no handler moves.
LEMMA OthersKeepInv ==
  ASSUME ProxyInv, NodeTypeOK', shares \subseteq shares', stray' \subseteq stray,
         UNCHANGED <<phase, ask, calls, access, refresh, issuedAt, replies, wallet>>
  PROVE  ProxyInv'
<1> USE DEF ProxyInv
<1>1. PhasesOK' /\ CallsOK' /\ StraysOK'
  BY DEF PhasesOK, CallsOK, StraysOK
<1> QED
  BY <1>1, AsksKept, GatheredKept, WalletKept

\* Every step keeps the invariant.
LEMMA NextKeepsInv ==
  ASSUME ProxyInv, Next
  PROVE  ProxyInv'
<1>1. NodeTypeOK' /\ shares \subseteq shares'
  BY NextIsStep, SharesGrow DEF ProxyInv
<1>2. ASSUME NEW q \in Request, Served(q) PROVE ProxyInv'
  BY <1>1, <1>2, TakenKeepsInv, EndCommitKeepsInv, AssemblingKeepsInv DEF Served
<1>3. ASSUME NEW q \in Request, CommitSettles(q) PROVE ProxyInv'
  BY <1>1, <1>3, CommitSettlingKeepsInv DEF CommitSettles
<1>4. ASSUME NEW q \in Request, SignSettles(q) PROVE ProxyInv'
  BY <1>1, <1>4, SignAnsweredKeepsInv, SignFailingKeepsInv DEF SignSettles
<1>5. ASSUME NEW m \in stray, StrayArrives(m) PROVE ProxyInv'
  BY <1>1, <1>5, OthersKeepInv DEF StrayArrives
<1>6. ASSUME NEW n \in Node, NodeRestarts(n) PROVE ProxyInv'
  BY <1>1, <1>6, OthersKeepInv DEF NodeRestarts
<1>7. CASE ClockTicks
  BY <1>1, <1>7, OthersKeepInv DEF ClockTicks, proxyVars
<1> QED
  BY <1>2, <1>3, <1>4, <1>5, <1>6, <1>7 DEF Next

\* It holds when nothing has been asked yet.
LEMMA InitInv ==
  ASSUME Init
  PROVE  ProxyInv
<1>1. NodeTypeOK /\ now \in Nat
  BY DEF Init, NodeInit, NodeTypeOK, NoNonce
<1>2. PhasesOK /\ AsksOK /\ StraysOK /\ WalletOK
  BY DEF Init, PhasesOK, AsksOK, StraysOK, WalletOK, Phase
<1>3. CallsOK
  <2>1. /\ calls = [q \in Request |-> calls[q]]
        /\ \A q \in Request : calls[q] = << >> /\ DOMAIN calls[q] = {}
    BY DEF Init
  <2>2. << >> = [i \in DOMAIN << >> |-> << >>[i]]
    OBVIOUS
  <2> QED
    BY <2>1, <2>2 DEF CallsOK
<1>4. GatheredOK
  BY DEF Init, GatheredOK
<1> QED
  BY <1>1, <1>2, <1>3, <1>4 DEF ProxyInv

-------------------------------------------------------------------------------
\* The invariant holds.
THEOREM ProxyInvariant == Spec => []ProxyInv
<1>1. ProxyInv /\ UNCHANGED vars => ProxyInv'
  <2> SUFFICES ASSUME ProxyInv, UNCHANGED vars PROVE ProxyInv'
    OBVIOUS
  <2>1. NodeTypeOK' /\ shares' = shares
    BY DEF vars, nodeVars, ProxyInv, NodeTypeOK
  <2> QED
    BY <2>1, OthersKeepInv DEF vars, proxyVars
<1> QED
  BY <1>1, InitInv, NextKeepsInv, PTL DEF Spec

\* The whole system gets no behaviour out of the nodes that NodeSpec does not allow: late
\* calls, failed rounds, restarts and credentials that were made up included
\* (proxy.ts 108-180, 284-340 and http-node-client.ts 31-72 against node.ts 228-469).
THEOREM ProxyImplementsNodeSpec == Spec => NodeSpec
<1>1. ProxyInv /\ [Next]_vars => [NodeStep]_nodeState
  BY NextIsStep DEF vars, nodeState
<1>2. Init => NodeInit
  BY DEF Init
<1> QED
  BY <1>1, <1>2, ProxyInvariant, PTL DEF Spec, NodeSpec, nodeState

\* Hence the nodes are safe in it: no nonce pair is used twice, every token descends from
\* a sign-on, and every credential expires, whatever requests run at the same time.
COROLLARY NodesAreSafe ==
  Spec => [](NonceSingleUse /\ OpenNoncesUnused /\ TokensDescendFromSignOn /\ SpendWindow)
BY ProxyImplementsNodeSpec, NoncesUsedOnce, OpenRoundsAreFresh, TokensDescend,
   CredentialsExpire, PTL

-------------------------------------------------------------------------------
(***************************************************************************)
(* A request, from its first call to its answer: what is completed         *)
(* verifies, closes its rounds and was signed in time, what failed had a   *)
(* cause, and the whole implements the abstract issuer.                    *)
(*                                                                         *)
(* None of this is inductive: a request completes when every node it       *)
(* called has answered, and that the answers aggregate depends on what     *)
(* each node held when the calls were made, two or three awaits earlier.   *)
(* RequestInv says, for one request,                                       *)
(*   - while it collects commitments, that the nodes which answered hold   *)
(*     the pairs they answered with (Collecting),                          *)
(*   - that they still do until they sign (Gathered, Gatherings), unless   *)
(*     one failed or restarted, and that no commit call is astray that     *)
(*     would replace them (StraysFit, RefreshUnopened),                    *)
(*   - that a node which has signed did so with the pair it committed and  *)
(*     holds no round of the request any more (Signing, Finished),         *)
(*   - that what was signed is what was asked, in time (RepliesFit).       *)
(* Round ids are the request's own, so steps of others leave it alone but  *)
(* for the wallet, the clock and the nodes' counters: Aside says so once   *)
(* for all of them, and each step is looked at for its own request only.   *)
(***************************************************************************)

-------------------------------------------------------------------------------
(***************************************************************************)
(* Sets of commitments, and the sequences of calls made to their nodes.    *)
(***************************************************************************)

\* An interval from one has as many elements as its end says.
LEMMA IntervalCounts ==
  ASSUME NEW n \in Nat
  PROVE  IsFiniteSet(1 .. n) /\ Cardinality(1 .. n) = n
<1>1. 1 \in Int /\ n \in Int
  OBVIOUS
<1>2. IsFiniteSet(1 .. n) /\ Cardinality(1 .. n) = IF 1 > n THEN 0 ELSE n - 1 + 1
  BY <1>1, FS_Interval
<1> QED
  BY <1>2

\* SetToSeq enumerates a finite set, every element once.
LEMMA SetToSeqEnumerates ==
  ASSUME NEW S, IsFiniteSet(S)
  PROVE  /\ Cardinality(S) \in Nat
         /\ SetToSeq(S) \in [1 .. Cardinality(S) -> S]
         /\ DOMAIN SetToSeq(S) = 1 .. Cardinality(S)
         /\ \A i \in DOMAIN SetToSeq(S) : SetToSeq(S)[i] \in S
         /\ \A i, j \in DOMAIN SetToSeq(S) : SetToSeq(S)[i] = SetToSeq(S)[j] => i = j
         /\ \A x \in S : \E i \in DOMAIN SetToSeq(S) : SetToSeq(S)[i] = x
<1> DEFINE D == 1 .. Cardinality(S)
           s == SetToSeq(S)
<1>1. Cardinality(S) \in Nat /\ ExistsBijection(D, S)
  BY FS_CardinalityType
<1>2. PICK f : f \in Bijection(D, S)
  BY <1>1 DEF ExistsBijection
<1>3. f \in [D -> S] /\ IsInjective(f)
  BY <1>2 DEF Bijection, Injection, IsInjective
<1>4. s \in [D -> S] /\ IsInjective(s)
  BY <1>3 DEF SetToSeq
<1>5. s \in Injection(D, S)
  BY <1>4 DEF Injection, IsInjective
<1>6. IsFiniteSet(D) /\ Cardinality(D) = Cardinality(S)
  BY <1>1, IntervalCounts
<1>7. s \in Surjection(D, S)
  BY <1>5, <1>6, FS_Injection
<1> QED
  BY <1>1, <1>4, <1>7 DEF Surjection, IsInjective

\* No two commitments of C are of one node.
Once(C) == \A c, d \in C : c.node = d.node => c = d

\* The signers of a finite set: the node of every commitment, one entry per commitment.
LEMMA SignersEnumerate ==
  ASSUME NEW C, IsFiniteSet(C)
  PROVE  /\ DOMAIN Signers(C) = DOMAIN SetToSeq(C)
         /\ DOMAIN Signers(C) = 1 .. Cardinality(C)
         /\ \A i \in DOMAIN Signers(C) :
              Signers(C)[i] = SetToSeq(C)[i].node /\ Signers(C)[i] \in Participants(C)
         /\ \A c \in C : \E i \in DOMAIN Signers(C) : SetToSeq(C)[i] = c
         /\ Once(C) => \A i, j \in DOMAIN Signers(C) : Signers(C)[i] = Signers(C)[j] => i = j
BY SetToSeqEnumerates DEF Signers, Participants, Once

\* A set that names every node once has as many nodes as commitments.
LEMMA OnceCounts ==
  ASSUME NEW C, IsFiniteSet(C), Once(C)
  PROVE  Cardinality(Participants(C)) = Cardinality(C)
<1> DEFINE f == [c \in C |-> c.node]
<1>1. f \in [C -> Participants(C)]
  BY DEF Participants
<1>2. f \in Injection(C, Participants(C)) /\ f \in Surjection(C, Participants(C))
  BY <1>1 DEF Once, Participants, Injection, Surjection, IsInjective
<1> QED
  BY <1>2, FS_Surjection

\* Answers that differ in node or nonce are as many commitments.
LEMMA CollectedCounts ==
  ASSUME NEW q \in Request, IsFiniteSet(DOMAIN calls[q]),
         \A i, j \in Ok(q) : calls[q][i].node = calls[q][j].node
                             /\ calls[q][i].nonce = calls[q][j].nonce => i = j
  PROVE  IsFiniteSet(Collected(q)) /\ Cardinality(Collected(q)) = Cardinality(Ok(q))
<1> DEFINE f == [i \in Ok(q) |-> [node |-> calls[q][i].node, nonce |-> calls[q][i].nonce]]
<1>1. IsFiniteSet(Ok(q))
  BY FS_Subset DEF Ok
<1>2. f \in [Ok(q) -> Collected(q)]
  BY DEF Collected
<1>3. f \in Injection(Ok(q), Collected(q))
  <2>1. \A i, j \in Ok(q) : f[i] = f[j] => i = j
    OBVIOUS
  <2> QED
    BY <1>2, <2>1 DEF Injection, IsInjective
<1>4. f \in Surjection(Ok(q), Collected(q))
  BY <1>2 DEF Surjection, Collected
<1> QED
  BY <1>1, <1>3, <1>4, FS_Surjection

-------------------------------------------------------------------------------
(***************************************************************************)
(* The invariant, one request at a time.                                   *)
(***************************************************************************)
Rounds == {"commit", "refresh"}

\* The pair node n holds for round ph of request q, and a commit call of it nobody awaits.
Held(q, ph, n) == activeNonces[n][RoundOf(q, ph)]
Astray(q, ph, n) == \E m \in stray : m.request = q /\ m.phase = ph /\ m.node = n

\* A sign-on that names a node twice, or somebody who is no node.
Repeats(q) ==
  /\ IsSignOn(q) /\ ask[q].participants # Unspecified
  /\ ~IsInjective(ask[q].participants)

Strangers(q) ==
  /\ IsSignOn(q) /\ ask[q].participants # Unspecified
  /\ ~(Range(ask[q].participants) \subseteq Node)

FailedAt(q, n) == \E i \in DOMAIN calls[q] :
  calls[q][i].node = n /\ calls[q][i].state = "failed"

\* The calls of q go to the signers of its first commitment set.
CallsSigners(q) ==
  /\ DOMAIN calls[q] = DOMAIN Signers(access[q])
  /\ \A i \in DOMAIN calls[q] : calls[q][i].node = Signers(access[q])[i]

\* The message a node signs over the first commitment set: the assertion or access token.
FirstMsg(q) == IF IsSignOn(q) THEN AssertionOf(SignOnCall(q)) ELSE AccessOf(SignCall(q))

\* Node n has signed for q with a pair it committed to, and holds no round of q any more.
Answered(q, n) ==
  /\ \A ph \in Rounds : Held(q, ph, n) = NoNonce
  /\ \E c \in access[q] : c.node = n /\ Signed(replies[q], c, FirstMsg(q), access[q])
  /\ ~IsSignOn(q) =>
       \E c \in refresh[q] :
         c.node = n /\ Signed(replies[q], c, RefreshOf(SignCall(q)), refresh[q])

\* A credential that verifies is in the wallet; the proof and the pinned iat are not of
\* the future.
AskFits(q) ==
  /\ phase[q] # "idle" /\ ~IsSignOn(q) =>
       /\ ask[q].credential.sigOk => ask[q].credential \in wallet
       /\ ask[q].proof.iat <= now
  /\ phase[q] = "refresh" => ~IsSignOn(q)
  /\ issuedAt[q] <= now

\* Signing calls go astray only when the request failed, commits only by a node's fault.
StraysFit(q) == \A m \in stray : m.request = q =>
  /\ m.phase \in {"commit", "refresh", "sign"}
  /\ m.phase = "sign" => phase[q] = "failed"
  /\ m.phase # "sign" => faulty # {}

\* The refresh token's round is opened by the second commit round of /token only.
RefreshUnopened(q) ==
  phase[q] \in {"idle", "commit"} \/ IsSignOn(q) =>
    \A n \in Node : Held(q, "refresh", n) = NoNonce /\ ~Astray(q, "refresh", n)

\* A node that answered a commit round holds the pair it answered with, unless a call to
\* it failed, which may have reached it all the same, or it restarted.
Collecting(q) == phase[q] \in Rounds =>
  /\ IsFiniteSet(DOMAIN calls[q]) /\ Cardinality(DOMAIN calls[q]) >= Threshold
  /\ \A i \in DOMAIN calls[q] :
       /\ calls[q][i].state \in {"sent", "ok", "failed"}
       /\ calls[q][i].state = "failed" => faulty # {} \/ Strangers(q)
  /\ \A i \in Ok(q) :
       /\ calls[q][i].nonce \in 1 .. nonceCount[calls[q][i].node]
       /\ \/ FailedAt(q, calls[q][i].node)
          \/ Held(q, phase[q], calls[q][i].node) = NoNonce /\ faulty # {}
          \/ \E j \in Ok(q) : /\ calls[q][j].node = calls[q][i].node
                              /\ calls[q][j].nonce = Held(q, phase[q], calls[q][i].node)
  /\ \A i, j \in DOMAIN calls[q] : i # j /\ calls[q][i].node = calls[q][j].node =>
       /\ Repeats(q)
       /\ i \in Ok(q) /\ j \in Ok(q) => calls[q][i].nonce # calls[q][j].nonce
  /\ \A n \in Node : Astray(q, phase[q], n) => FailedAt(q, n)
  /\ phase[q] = "refresh" => CallsSigners(q)

\* The commitments C of round ph are those their nodes hold until they sign, and no call
\* is astray that would replace them.
Gathered(q, ph, C) ==
  /\ IsFiniteSet(C) /\ Cardinality(C) >= Threshold
  /\ Repeats(q) \/ Once(C)
  /\ \A c \in C :
       /\ c.nonce # NoNonce
       /\ ~Astray(q, ph, c.node)
       /\ \/ \E d \in C : d.node = c.node /\ d.nonce = Held(q, ph, c.node)
          \/ /\ Held(q, ph, c.node) = NoNonce
             /\ \/ faulty # {}
                \/ phase[q] = "done"
                \/ phase[q] = "sign" /\ \E i \in Ok(q) : calls[q][i].node = c.node

Gatherings(q) ==
  /\ phase[q] \in {"refresh", "sign", "done"} => Gathered(q, "commit", access[q])
  /\ phase[q] \in {"sign", "done"} /\ ~IsSignOn(q) =>
       /\ Gathered(q, "refresh", refresh[q])
       /\ Participants(refresh[q]) = Participants(access[q])
       /\ Once(access[q]) => Once(refresh[q])
       /\ ask[q].proof.iat <= issuedAt[q]

\* Signing calls have answers or are under way, and no node answers twice.
Signing(q) == phase[q] = "sign" =>
  /\ CallsSigners(q)
  /\ \A i \in DOMAIN calls[q] : calls[q][i].state \in {"sent", "ok"}
  /\ \A i \in Ok(q) : Answered(q, calls[q][i].node)
  /\ \A i, j \in Ok(q) : calls[q][i].node = calls[q][j].node => i = j

Finished(q) == phase[q] = "done" =>
  /\ Once(access[q])
  /\ \A c \in access[q] : Answered(q, c.node)

FailedRightly(q) == phase[q] = "failed" /\ faulty = {} => ~WellFormed(q)

\* What the nodes answered is what they were asked to sign, at a time they might.
RepliesFit(q) ==
  /\ phase[q] \in {"idle", "commit", "refresh"} => replies[q] = {}
  /\ \A s \in replies[q] :
       IF IsSignOn(q)
       THEN s.msg = AssertionOf(SignOnCall(q))
       ELSE /\ s.msg \in {AccessOf(SignCall(q)), RefreshOf(SignCall(q))}
            /\ issuedAt[q] <= s.at
            /\ VerifyCredential(ask[q].grant, ask[q].credential, s.at)
            /\ VerifyDPoPProof(ask[q].proof, ask[q].credential.msg.holder.jkt, s.at)

RequestFits(q) ==
  /\ AskFits(q) /\ StraysFit(q) /\ RefreshUnopened(q)
  /\ Collecting(q) /\ Gatherings(q) /\ Signing(q)
  /\ Finished(q) /\ FailedRightly(q) /\ RepliesFit(q)

RequestInv == \A q \in Request : RequestFits(q)

-------------------------------------------------------------------------------
(***************************************************************************)
(* Requests leave each other alone.                                        *)
(***************************************************************************)

\* What no step takes back.
Grows ==
  /\ wallet \subseteq wallet'
  /\ faulty # {} => faulty' # {}
  /\ now \in Nat /\ now' \in Nat /\ now <= now'
  /\ \A n \in Node : /\ nonceCount[n] \in Nat /\ nonceCount'[n] \in Nat
                     /\ nonceCount[n] <= nonceCount'[n]

\* A step that does not move p's handler: p's rounds are as they were, lost, or opened
\* again by a call of p that was astray.
Aside(p) ==
  /\ phase'[p] = phase[p]
  /\ ask'[p] = ask[p]
  /\ calls'[p] = calls[p]
  /\ access'[p] = access[p]
  /\ refresh'[p] = refresh[p]
  /\ issuedAt'[p] = issuedAt[p]
  /\ replies'[p] = replies[p]
  /\ \A m \in stray' : m.request = p => m \in stray
  /\ \A n \in Node, ph \in Rounds :
       \/ Held(p, ph, n)' = Held(p, ph, n)
       \/ Held(p, ph, n)' = NoNonce /\ (faulty' # {} \/ phase[p] = "failed")
       \/ Astray(p, ph, n)

\* A request that is well formed was so before the step.
LEMMA WellFormedBefore ==
  ASSUME ProxyInv, NEW p \in Request, phase[p] # "idle", AskFits(p), Grows,
         ask'[p] = ask[p], WellFormed(p)'
  PROVE  WellFormed(p)
<1>1. now \in Int /\ now' \in Int /\ now <= now' /\ 0 <= now
  BY DEF Grows
<1>2. CLOCK_SKEW_SECONDS \in Int
  BY LifetimeAssumption
<1>3. CASE IsSignOn(p)
  <2>1. ask[p].iat \in Int
    BY <1>3 DEF ProxyInv, AsksOK, IsSignOn, TokenAsked, Body
  <2> QED
    BY <1>1, <1>2, <1>3, <2>1 DEF WellFormed, IsSignOn, Fresh
<1>4. CASE ~IsSignOn(p)
  <2>1. TokenAsked(shares, ask[p])
    BY <1>4 DEF ProxyInv, AsksOK, IsSignOn, Body
  <2>2. ask[p].proof.iat \in Int /\ ask[p].proof.iat <= now
    BY <1>4, <2>1 DEF TokenAsked, Proof, AskFits
  <2>3. /\ VerifyCredential(ask[p].grant, ask[p].credential, now')
        /\ VerifyDPoPProof(ask[p].proof, ask[p].credential.msg.holder.jkt, now')
    BY <1>4 DEF WellFormed, IsSignOn
  <2>4. ask[p].credential.sigOk /\ now' <= ask[p].credential.msg.exp
    BY <2>3 DEF VerifyCredential, VerifyAssertion, VerifyRefreshToken, VerifyJwt
  <2>5. ask[p].credential.msg.exp \in Int
    BY <2>1, <2>4 DEF TokenAsked, Genuine, Credential, Message
  <2>6. now <= ask[p].credential.msg.exp
    BY <1>1, <2>4, <2>5
  <2>7. VerifyCredential(ask[p].grant, ask[p].credential, now)
    BY <2>3, <2>6 DEF VerifyCredential, VerifyAssertion, VerifyRefreshToken, VerifyJwt
  <2>8. Fresh(ask[p].proof.iat, now)
    BY <1>1, <1>2, <2>2, <2>3 DEF VerifyDPoPProof, Fresh
  <2> QED
    BY <1>4, <2>3, <2>7, <2>8 DEF WellFormed, IsSignOn, VerifyDPoPProof
<1> QED
  BY <1>3, <1>4

\* What a step leaves of a request it does not move.
LEMMA AsideSame ==
  ASSUME NEW p \in Request, Aside(p)
  PROVE  /\ IsSignOn(p)' = IsSignOn(p)
         /\ Ok(p)' = Ok(p)
         /\ Repeats(p)' = Repeats(p)
         /\ Strangers(p)' = Strangers(p)
         /\ CallsSigners(p)' = CallsSigners(p)
         /\ FirstMsg(p)' = FirstMsg(p)
         /\ SignOnCall(p)' = SignOnCall(p)
         /\ SignCall(p)' = SignCall(p)
         /\ \A n : FailedAt(p, n)' = FailedAt(p, n)
         /\ \A ph, n : Astray(p, ph, n)' => Astray(p, ph, n)
<1> USE DEF Aside
<1>1. IsSignOn(p)' = IsSignOn(p) /\ Ok(p)' = Ok(p) /\ CallsSigners(p)' = CallsSigners(p)
  BY DEF IsSignOn, Ok, CallsSigners
<1>2. Repeats(p)' = Repeats(p) /\ Strangers(p)' = Strangers(p)
  BY <1>1 DEF Repeats, Strangers
<1>3. SignOnCall(p)' = SignOnCall(p) /\ SignCall(p)' = SignCall(p)
  BY DEF SignOnCall, SignCall
<1>4. FirstMsg(p)' = FirstMsg(p)
  BY <1>1, <1>3 DEF FirstMsg
<1>5. \A n : FailedAt(p, n)' = FailedAt(p, n)
  BY DEF FailedAt
<1>6. \A ph, n : Astray(p, ph, n)' => Astray(p, ph, n)
  BY DEF Astray
<1> QED
  BY <1>1, <1>2, <1>3, <1>4, <1>5, <1>6

\* The commitments of such a request stay gathered.
LEMMA AsideKeepsGathered ==
  ASSUME NEW p \in Request, NEW ph \in Rounds, NEW C, C \subseteq Commitment,
         Gathered(p, ph, C), phase[p] # "failed", Grows, Aside(p)
  PROVE  Gathered(p, ph, C)'
<1>1. \A c \in C : c.node \in Node
  BY DEF Commitment
<1>2. ASSUME NEW c \in C PROVE ~Astray(p, ph, c.node)'
  BY AsideSame DEF Gathered
<1>3. ASSUME NEW c \in C
      PROVE  \/ \E d \in C : d.node = c.node /\ d.nonce = Held(p, ph, c.node)'
             \/ /\ Held(p, ph, c.node)' = NoNonce
                /\ \/ faulty' # {}
                   \/ phase'[p] = "done"
                   \/ phase'[p] = "sign" /\ \E i \in Ok(p)' : calls'[p][i].node = c.node
  <2>1. CASE Held(p, ph, c.node)' = Held(p, ph, c.node)
    BY <2>1, AsideSame DEF Gathered, Aside, Grows
  <2>2. CASE Held(p, ph, c.node)' # Held(p, ph, c.node)
    BY <1>1, <2>2 DEF Aside, Gathered
  <2> QED
    BY <2>1, <2>2
<1>4. (Repeats(p) \/ Once(C))'
  BY AsideSame DEF Gathered
<1> QED
  BY <1>2, <1>3, <1>4 DEF Gathered

\* The nodes' answers to it stand.
LEMMA AsideKeepsAnswered ==
  ASSUME NEW p \in Request, NEW n \in Node, Answered(p, n), Aside(p),
         phase[p] \in {"sign", "done"}, RefreshUnopened(p), Gatherings(p)
  PROVE  Answered(p, n)'
<1>2. \A ph \in Rounds : ~Astray(p, ph, n)
  <2>1. PICK c \in access[p] : c.node = n
    BY DEF Answered
  <2>2. ~Astray(p, "commit", n)
    BY <2>1 DEF Gatherings, Gathered
  <2>3. CASE IsSignOn(p)
    BY <2>2, <2>3 DEF RefreshUnopened, Rounds
  <2>4. CASE ~IsSignOn(p)
    <3>1. PICK d \in refresh[p] : d.node = n
      BY <2>1, <2>4 DEF Gatherings, Participants
    <3> QED
      BY <2>2, <2>4, <3>1 DEF Gatherings, Gathered, Rounds
  <2> QED
    BY <2>3, <2>4
<1>1. \A ph \in Rounds : Held(p, ph, n)' = NoNonce
  BY <1>2 DEF Answered, Aside
<1> QED
  BY <1>1, AsideSame DEF Answered, Aside, Signed

\* A round under way collects on.
LEMMA AsideKeepsCollecting ==
  ASSUME NEW p \in Request, CallsOK, Collecting(p), Grows, Aside(p)
  PROVE  Collecting(p)'
<1> SUFFICES ASSUME phase[p] \in Rounds PROVE Collecting(p)'
  BY DEF Collecting, Aside
<1>1. calls'[p] = calls[p] /\ phase'[p] = phase[p] /\ phase[p] # "failed"
  BY DEF Aside, Rounds
<1>2. ASSUME NEW i \in Ok(p)
      PROVE  /\ calls[p][i].nonce \in 1 .. nonceCount'[calls[p][i].node]
             /\ \/ FailedAt(p, calls[p][i].node)
                \/ Held(p, phase[p], calls[p][i].node)' = NoNonce /\ faulty' # {}
                \/ \E j \in Ok(p) :
                     /\ calls[p][j].node = calls[p][i].node
                     /\ calls[p][j].nonce = Held(p, phase[p], calls[p][i].node)'
  <2> DEFINE n == calls[p][i].node
  <2>1. n \in Node
    BY DEF CallsOK, CallOK, Ok
  <2>2. calls[p][i].nonce \in 1 .. nonceCount'[n]
    BY <2>1 DEF Collecting, Grows
  <2>3. CASE Held(p, phase[p], n)' = Held(p, phase[p], n)
    BY <2>2, <2>3 DEF Collecting, Grows
  <2>4. CASE Held(p, phase[p], n)' # Held(p, phase[p], n)
    BY <1>1, <2>1, <2>2, <2>4 DEF Aside, Collecting
  <2> QED
    BY <2>3, <2>4
<1>3. \A i \in DOMAIN calls[p] :
        /\ calls[p][i].state \in {"sent", "ok", "failed"}
        /\ calls[p][i].state = "failed" => faulty' # {} \/ Strangers(p)'
  BY AsideSame DEF Collecting, Grows
<1>4. \A n \in Node : Astray(p, phase[p], n)' => FailedAt(p, n)'
  BY <1>1, AsideSame DEF Collecting
<1>5. \A i, j \in DOMAIN calls[p] : i # j /\ calls[p][i].node = calls[p][j].node =>
        /\ Repeats(p)'
        /\ i \in Ok(p)' /\ j \in Ok(p)' => calls[p][i].nonce # calls[p][j].nonce
  BY AsideSame DEF Collecting
<1>6. IsFiniteSet(DOMAIN calls[p]) /\ Cardinality(DOMAIN calls[p]) >= Threshold
      /\ (phase[p] = "refresh" => CallsSigners(p)')
  BY AsideSame DEF Collecting
<1>7. \A n : FailedAt(p, n)' = FailedAt(p, n)
  BY AsideSame
<1>8. Ok(p)' = Ok(p)
  BY AsideSame
<1> QED
  BY <1>1, <1>2, <1>3, <1>4, <1>5, <1>6, <1>7, <1>8 DEF Collecting

\* A step that moves other handlers keeps all that is said of a request.
LEMMA AsideKeepsFit ==
  ASSUME ProxyInv, NEW p \in Request, RequestFits(p), Grows, Aside(p)
  PROVE  RequestFits(p)'
<1> USE DEF RequestFits
<1>1. AskFits(p)'
  <2>1. CASE phase[p] # "idle" /\ ~IsSignOn(p)
    <3>1. ask[p].proof.iat \in Int
      BY <2>1 DEF ProxyInv, AsksOK, IsSignOn, Body, TokenAsked, Proof
    <3>2. issuedAt[p] \in Int
      BY DEF ProxyInv, GatheredOK
    <3> QED
      BY <2>1, <3>1, <3>2, AsideSame DEF AskFits, Aside, Grows
  <2>2. CASE ~(phase[p] # "idle" /\ ~IsSignOn(p))
    <3>1. issuedAt[p] \in Int
      BY DEF ProxyInv, GatheredOK
    <3> QED
      BY <2>2, <3>1, AsideSame DEF AskFits, Aside, Grows
  <2> QED
    BY <2>1, <2>2
<1>2. StraysFit(p)'
  BY DEF StraysFit, Aside, Grows
<1>3. RefreshUnopened(p)'
  BY AsideSame DEF RefreshUnopened, Aside, Rounds
<1>4. Collecting(p)'
  BY AsideKeepsCollecting DEF ProxyInv
<1>5. Gatherings(p)'
  <2>1. access[p] \subseteq Commitment /\ refresh[p] \subseteq Commitment
    BY DEF ProxyInv, GatheredOK
  <2>2. phase[p] \in {"refresh", "sign", "done"} => Gathered(p, "commit", access[p])'
    BY <2>1, AsideKeepsGathered DEF Gatherings, Rounds, Aside
  <2>3. phase[p] \in {"sign", "done"} /\ ~IsSignOn(p) => Gathered(p, "refresh", refresh[p])'
    BY <2>1, AsideKeepsGathered DEF Gatherings, Rounds, Aside
  <2> QED
    BY <2>2, <2>3, AsideSame DEF Gatherings, Aside
<1>6. Signing(p)'
  <2> SUFFICES ASSUME phase[p] = "sign" PROVE Signing(p)'
    BY DEF Signing, Aside
  <2>1. \A i \in Ok(p) : calls[p][i].node \in Node
    BY DEF ProxyInv, CallsOK, CallOK, Ok
  <2>2. \A i \in Ok(p) : Answered(p, calls[p][i].node)'
    BY <2>1, AsideKeepsAnswered DEF Signing, Aside
  <2> QED
    BY <2>2, AsideSame DEF Signing, Aside
<1>7. Finished(p)'
  <2> SUFFICES ASSUME phase[p] = "done" PROVE Finished(p)'
    BY DEF Finished, Aside
  <2>1. \A c \in access[p] : c.node \in Node
    BY DEF ProxyInv, GatheredOK, Commitment
  <2>2. \A c \in access[p] : Answered(p, c.node)'
    BY <2>1, AsideKeepsAnswered DEF Finished, Aside
  <2> QED
    BY <2>2 DEF Finished, Aside
<1>8. FailedRightly(p)'
  BY WellFormedBefore DEF FailedRightly, Aside, Grows
<1>9. RepliesFit(p)'
  BY AsideSame DEF RepliesFit, Aside
<1> QED
  BY <1>1, <1>2, <1>3, <1>4, <1>5, <1>6, <1>7, <1>8, <1>9

-------------------------------------------------------------------------------
(***************************************************************************)
(* What the nodes do to the rounds of requests.                            *)
(***************************************************************************)

\* A commit gives one node a new pair for one round.
LEMMA CommitEffect ==
  ASSUME NodeTypeOK, NEW q \in Request, NEW n \in Node, NEW ph \in Rounds,
         GenerateCommitment(n, RoundOf(q, ph))
  PROVE  /\ \A p \in Request, rd \in Rounds, m \in Node :
              Held(p, rd, m)' = IF p = q /\ rd = ph /\ m = n THEN nonceCount[n] + 1
                                ELSE Held(p, rd, m)
         /\ \A m \in Node : nonceCount'[m] = IF m = n THEN nonceCount[n] + 1
                                             ELSE nonceCount[m]
         /\ shares' = shares /\ now' = now
<1>1. RoundOf(q, ph) \in RoundId
  BY RoundTyped DEF Rounds
<1>2. \A m \in Node, r \in RoundId :
        activeNonces'[m][r] = IF m = n /\ r = RoundOf(q, ph) THEN nonceCount[n] + 1
                              ELSE activeNonces[m][r]
  BY <1>1 DEF GenerateCommitment, NodeTypeOK
<1>3. \A p \in Request, rd \in Rounds : /\ RoundOf(p, rd) \in RoundId
                                        /\ RoundOf(p, rd) = RoundOf(q, ph) <=> p = q /\ rd = ph
  BY RoundTyped DEF Rounds, RoundOf
<1> QED
  BY <1>2, <1>3 DEF GenerateCommitment, NodeTypeOK, Held

\* A signing call empties at most the rounds it names, and the second only for tokens.
LEMMA SigningEffect ==
  ASSUME NodeTypeOK, NEW q \in Request, NEW n \in Node,
         NodeAnswers(q, n) \/ NodeRefuses(q, n)
  PROVE  /\ \A p \in Request, rd \in Rounds, m \in Node :
              \/ Held(p, rd, m)' = Held(p, rd, m)
              \/ p = q /\ m = n /\ Held(p, rd, m)' = NoNonce
         /\ NodeAnswers(q, n) => /\ Held(q, "commit", n)' = NoNonce
                                 /\ ~IsSignOn(q) => Held(q, "refresh", n)' = NoNonce
         /\ nonceCount' = nonceCount /\ now' = now
<1> DEFINE R == IF IsSignOn(q) THEN {RoundOf(q, "commit")}
                ELSE {RoundOf(q, "commit"), RoundOf(q, "refresh")}
<1>1. R \in SUBSET RoundId /\ RoundOf(q, "commit") \in RoundId
      /\ RoundOf(q, "refresh") \in RoundId
  BY RoundTyped
<1>2. /\ Spend(n, R) \/ UNCHANGED activeNonces
      /\ NodeAnswers(q, n) => Spend(n, R)
      /\ nonceCount' = nonceCount /\ now' = now
  BY DEF NodeAnswers, NodeRefuses, AnswerSignOn, AnswerSign, SpoilSignOn, SpoilSign,
         RefuseSignOn, RefuseSign, nodeVars
<1>3. \A p \in Request, rd \in Rounds : /\ RoundOf(p, rd) \in RoundId
                                        /\ RoundOf(p, rd) \in R => p = q
  BY RoundTyped DEF Rounds, RoundOf
<1> HIDE DEF R
<1>4. Spend(n, R) => \A m \in Node, r \in RoundId :
        activeNonces'[m][r] = IF m = n /\ r \in R THEN NoNonce ELSE activeNonces[m][r]
  BY <1>1, SpendEffect
<1>5. ASSUME NEW p \in Request, NEW rd \in Rounds, NEW m \in Node
      PROVE  \/ Held(p, rd, m)' = Held(p, rd, m)
             \/ p = q /\ m = n /\ Held(p, rd, m)' = NoNonce
  BY <1>2, <1>3, <1>4 DEF Held
<1>6. RoundOf(q, "commit") \in R /\ (~IsSignOn(q) => RoundOf(q, "refresh") \in R)
  BY DEF R
<1> QED
  BY <1>1, <1>2, <1>4, <1>5, <1>6 DEF Held

\* The clock and the source of pairs only go on, and so do the wallet and the faults.
LEMMA NextGrows ==
  ASSUME ProxyInv, ProxyInv', Next
  PROVE  Grows
<1>1. now \in Nat /\ now' \in Nat /\ \A n \in Node : nonceCount[n] \in Nat /\ nonceCount'[n] \in Nat
  BY DEF ProxyInv, NodeTypeOK
<1>2. now <= now' /\ \A n \in Node : nonceCount[n] <= nonceCount'[n]
  <2>1. CASE NodeStep
    <3>1. CASE \E n \in Node, r \in RoundId : GenerateCommitment(n, r)
      BY <1>1, <3>1 DEF GenerateCommitment, ProxyInv, NodeTypeOK
    <3>2. CASE Tick
      BY <1>1, <3>2 DEF Tick, nodeVars
    <3>3. CASE UNCHANGED <<nonceCount, now>>
      BY <1>1, <3>3
    <3> QED
      BY <2>1, <3>1, <3>2, <3>3
      DEF NodeStep, HandleSignOn, HandleSign, AnswerSignOn, SpoilSignOn, RefuseSignOn,
          AnswerSign, SpoilSign, RefuseSign, Restart, nodeVars
  <2>2. CASE UNCHANGED nodeState
    BY <1>1, <2>2 DEF nodeState, nodeVars
  <2> QED
    BY <2>1, <2>2, NextIsStep
<1>3. wallet \subseteq wallet' /\ faulty \subseteq faulty'
  BY DEF Next, Served, CommitSettles, SignSettles, StartSignOn, StartToken, EndCommit,
         EndSign, AssembleAssertion, CommitAnswered, CommitFails, SignAnswered,
         SignRefused, SignFails, StrayArrives, NodeRestarts, ClockTicks, proxyVars
<1> QED
  BY <1>1, <1>2, <1>3 DEF Grows

\* A handler that moves leaves the other requests alone.
LEMMA OthersAside ==
  ASSUME ProxyInv, NEW q \in Request, NEW p \in Request, p # q,
         Served(q) \/ CommitSettles(q) \/ SignSettles(q)
  PROVE  Aside(p)
<1>1. /\ phase'[p] = phase[p] /\ ask'[p] = ask[p] /\ calls'[p] = calls[p]
      /\ access'[p] = access[p] /\ refresh'[p] = refresh[p]
      /\ issuedAt'[p] = issuedAt[p] /\ replies'[p] = replies[p]
  <2> USE DEF ProxyInv, PhasesOK, AsksOK, CallsOK, GatheredOK
  <2>1. CASE Served(q)
    BY <2>1 DEF Served, StartSignOn, StartToken, EndCommit, EndSign, AssembleAssertion,
                Fail, Leave
  <2>2. CASE CommitSettles(q)
    BY <2>2 DEF CommitSettles, CommitAnswered, CommitFails, Settle
  <2>3. CASE SignSettles(q)
    BY <2>3 DEF SignSettles, SignAnswered, SignRefused, SignFails, Settle, Fail, Leave
  <2> QED
    BY <2>1, <2>2, <2>3
<1>2. \A m \in stray' : m.request = p => m \in stray
  BY DEF Served, CommitSettles, SignSettles, StartSignOn, StartToken, EndCommit, EndSign,
         AssembleAssertion, CommitAnswered, CommitFails, SignAnswered, SignRefused,
         SignFails, Stray
<1>3. \A n \in Node, ph \in Rounds : Held(p, ph, n)' = Held(p, ph, n)
  <2>1. ASSUME NEW i \in DOMAIN calls[q], CommitAnswered(q, i)
        PROVE  \A n \in Node, ph \in Rounds : Held(p, ph, n)' = Held(p, ph, n)
    <3>1. calls[q][i].node \in Node /\ phase[q] \in Rounds
      BY <2>1, SentToNode DEF CommitAnswered, Rounds
    <3> QED
      BY <2>1, <3>1, CommitEffect DEF CommitAnswered, ProxyInv
  <2>2. ASSUME NEW i \in DOMAIN calls[q], SignAnswered(q, i) \/ SignRefused(q, i)
        PROVE  \A n \in Node, ph \in Rounds : Held(p, ph, n)' = Held(p, ph, n)
    <3>1. calls[q][i].node \in Node
      BY <2>2, SentToNode DEF SignAnswered, SignRefused
    <3> QED
      BY <2>2, <3>1, SigningEffect DEF SignAnswered, SignRefused, ProxyInv
  <2>3. CASE UNCHANGED nodeVars
    BY <2>3 DEF nodeVars, Held
  <2> QED
    BY <2>1, <2>2, <2>3
    DEF Served, CommitSettles, SignSettles, StartSignOn, StartToken, EndCommit, EndSign,
        AssembleAssertion, CommitFails, SignFails
<1> QED
  BY <1>1, <1>2, <1>3 DEF Aside

\* So does a stray call, a restart, or the clock.
LEMMA SurroundingsAside ==
  ASSUME ProxyInv, NEW p \in Request, StraysFit(p),
         \/ \E m \in stray : StrayArrives(m)
         \/ \E n \in Node : NodeRestarts(n)
         \/ ClockTicks
  PROVE  Aside(p)
<1>1. /\ UNCHANGED <<phase, ask, calls, access, refresh, issuedAt, replies>>
      /\ stray' \subseteq stray
  BY DEF StrayArrives, NodeRestarts, ClockTicks, proxyVars
<1>2. ASSUME NEW m \in stray, StrayArrives(m)
      PROVE  \A n \in Node, ph \in Rounds :
               \/ Held(p, ph, n)' = Held(p, ph, n)
               \/ Held(p, ph, n)' = NoNonce /\ phase[p] = "failed"
               \/ Astray(p, ph, n)
  <2>1. m.request \in Request /\ m.node \in Node
    BY DEF ProxyInv, StraysOK
  <2>2. CASE StrayCommit(m)
    <3>1. m.phase \in Rounds
      BY <2>2 DEF StrayCommit, Rounds
    <3> QED
      BY <1>2, <2>1, <2>2, <3>1, CommitEffect DEF StrayCommit, ProxyInv, Astray
  <2>3. CASE StraySign(m)
    BY <2>1, <2>3, SigningEffect DEF StraySign, StraysFit, ProxyInv
  <2> QED
    BY <1>2, <2>2, <2>3 DEF StrayArrives
<1>3. ASSUME NEW n \in Node, NodeRestarts(n)
      PROVE  /\ faulty' # {}
             /\ \A m \in Node, ph \in Rounds :
                  Held(p, ph, m)' = Held(p, ph, m) \/ Held(p, ph, m)' = NoNonce
  <2>1. \A ph \in Rounds : RoundOf(p, ph) \in RoundId
    BY RoundTyped DEF Rounds
  <2> QED
    BY <1>3, <2>1 DEF NodeRestarts, Restart, Held, ProxyInv, NodeTypeOK
<1>4. CASE ClockTicks
  BY <1>1, <1>4 DEF ClockTicks, Tick, nodeVars, Held, Aside
<1> QED
  BY <1>1, <1>2, <1>3, <1>4 DEF Aside

-------------------------------------------------------------------------------
(***************************************************************************)
(* A request is taken in, or fails.                                        *)
(***************************************************************************)

\* A request that fails carries nothing on; what it leaves astray are signing calls.
LEMMA FailKeepsFit ==
  ASSUME ProxyInv, NEW q \in Request, RequestFits(q), Grows,
         phase[q] # "idle", Fail(q),
         UNCHANGED <<ask, access, refresh, issuedAt, replies>>,
         \A m \in stray' : m \in stray \/ m.phase = "sign",
         IsSignOn(q) => \A n \in Node : Held(q, "refresh", n)' = Held(q, "refresh", n),
         faulty' = {} => ~WellFormed(q)'
  PROVE  RequestFits(q)'
<1> USE DEF RequestFits
<1>1. phase'[q] = "failed"
  BY DEF Fail, Leave, ProxyInv, PhasesOK
<1>2. IsSignOn(q)' = IsSignOn(q)
  BY DEF IsSignOn
<1>3. AskFits(q)'
  <2>1. issuedAt[q] \in Int
    BY DEF ProxyInv, GatheredOK
  <2>2. ~IsSignOn(q) => ask[q].proof.iat \in Int
    BY DEF ProxyInv, AsksOK, IsSignOn, Body, TokenAsked, Proof
  <2> QED
    BY <1>1, <1>2, <2>1, <2>2 DEF AskFits, Grows
<1>4. StraysFit(q)'
  BY <1>1 DEF StraysFit, Grows
<1>5. RefreshUnopened(q)'
  BY <1>1, <1>2 DEF RefreshUnopened, Astray
<1>6. Collecting(q)' /\ Gatherings(q)' /\ Signing(q)' /\ Finished(q)' /\ FailedRightly(q)'
  BY <1>1 DEF Collecting, Gatherings, Signing, Finished, FailedRightly, Rounds
<1>7. RepliesFit(q)'
  BY <1>1, <1>2 DEF RepliesFit, SignOnCall, SignCall
<1> QED
  BY <1>3, <1>4, <1>5, <1>6, <1>7

\* A request that was just taken in, and calls the nodes of a sequence or fails.
LEMMA TakenFits ==
  ASSUME ProxyInv, NEW q \in Request, RequestFits(q), Grows, phase[q] = "idle",
         UNCHANGED <<nodeVars, access, refresh, issuedAt, replies, stray, wallet, faulty>>,
         ~IsSignOn(q)' =>
           /\ ask'[q].credential.sigOk => ask'[q].credential \in wallet
           /\ ask'[q].proof.iat <= now',
         \/ phase'[q] = "failed" /\ ~WellFormed(q)'
         \/ /\ phase'[q] = "commit"
            /\ \E nodes :
                 /\ calls'[q] = CallAll(nodes)
                 /\ IsFiniteSet(DOMAIN nodes) /\ Cardinality(DOMAIN nodes) >= Threshold
                 /\ (\A i \in DOMAIN nodes : nodes[i] \in Node) \/ Strangers(q)'
                 /\ (\A i, j \in DOMAIN nodes : nodes[i] = nodes[j] => i = j) \/ Repeats(q)'
  PROVE  RequestFits(q)'
<1> USE DEF RequestFits
<1>1. \A m \in stray' : m.request # q
  BY DEF ProxyInv, StraysOK
<1>2. \A n, ph : ~Astray(q, ph, n)'
  BY <1>1 DEF Astray
<1>3. RefreshUnopened(q)'
  <2>1. \A n \in Node : Held(q, "refresh", n)' = Held(q, "refresh", n)
    BY DEF nodeVars, Held
  <2> QED
    BY <1>2, <2>1 DEF RefreshUnopened
<1>4. AskFits(q)'
  <2>1. issuedAt[q] \in Int
    BY DEF ProxyInv, GatheredOK
  <2> QED
    BY <2>1 DEF AskFits, Grows
<1>5. StraysFit(q)'
  BY <1>1 DEF StraysFit
<1>6. RepliesFit(q)'
  BY DEF RepliesFit
<1>7. Gatherings(q)' /\ Signing(q)' /\ Finished(q)' /\ FailedRightly(q)'
  BY DEF Gatherings, Signing, Finished, FailedRightly
<1>8. Collecting(q)'
  <2>1. CASE phase'[q] = "failed"
    BY <2>1 DEF Collecting, Rounds
  <2>2. CASE phase'[q] = "commit"
    <3>1. PICK nodes :
            /\ calls'[q] = CallAll(nodes)
            /\ IsFiniteSet(DOMAIN nodes) /\ Cardinality(DOMAIN nodes) >= Threshold
            /\ (\A i \in DOMAIN nodes : nodes[i] \in Node) \/ Strangers(q)'
            /\ (\A i, j \in DOMAIN nodes : nodes[i] = nodes[j] => i = j) \/ Repeats(q)'
      BY <2>2
    <3>2. /\ DOMAIN calls'[q] = DOMAIN nodes
          /\ \A i \in DOMAIN nodes :
               /\ calls'[q][i].node = nodes[i]
               /\ calls'[q][i].state = IF nodes[i] \in Node THEN "sent" ELSE "failed"
      BY <3>1 DEF CallAll, CallTo
    <3>3. Ok(q)' = {}
      BY <3>2 DEF Ok
    <3> QED
      BY <1>2, <2>2, <3>1, <3>2, <3>3 DEF Collecting
  <2> QED
    BY <2>1, <2>2
<1> QED
  BY <1>3, <1>4, <1>5, <1>6, <1>7, <1>8

\* POST /api/pasta/sign-on.
LEMMA StartSignOnFits ==
  ASSUME ProxyInv, NEW q \in Request, RequestFits(q), Grows,
         NEW body \in SignOnBody, StartSignOn(q, body)
  PROVE  RequestFits(q)'
<1> DEFINE requested == IF body.participants = Unspecified THEN SetToSeq(Node)
                        ELSE body.participants
<1>1. body \in Body
  BY BodyAssumption
<1>2. phase[q] = "idle" /\ now' = now
      /\ UNCHANGED <<nodeVars, access, refresh, issuedAt, replies, stray, wallet, faulty>>
  BY DEF StartSignOn
<1>3. ask'[q] = body /\ IsSignOn(q)'
  BY <1>1 DEF StartSignOn, ProxyInv, AsksOK, IsSignOn, Body
<1>4. /\ IsFiniteSet(DOMAIN requested)
      /\ Cardinality(DOMAIN requested) = Len(requested) /\ Len(requested) \in Nat
      /\ (\A i \in DOMAIN requested : requested[i] \in Node) \/ Strangers(q)'
      /\ (\A i, j \in DOMAIN requested : requested[i] = requested[j] => i = j) \/ Repeats(q)'
      /\ body.participants = Unspecified => Len(requested) >= Threshold
  <2>1. CASE body.participants = Unspecified
    <3>1. Cardinality(Node) \in Nat /\ DOMAIN requested = 1 .. Cardinality(Node)
          /\ requested \in Seq(Node)
          /\ \A i, j \in DOMAIN requested : requested[i] = requested[j] => i = j
      <4>1. requested = SetToSeq(Node)
        BY <2>1
      <4> HIDE DEF requested
      <4>2. /\ Cardinality(Node) \in Nat /\ DOMAIN requested = 1 .. Cardinality(Node)
            /\ \A i \in DOMAIN requested : requested[i] \in Node
            /\ \A i, j \in DOMAIN requested : requested[i] = requested[j] => i = j
        BY <4>1, SetToSeqEnumerates, NodeAssumption
      <4>3. requested \in [1 .. Cardinality(Node) -> Node]
        BY <4>1, SetToSeqEnumerates, NodeAssumption
      <4> QED
        BY <4>2, <4>3
    <3> HIDE DEF requested
    <3>2. Len(requested) = Cardinality(Node)
      BY <3>1
    <3> QED
      BY <2>1, <3>1, <3>2, IntervalCounts, NodeAssumption
  <2>2. CASE body.participants # Unspecified
    <3>1. requested = body.participants /\ requested \in Seq(NamedNode)
      BY <1>1, <2>2 DEF Body
    <3> HIDE DEF requested
    <3>2. DOMAIN requested = 1 .. Len(requested) /\ Len(requested) \in Nat
      BY <3>1
    <3>3. IsFiniteSet(DOMAIN requested) /\ Cardinality(DOMAIN requested) = Len(requested)
      BY <3>2, IntervalCounts
    <3>4. (\A i \in DOMAIN requested : requested[i] \in Node) \/ Strangers(q)'
      BY <1>3, <2>2, <3>1 DEF Strangers, Range
    <3>5. (\A i, j \in DOMAIN requested : requested[i] = requested[j] => i = j)
          \/ Repeats(q)'
      BY <1>3, <2>2, <3>1 DEF Repeats, IsInjective
    <3> QED
      BY <2>2, <3>2, <3>3, <3>4, <3>5
  <2> QED
    BY <2>1, <2>2
<1>5. CASE Len(requested) < Threshold
  <2>1. phase'[q] = "failed"
    BY <1>5 DEF StartSignOn, Fail, Leave, ProxyInv, PhasesOK
  <2>2. body.participants # Unspecified /\ ~(Len(body.participants) >= Threshold)
    BY <1>4, <1>5, ThresholdAssumption
  <2>3. ~WellFormed(q)'
    BY <1>3, <2>2 DEF WellFormed
  <2> QED
    BY <1>2, <1>3, <2>1, <2>3, TakenFits
<1>6. CASE ~(Len(requested) < Threshold)
  <2>1. phase'[q] = "commit" /\ calls'[q] = CallAll(requested)
    BY <1>6 DEF StartSignOn, ProxyInv, PhasesOK, CallsOK
  <2>2. Cardinality(DOMAIN requested) >= Threshold
    BY <1>4, <1>6, ThresholdAssumption
  <2> HIDE DEF requested
  <2> QED
    BY <1>2, <1>3, <1>4, <2>1, <2>2, TakenFits
<1> QED
  BY <1>5, <1>6

\* POST /token.
LEMMA StartTokenFits ==
  ASSUME ProxyInv, NEW q \in Request, RequestFits(q), Grows,
         NEW grant \in Grant, NEW c \in Presented, NEW jkt \in Proofs,
         StartToken(q, grant, c, ProofNow(jkt))
  PROVE  RequestFits(q)'
<1>1. phase[q] = "idle" /\ now' = now
      /\ UNCHANGED <<nodeVars, access, refresh, issuedAt, replies, stray, wallet, faulty>>
  BY DEF StartToken
<1>2. /\ ask'[q] = [kind |-> "token", grant |-> grant, proof |-> ProofNow(jkt),
                    credential |-> c]
      /\ ~IsSignOn(q)'
  BY DEF StartToken, ProxyInv, AsksOK, IsSignOn
<1>3. /\ ask'[q].credential.sigOk => ask'[q].credential \in wallet
      /\ ask'[q].proof.iat <= now'
  <2>1. c.sigOk => c \in wallet
    BY DEF Presented, Altered
  <2>2. now <= now
    BY DEF Grows
  <2> QED
    BY <1>1, <1>2, <2>1, <2>2 DEF ProofNow
<1>4. CASE VerifyDPoPProof(ProofNow(jkt), c.msg.holder.jkt, now)
  <2> DEFINE nodes == SetToSeq(Node)
  <2>1. phase'[q] = "commit" /\ calls'[q] = CallAll(nodes)
    BY <1>4, NodeAssumption DEF StartToken, ProxyInv, PhasesOK, CallsOK
  <2>2. /\ DOMAIN nodes = 1 .. Cardinality(Node) /\ Cardinality(Node) \in Nat
        /\ \A i \in DOMAIN nodes : nodes[i] \in Node
        /\ \A i, j \in DOMAIN nodes : nodes[i] = nodes[j] => i = j
    BY SetToSeqEnumerates, NodeAssumption
  <2>3. IsFiniteSet(DOMAIN nodes) /\ Cardinality(DOMAIN nodes) >= Threshold
    BY <2>2, IntervalCounts, NodeAssumption
  <2> HIDE DEF nodes
  <2> QED
    BY <1>1, <1>2, <1>3, <2>1, <2>2, <2>3, TakenFits
<1>5. CASE ~VerifyDPoPProof(ProofNow(jkt), c.msg.holder.jkt, now)
  <2>1. phase'[q] = "failed"
    BY <1>5 DEF StartToken, Fail, Leave, ProxyInv, PhasesOK
  <2>2. ~WellFormed(q)'
    BY <1>1, <1>2, <1>5 DEF WellFormed
  <2> QED
    BY <1>1, <1>2, <1>3, <2>1, <2>2, TakenFits
<1> QED
  BY <1>4, <1>5

-------------------------------------------------------------------------------
(***************************************************************************)
(* A commit round.                                                         *)
(***************************************************************************)

\* What an awaited call of q that settles changes of its calls.
LEMMA SettleEffect ==
  ASSUME CallsOK, NEW q \in Request, NEW i \in Sent(q), NEW state, NEW nonce,
         Settle(q, i, state, nonce)
  PROVE  /\ DOMAIN calls'[q] = DOMAIN calls[q]
         /\ \A j \in DOMAIN calls[q] :
              /\ calls'[q][j].node = calls[q][j].node
              /\ j # i => calls'[q][j] = calls[q][j]
         /\ calls'[q][i].state = state /\ calls'[q][i].nonce = nonce
<1>1. calls'[q] = [calls[q] EXCEPT ![i] =
           [node |-> calls[q][i].node, state |-> state, nonce |-> nonce]]
  BY DEF CallsOK, Settle
<1>2. i \in DOMAIN calls[q]
  BY DEF Sent
<1>3. calls[q] = [j \in DOMAIN calls[q] |-> calls[q][j]]
  BY DEF CallsOK
<1>4. /\ DOMAIN calls'[q] = DOMAIN calls[q]
      /\ \A j \in DOMAIN calls[q] : j # i => calls'[q][j] = calls[q][j]
      /\ calls'[q][i] = [node |-> calls[q][i].node, state |-> state, nonce |-> nonce]
  BY <1>1, <1>2, <1>3
<1> QED
  BY <1>4

\* All but the calls of q is as it was, and calls go astray only to nodes that failed.
LEMMA CommitCallFits ==
  ASSUME ProxyInv, NEW q \in Request, RequestFits(q), Grows, phase[q] \in Rounds,
         UNCHANGED <<phase, ask, access, refresh, issuedAt, replies>>,
         \A m \in stray' : m \in stray \/ (m.phase = phase[q] /\ faulty' # {}),
         \A n \in Node, ph \in Rounds \ {phase[q]} : Held(q, ph, n)' = Held(q, ph, n),
         Collecting(q)'
  PROVE  RequestFits(q)'
<1> USE DEF RequestFits
<1>1. IsSignOn(q)' = IsSignOn(q) /\ phase[q] \in {"commit", "refresh"}
  BY DEF IsSignOn, Rounds
<1>2. AskFits(q)'
  <2>1. issuedAt[q] \in Int
    BY DEF ProxyInv, GatheredOK
  <2>2. ~IsSignOn(q) => ask[q].proof.iat \in Int
    BY <1>1 DEF ProxyInv, AsksOK, IsSignOn, Body, TokenAsked, Proof
  <2> QED
    BY <1>1, <2>1, <2>2 DEF AskFits, Grows
<1>3. StraysFit(q)'
  BY <1>1 DEF StraysFit, Grows
<1>4. RefreshUnopened(q)'
  <2> SUFFICES ASSUME phase[q] = "commit" PROVE RefreshUnopened(q)'
    BY <1>1 DEF RefreshUnopened, AskFits
  <2> QED
    BY <1>1 DEF RefreshUnopened, Rounds, Astray
<1>5. Gatherings(q)'
  <2> SUFFICES ASSUME phase[q] = "refresh" PROVE Gathered(q, "commit", access[q])'
    BY <1>1 DEF Gatherings
  <2>1. \A c \in access[q] : c.node \in Node
    BY DEF ProxyInv, GatheredOK, Commitment
  <2>2. Gathered(q, "commit", access[q])
    BY DEF Gatherings
  <2>3. \A n : Astray(q, "commit", n)' => Astray(q, "commit", n)
    BY DEF Astray
  <2>4. \A n \in Node : Held(q, "commit", n)' = Held(q, "commit", n)
    BY DEF Rounds
  <2>5. Repeats(q)' = Repeats(q)
    BY DEF Repeats, IsSignOn
  <2> QED
    BY <2>1, <2>2, <2>3, <2>4, <2>5 DEF Gathered, Grows
<1>6. Signing(q)' /\ Finished(q)' /\ FailedRightly(q)'
  BY <1>1 DEF Signing, Finished, FailedRightly
<1>7. RepliesFit(q)'
  BY <1>1 DEF RepliesFit
<1> QED
  BY <1>2, <1>3, <1>4, <1>5, <1>6, <1>7

\* A node answers /commit: it holds the pair it answered with.
LEMMA CommitAnsweredFits ==
  ASSUME ProxyInv, NEW q \in Request, RequestFits(q), Grows,
         NEW i \in DOMAIN calls[q], CommitAnswered(q, i)
  PROVE  RequestFits(q)'
<1>0. PICK n \in Node, ph \in Rounds : n = calls[q][i].node /\ ph = phase[q]
  BY SentToNode DEF CommitAnswered, Rounds
<1>1. /\ i \in Sent(q) /\ GenerateCommitment(n, RoundOf(q, ph))
      /\ UNCHANGED <<phase, ask, access, refresh, issuedAt, replies, stray, wallet, faulty>>
      /\ phase'[q] = ph
  BY <1>0 DEF CommitAnswered
<1>2. /\ \A rd \in Rounds, m \in Node :
           Held(q, rd, m)' = IF rd = ph /\ m = n THEN nonceCount[n] + 1 ELSE Held(q, rd, m)
      /\ \A m \in Node : nonceCount'[m] = IF m = n THEN nonceCount[n] + 1 ELSE nonceCount[m]
      /\ nonceCount[n] \in Nat
  BY <1>1, CommitEffect DEF ProxyInv, NodeTypeOK
<1>3. /\ DOMAIN calls'[q] = DOMAIN calls[q]
      /\ \A j \in DOMAIN calls[q] :
           /\ calls'[q][j].node = calls[q][j].node
           /\ j # i => calls'[q][j] = calls[q][j]
      /\ calls'[q][i].state = "ok" /\ calls'[q][i].nonce = nonceCount[n] + 1
  BY <1>0, <1>1, <1>2, SettleEffect DEF CommitAnswered, ProxyInv
<1>4. Ok(q)' = Ok(q) \cup {i} /\ i \notin Ok(q)
  BY <1>1, <1>3 DEF Ok, Sent
<1>5. \A m : FailedAt(q, m)' <=> FailedAt(q, m)
  BY <1>1, <1>3 DEF FailedAt, Sent
<1>6. Collecting(q)
  BY DEF RequestFits
<1>7. \A j \in Ok(q) : calls[q][j].node \in Node
  BY DEF ProxyInv, CallsOK, CallOK, Ok
<1>8. \A j \in Ok(q)' :
        /\ calls'[q][j].nonce \in 1 .. nonceCount'[calls'[q][j].node]
        /\ \/ FailedAt(q, calls[q][j].node)'
           \/ Held(q, ph, calls[q][j].node)' = NoNonce /\ faulty' # {}
           \/ \E k \in Ok(q)' : /\ calls'[q][k].node = calls'[q][j].node
                                /\ calls'[q][k].nonce = Held(q, ph, calls[q][j].node)'
  <2>1. calls'[q][i].node = n
    BY <1>0, <1>1, <1>3 DEF Sent
  <2>2. ASSUME NEW j \in Ok(q)', calls'[q][j].node = n
        PROVE  /\ calls'[q][j].nonce \in 1 .. nonceCount'[n]
               /\ calls'[q][i].nonce = Held(q, ph, n)'
    <3>1. calls'[q][i].nonce = Held(q, ph, n)'
      BY <1>1, <1>2, <1>3
    <3>2. CASE j = i
      BY <1>1, <1>2, <1>3, <3>1, <3>2
    <3>3. CASE j # i
      <4>1. calls'[q][j].nonce \in 1 .. nonceCount[n]
        BY <1>0, <1>1, <1>3, <1>4, <1>6, <2>2, <3>3 DEF Collecting, Ok
      <4> QED
        BY <1>1, <1>2, <3>1, <4>1
    <3> QED
      BY <3>2, <3>3
  <2>3. ASSUME NEW j \in Ok(q), calls'[q][j].node # n
        PROVE  /\ calls'[q][j].nonce \in 1 .. nonceCount'[calls'[q][j].node]
               /\ \/ FailedAt(q, calls[q][j].node)'
                  \/ Held(q, ph, calls[q][j].node)' = NoNonce /\ faulty' # {}
                  \/ \E k \in Ok(q)' : /\ calls'[q][k].node = calls'[q][j].node
                                       /\ calls'[q][k].nonce = Held(q, ph, calls[q][j].node)'
    <3>1. calls'[q][j] = calls[q][j] /\ calls[q][j].node \in Node /\ j \in DOMAIN calls[q]
      BY <1>3, <1>7, <2>1, <2>3 DEF Ok
    <3>2. /\ nonceCount'[calls[q][j].node] = nonceCount[calls[q][j].node]
          /\ Held(q, ph, calls[q][j].node)' = Held(q, ph, calls[q][j].node)
      BY <1>1, <1>2, <2>3, <3>1
    <3>3. ASSUME NEW k \in Ok(q), calls[q][k].node = calls[q][j].node
          PROVE  k \in Ok(q)' /\ calls'[q][k] = calls[q][k]
      BY <1>3, <1>4, <2>1, <2>3, <3>1, <3>3 DEF Ok
    <3> QED
      BY <1>0, <1>1, <1>5, <1>6, <3>1, <3>2, <3>3 DEF Collecting
  <2> QED
    BY <1>1, <1>4, <2>1, <2>2, <2>3
<1>9. \A j, k \in DOMAIN calls[q] : j # k /\ calls[q][j].node = calls[q][k].node =>
        /\ Repeats(q)
        /\ j \in Ok(q)' /\ k \in Ok(q)' => calls'[q][j].nonce # calls'[q][k].nonce
  <2>1. ASSUME NEW j \in Ok(q), calls[q][j].node = n
        PROVE  calls'[q][j].nonce # calls'[q][i].nonce
    <3>1. j \in DOMAIN calls[q] /\ j # i
      BY <1>4 DEF Ok
    <3>2. calls[q][j].nonce \in 1 .. nonceCount[n]
      BY <1>0, <1>1, <1>6, <2>1 DEF Collecting
    <3> QED
      BY <1>2, <1>3, <3>1, <3>2
  <2> SUFFICES ASSUME NEW j \in DOMAIN calls[q], NEW k \in DOMAIN calls[q], j # k,
                      calls[q][j].node = calls[q][k].node
               PROVE  /\ Repeats(q)
                      /\ j \in Ok(q)' /\ k \in Ok(q)' =>
                           calls'[q][j].nonce # calls'[q][k].nonce
    OBVIOUS
  <2>3. Repeats(q)
    BY <1>0, <1>1, <1>6 DEF Collecting
  <2>4. CASE j # i /\ k # i
    BY <1>0, <1>1, <1>3, <1>4, <1>6, <2>3, <2>4 DEF Collecting
  <2>5. CASE j = i \/ k = i
    BY <1>0, <1>4, <2>1, <2>3, <2>5
  <2> QED
    BY <2>4, <2>5
<1>10. Collecting(q)'
  <2>1. \A j \in DOMAIN calls'[q] :
          /\ calls'[q][j].state \in {"sent", "ok", "failed"}
          /\ calls'[q][j].state = "failed" => faulty' # {} \/ Strangers(q)'
    BY <1>0, <1>1, <1>3, <1>6 DEF Collecting, Strangers, IsSignOn
  <2>2. \A m \in Node : Astray(q, ph, m)' => FailedAt(q, m)'
    BY <1>0, <1>1, <1>5, <1>6 DEF Collecting, Astray
  <2>3. ph = "refresh" => CallsSigners(q)'
    BY <1>0, <1>1, <1>3, <1>6 DEF Collecting, CallsSigners
  <2>4. Repeats(q)' = Repeats(q)
    BY <1>1 DEF Repeats, IsSignOn
  <2>5. IsFiniteSet(DOMAIN calls[q]) /\ Cardinality(DOMAIN calls[q]) >= Threshold
    BY <1>0, <1>1, <1>6 DEF Collecting
  <2> QED
    BY <1>0, <1>1, <1>3, <1>8, <1>9, <2>1, <2>2, <2>3, <2>4, <2>5 DEF Collecting
<1>11. \A m \in Node, rd \in Rounds \ {phase[q]} : Held(q, rd, m)' = Held(q, rd, m)
  BY <1>0, <1>2
<1>12. /\ phase[q] \in Rounds
       /\ UNCHANGED <<phase, ask, access, refresh, issuedAt, replies>>
       /\ \A m \in stray' : m \in stray \/ (m.phase = phase[q] /\ faulty' # {})
  BY <1>0, <1>1
<1> QED
  BY <1>10, <1>11, <1>12, CommitCallFits

\* A call of the round fails: whatever becomes of it, the node counts as failed.
LEMMA CommitFailsFits ==
  ASSUME ProxyInv, NEW q \in Request, RequestFits(q), Grows,
         NEW i \in DOMAIN calls[q], CommitFails(q, i)
  PROVE  RequestFits(q)'
<1>1. PICK n \in Node, ph \in Rounds : n = calls[q][i].node /\ ph = phase[q]
  BY SentToNode DEF CommitFails, Rounds
<1>2. /\ i \in Sent(q) /\ phase'[q] = ph
      /\ UNCHANGED <<phase, ask, access, refresh, issuedAt, replies>>
      /\ UNCHANGED nodeVars
      /\ faulty' # {}
      /\ \A m \in stray' : m \in stray \/ m = Stray(q, i)
  BY <1>1 DEF CommitFails
<1>3. \A rd, m : Held(q, rd, m)' = Held(q, rd, m) /\ nonceCount' = nonceCount
  BY <1>2 DEF nodeVars, Held
<1>4. /\ DOMAIN calls'[q] = DOMAIN calls[q]
      /\ \A j \in DOMAIN calls[q] :
           /\ calls'[q][j].node = calls[q][j].node
           /\ j # i => calls'[q][j] = calls[q][j]
      /\ calls'[q][i].state = "failed"
  BY <1>2, SettleEffect DEF CommitFails, ProxyInv
<1>5. /\ Ok(q)' = Ok(q)
      /\ \A j \in Ok(q) : calls'[q][j] = calls[q][j] /\ j \in DOMAIN calls[q]
  BY <1>2, <1>4 DEF Ok, Sent
<1>6. \A m : FailedAt(q, m)' <=> FailedAt(q, m) \/ m = n
  BY <1>1, <1>2, <1>4 DEF FailedAt, Sent
<1>7. Collecting(q)
  BY DEF RequestFits
<1>8. \A j \in Ok(q) :
        /\ calls'[q][j].nonce \in 1 .. nonceCount'[calls'[q][j].node]
        /\ \/ FailedAt(q, calls[q][j].node)'
           \/ Held(q, ph, calls[q][j].node)' = NoNonce /\ faulty' # {}
           \/ \E k \in Ok(q) : /\ calls'[q][k].node = calls'[q][j].node
                               /\ calls'[q][k].nonce = Held(q, ph, calls[q][j].node)'
  <2> SUFFICES ASSUME NEW j \in Ok(q)
               PROVE  /\ calls'[q][j].nonce \in 1 .. nonceCount'[calls'[q][j].node]
                      /\ \/ FailedAt(q, calls[q][j].node)'
                         \/ Held(q, ph, calls[q][j].node)' = NoNonce /\ faulty' # {}
                         \/ \E k \in Ok(q) :
                              /\ calls'[q][k].node = calls'[q][j].node
                              /\ calls'[q][k].nonce = Held(q, ph, calls[q][j].node)'
    OBVIOUS
  <2>1. calls'[q][j] = calls[q][j]
    BY <1>5
  <2>2. Held(q, ph, calls[q][j].node)' = Held(q, ph, calls[q][j].node)
    BY <1>3, <2>1
  <2> QED
    BY <1>1, <1>2, <1>3, <1>5, <1>6, <1>7, <2>1, <2>2 DEF Collecting
<1>9. \A m \in Node : Astray(q, ph, m)' => FailedAt(q, m)'
  <2>1. Stray(q, i).node = n
    BY <1>1 DEF Stray
  <2>2. \A m \in Node : Astray(q, ph, m)' => Astray(q, ph, m) \/ m = n
    BY <1>2, <2>1 DEF Astray
  <2> QED
    BY <1>1, <1>6, <1>7, <2>2 DEF Collecting
<1>10. Collecting(q)'
  <2>1. \A j, k \in DOMAIN calls'[q] : j # k /\ calls'[q][j].node = calls'[q][k].node =>
          /\ Repeats(q)'
          /\ j \in Ok(q)' /\ k \in Ok(q)' => calls'[q][j].nonce # calls'[q][k].nonce
    BY <1>1, <1>2, <1>4, <1>5, <1>7 DEF Collecting, Repeats, IsSignOn
  <2>2. ph = "refresh" => CallsSigners(q)'
    BY <1>1, <1>2, <1>4, <1>7 DEF Collecting, CallsSigners
  <2>3. IsFiniteSet(DOMAIN calls[q]) /\ Cardinality(DOMAIN calls[q]) >= Threshold
    BY <1>1, <1>7 DEF Collecting
  <2>4. \A j \in DOMAIN calls'[q] : calls'[q][j].state \in {"sent", "ok", "failed"}
    BY <1>1, <1>4, <1>7 DEF Collecting
  <2> QED
    BY <1>2, <1>4, <1>5, <1>8, <1>9, <2>1, <2>2, <2>3, <2>4 DEF Collecting
<1>11. \A m \in stray' : m \in stray \/ (m.phase = phase[q] /\ faulty' # {})
  BY <1>2 DEF Stray
<1>12. \A m \in Node, rd \in Rounds \ {phase[q]} : Held(q, rd, m)' = Held(q, rd, m)
  BY <1>3
<1>13. phase[q] \in Rounds /\ UNCHANGED <<phase, ask, access, refresh, issuedAt, replies>>
  BY <1>1, <1>2
<1> QED
  BY <1>10, <1>11, <1>12, <1>13, CommitCallFits

\* The commitments a quorum answered with are gathered: nobody else answered for them.
LEMMA QuorumGathered ==
  ASSUME ProxyInv, NEW q \in Request, RequestFits(q), phase[q] \in Rounds,
         Settled(q), QuorumCommitted(q)
  PROVE  Gathered(q, phase[q], Collected(q))
<1>1. Collecting(q)
  BY DEF RequestFits
<1>2. \A i, j \in Ok(q) : calls[q][i].node = calls[q][j].node
                          /\ calls[q][i].nonce = calls[q][j].nonce => i = j
  BY <1>1 DEF Collecting, Ok
<1>3. IsFiniteSet(Collected(q)) /\ Cardinality(Collected(q)) >= Threshold
  BY <1>1, <1>2, CollectedCounts DEF Collecting, QuorumCommitted
<1>4. \A i \in Ok(q) : ~FailedAt(q, calls[q][i].node)
  <2>1. CASE Explicit(q)
    BY <2>1 DEF QuorumCommitted, FailedAt, Ok
  <2>2. CASE ~Explicit(q)
    <3>1. ~Repeats(q)
      BY <2>2 DEF Explicit, Repeats
    <3> QED
      BY <1>1, <3>1 DEF Collecting, FailedAt, Ok
  <2> QED
    BY <2>1, <2>2
<1>5. Repeats(q) \/ Once(Collected(q))
  BY <1>1 DEF Collecting, Once, Collected, Ok
<1>6. \A i \in Ok(q) : calls[q][i].node \in Node
  BY DEF ProxyInv, CallsOK, CallOK, Ok
<1>7. ASSUME NEW c \in Collected(q)
      PROVE  /\ c.nonce # NoNonce
             /\ ~Astray(q, phase[q], c.node)
             /\ \/ \E d \in Collected(q) :
                     d.node = c.node /\ d.nonce = Held(q, phase[q], c.node)
                \/ Held(q, phase[q], c.node) = NoNonce /\ faulty # {}
  <2>1. PICK i \in Ok(q) : c = [node |-> calls[q][i].node, nonce |-> calls[q][i].nonce]
    BY DEF Collected
  <2>2. c.nonce # NoNonce /\ ~Astray(q, phase[q], c.node)
    <3>1. calls[q][i].nonce \in 1 .. nonceCount[calls[q][i].node]
      BY <1>1 DEF Collecting
    <3>2. c.nonce # NoNonce
      BY <2>1, <3>1 DEF NoNonce
    <3> QED
      BY <1>1, <1>4, <1>6, <2>1, <3>2 DEF Collecting
  <2>3. CASE Held(q, phase[q], c.node) = NoNonce /\ faulty # {}
    BY <2>2, <2>3
  <2>4. CASE ~(Held(q, phase[q], c.node) = NoNonce /\ faulty # {})
    <3>1. PICK j \in Ok(q) : /\ calls[q][j].node = calls[q][i].node
                             /\ calls[q][j].nonce = Held(q, phase[q], calls[q][i].node)
      BY <1>1, <1>4, <2>1, <2>4 DEF Collecting
    <3>2. [node |-> calls[q][j].node, nonce |-> calls[q][j].nonce] \in Collected(q)
      BY DEF Collected
    <3> QED
      BY <2>1, <2>2, <3>1, <3>2
  <2> QED
    BY <2>3, <2>4
<1> QED
  BY <1>3, <1>5, <1>7 DEF Gathered

\* A round that misses its quorum though no node failed had somebody to call who is none.
LEMMA CommitFailureHasCause ==
  ASSUME NEW q \in Request, RequestFits(q), phase[q] \in Rounds, Settled(q),
         ~QuorumCommitted(q), faulty = {}
  PROVE  ~WellFormed(q)
<1>1. Collecting(q)
  BY DEF RequestFits
<1>2. PICK i \in DOMAIN calls[q] : calls[q][i].state = "failed"
  <2> SUFFICES ASSUME \A i \in DOMAIN calls[q] : calls[q][i].state # "failed"
               PROVE  QuorumCommitted(q)
    OBVIOUS
  <2>1. Ok(q) = DOMAIN calls[q]
    BY <1>1 DEF Collecting, Settled, Sent, Ok
  <2> QED
    BY <1>1, <2>1 DEF Collecting, QuorumCommitted
<1>3. Strangers(q)
  BY <1>1, <1>2 DEF Collecting
<1> QED
  BY <1>3 DEF Strangers, WellFormed

\* The calls made to the signers of gathered commitments are all under way.
LEMMA SignersCalled ==
  ASSUME NEW q \in Request, NEW C, C \subseteq Commitment, IsFiniteSet(C),
         calls'[q] = CallAll(Signers(C))
  PROVE  /\ DOMAIN calls'[q] = DOMAIN Signers(C)
         /\ \A i \in DOMAIN calls'[q] : /\ calls'[q][i].node = Signers(C)[i]
                                        /\ calls'[q][i].state = "sent"
         /\ Ok(q)' = {}
<1>1. \A i \in DOMAIN Signers(C) : Signers(C)[i] \in Node
  BY SignersEnumerate DEF Participants, Commitment
<1>2. /\ DOMAIN calls'[q] = DOMAIN Signers(C)
      /\ \A i \in DOMAIN calls'[q] : /\ calls'[q][i].node = Signers(C)[i]
                                     /\ calls'[q][i].state = "sent"
  BY <1>1 DEF CallAll, CallTo
<1> QED
  BY <1>2 DEF Ok

\* The first commit round ends with a quorum: a sign-on goes on to sign, /token to its
\* second round.
LEMMA AccessRoundFits ==
  ASSUME ProxyInv, NEW q \in Request, RequestFits(q), Grows,
         EndCommit(q), QuorumCommitted(q), phase[q] = "commit"
  PROVE  RequestFits(q)'
<1> USE DEF RequestFits
<1>1. PICK C : C = Collected(q)
  OBVIOUS
<1>2. C \subseteq Commitment /\ Gathered(q, "commit", C)
  BY <1>1, CollectedTyped, QuorumGathered DEF ProxyInv, EndCommit, Rounds
<1>3. /\ access'[q] = C
      /\ phase'[q] = IF IsSignOn(q) THEN "sign" ELSE "refresh"
      /\ calls'[q] = CallAll(Signers(C))
      /\ UNCHANGED <<nodeVars, now, ask, refresh, issuedAt, replies, stray, wallet, faulty>>
  BY <1>1 DEF EndCommit, Fail, Leave, ProxyInv, PhasesOK, GatheredOK, CallsOK
<1>4. /\ IsSignOn(q)' = IsSignOn(q) /\ Repeats(q)' = Repeats(q)
      /\ \A rd, n : Held(q, rd, n)' = Held(q, rd, n) /\ Astray(q, rd, n)' = Astray(q, rd, n)
  BY <1>3 DEF IsSignOn, Repeats, Held, Astray, nodeVars
<1>5. /\ DOMAIN calls'[q] = DOMAIN Signers(C)
      /\ \A i \in DOMAIN calls'[q] : /\ calls'[q][i].node = Signers(C)[i]
                                     /\ calls'[q][i].state = "sent"
      /\ Ok(q)' = {}
  BY <1>2, <1>3, SignersCalled DEF Gathered
<1>6. CallsSigners(q)'
  BY <1>3, <1>5 DEF CallsSigners
<1>7. Gathered(q, "commit", C)'
  BY <1>2, <1>3, <1>4 DEF Gathered
<1>8. AskFits(q)' /\ StraysFit(q)' /\ RefreshUnopened(q)'
  BY <1>3, <1>4 DEF AskFits, StraysFit, RefreshUnopened
<1>9. Collecting(q)'
  <2> SUFFICES ASSUME ~IsSignOn(q) PROVE Collecting(q)'
    BY <1>3 DEF Collecting, Rounds
  <2>1. phase'[q] = "refresh"
    BY <1>3
  <2>2. IsFiniteSet(DOMAIN calls'[q]) /\ Cardinality(DOMAIN calls'[q]) >= Threshold
    BY <1>2, <1>5, SignersEnumerate, SetToSeqEnumerates, IntervalCounts DEF Gathered
  <2>3. \A i, j \in DOMAIN calls'[q] :
          i # j /\ calls'[q][i].node = calls'[q][j].node => Repeats(q)'
    BY <1>2, <1>4, <1>5, SignersEnumerate DEF Gathered
  <2>4. \A n \in Node : ~Astray(q, "refresh", n)'
    BY <1>4 DEF RefreshUnopened
  <2> QED
    BY <1>5, <1>6, <2>1, <2>2, <2>3, <2>4 DEF Collecting
<1>10. Gatherings(q)'
  BY <1>3, <1>4, <1>7 DEF Gatherings
<1>11. Signing(q)'
  BY <1>3, <1>5, <1>6 DEF Signing
<1>12. Finished(q)' /\ FailedRightly(q)'
  BY <1>3 DEF Finished, FailedRightly
<1>13. RepliesFit(q)'
  BY <1>3 DEF RepliesFit
<1> QED
  BY <1>8, <1>9, <1>10, <1>11, <1>12, <1>13

\* The second one ends with a quorum: its participants are those of the first.
LEMMA RefreshRoundFits ==
  ASSUME ProxyInv, NEW q \in Request, RequestFits(q), Grows,
         EndCommit(q), QuorumCommitted(q), phase[q] = "refresh"
  PROVE  RequestFits(q)'
<1> USE DEF RequestFits
<1>1. PICK C, A : C = Collected(q) /\ A = access[q]
  OBVIOUS
<1>2. /\ C \subseteq Commitment /\ Gathered(q, "refresh", C)
      /\ A \subseteq Commitment /\ Gathered(q, "commit", A)
  BY <1>1, CollectedTyped, QuorumGathered
  DEF ProxyInv, GatheredOK, EndCommit, Rounds, Gatherings
<1>3. /\ access'[q] = A /\ refresh'[q] = C /\ issuedAt'[q] = now /\ now' = now
      /\ phase'[q] = "sign"
      /\ calls'[q] = CallAll(Signers(A))
      /\ UNCHANGED <<nodeVars, ask, replies, stray, wallet, faulty>>
  BY <1>1 DEF EndCommit, Fail, Leave, ProxyInv, PhasesOK, GatheredOK, CallsOK
<1>4. /\ IsSignOn(q)' = IsSignOn(q) /\ Repeats(q)' = Repeats(q) /\ ~IsSignOn(q)
      /\ \A rd, n : Held(q, rd, n)' = Held(q, rd, n) /\ Astray(q, rd, n)' = Astray(q, rd, n)
  BY <1>3 DEF IsSignOn, Repeats, Held, Astray, nodeVars, AskFits
<1>5. /\ DOMAIN calls'[q] = DOMAIN Signers(A)
      /\ \A i \in DOMAIN calls'[q] : /\ calls'[q][i].node = Signers(A)[i]
                                     /\ calls'[q][i].state = "sent"
      /\ Ok(q)' = {}
  BY <1>2, <1>3, SignersCalled DEF Gathered
<1>6. Gathered(q, "commit", A)' /\ Gathered(q, "refresh", C)'
  BY <1>2, <1>3, <1>4 DEF Gathered
<1>7. Participants(C) = Participants(A) /\ (Once(A) => Once(C))
  <2>1. /\ Ok(q) = DOMAIN Signers(A)
        /\ \A i \in Ok(q) : calls[q][i].node = Signers(A)[i]
    BY <1>1 DEF QuorumCommitted, Explicit, Collecting, CallsSigners, Rounds
  <2>2. \A c \in C : \E i \in Ok(q) : c = [node |-> calls[q][i].node,
                                           nonce |-> calls[q][i].nonce]
    BY <1>1 DEF Collected
  <2>3. ASSUME NEW i \in Ok(q)
        PROVE  \E c \in C : c.node = calls[q][i].node
    <3>1. [node |-> calls[q][i].node, nonce |-> calls[q][i].nonce] \in C
      BY <1>1 DEF Collected
    <3> QED
      BY <3>1
  <2>4. \A n \in Participants(C) : n \in Participants(A)
    BY <1>2, <2>1, <2>2, SignersEnumerate DEF Gathered, Participants
  <2>5. \A n \in Participants(A) : n \in Participants(C)
    <3> SUFFICES ASSUME NEW a \in A PROVE a.node \in Participants(C)
      BY DEF Participants
    <3>1. PICK i \in DOMAIN Signers(A) : SetToSeq(A)[i] = a
      BY <1>2, SignersEnumerate DEF Gathered
    <3>2. Signers(A)[i] = a.node
      BY <1>2, <3>1, SignersEnumerate DEF Gathered
    <3> QED
      BY <2>1, <2>3, <3>2 DEF Participants
  <2>6. Once(A) => Once(C)
    <3> SUFFICES ASSUME Once(A), NEW c \in C, NEW d \in C, c.node = d.node PROVE c = d
      BY DEF Once
    <3>1. PICK i \in Ok(q) : c = [node |-> calls[q][i].node, nonce |-> calls[q][i].nonce]
      BY <2>2
    <3>2. PICK j \in Ok(q) : d = [node |-> calls[q][j].node, nonce |-> calls[q][j].nonce]
      BY <2>2
    <3>3. Signers(A)[i] = Signers(A)[j]
      BY <2>1, <3>1, <3>2
    <3>4. i = j
      BY <1>2, <2>1, <3>3, SignersEnumerate DEF Gathered
    <3> QED
      BY <3>1, <3>2, <3>4
  <2> QED
    BY <2>4, <2>5, <2>6
<1>8. AskFits(q)' /\ StraysFit(q)' /\ RefreshUnopened(q)'
  BY <1>3, <1>4 DEF AskFits, StraysFit, RefreshUnopened, Grows
<1>9. Collecting(q)' /\ Finished(q)' /\ FailedRightly(q)'
  BY <1>3 DEF Collecting, Finished, FailedRightly, Rounds
<1>10. Gatherings(q)'
  <2>1. ask[q].proof.iat <= now
    BY <1>4 DEF AskFits
  <2> QED
    BY <1>3, <1>4, <1>6, <1>7, <2>1 DEF Gatherings
<1>11. Signing(q)'
  BY <1>3, <1>5 DEF Signing, CallsSigners
<1>12. RepliesFit(q)'
  BY <1>3 DEF RepliesFit
<1> QED
  BY <1>8, <1>9, <1>10, <1>11, <1>12

\* The end of a commit round.
LEMMA EndCommitFits ==
  ASSUME ProxyInv, NEW q \in Request, RequestFits(q), Grows, EndCommit(q)
  PROVE  RequestFits(q)'
<1>1. phase[q] \in Rounds /\ Settled(q)
  BY DEF EndCommit, Rounds
<1>2. CASE QuorumCommitted(q)
  BY <1>1, <1>2, AccessRoundFits, RefreshRoundFits DEF Rounds
<1>3. CASE ~QuorumCommitted(q)
  <2>1. /\ Fail(q) /\ phase[q] # "idle"
        /\ UNCHANGED <<ask, access, refresh, issuedAt, replies>>
        /\ UNCHANGED <<nodeVars, now, stray, faulty>>
    BY <1>3 DEF EndCommit
  <2>2. \A n \in Node : Held(q, "refresh", n)' = Held(q, "refresh", n)
    BY <2>1 DEF Held, nodeVars
  <2>3. faulty' = {} => ~WellFormed(q)'
    BY <1>1, <1>3, <2>1, CommitFailureHasCause DEF WellFormed, IsSignOn
  <2> QED
    BY <2>1, <2>2, <2>3, FailKeepsFit
<1> QED
  BY <1>2, <1>3

-------------------------------------------------------------------------------
(***************************************************************************)
(* The signing round.                                                      *)
(***************************************************************************)

\* A node that answers a signing call does so with the pairs it holds for the request,
\* which have signed nothing yet, and may: so the shares it answers with are new.
LEMMA AnswerEffect ==
  ASSUME NEW q \in Request, NEW n \in Node, OpenNoncesUnused, NodeAnswers(q, n)
  PROVE  /\ Held(q, "commit", n) # NoNonce
         /\ ~IsSignOn(q) =>
              /\ Held(q, "refresh", n) # NoNonce
              /\ VerifyCredential(ask[q].grant, ask[q].credential, now)
              /\ VerifyDPoPProof(ask[q].proof, ask[q].credential.msg.holder.jkt, now)
         /\ shares' \ shares =
              {ShareOf(n, Held(q, "commit", n), FirstMsg(q), access[q])} \cup
              (IF IsSignOn(q) THEN {}
               ELSE {ShareOf(n, Held(q, "refresh", n), RefreshOf(SignCall(q)), refresh[q])})
<1>1. RoundOf(q, "commit") \in RoundId /\ RoundOf(q, "refresh") \in RoundId
  BY RoundTyped
<1>2. \A msg, C : \A r \in RoundId : activeNonces[n][r] # NoNonce =>
        ShareOf(n, activeNonces[n][r], msg, C) \notin shares
  BY DEF OpenNoncesUnused, ShareOf
<1>3. CASE IsSignOn(q)
  <2>1. AnswerSignOn(n, RoundOf(q, "commit"), SignOnCall(q))
    BY <1>3 DEF NodeAnswers
  <2>2. Held(q, "commit", n) # NoNonce
    BY <2>1 DEF AnswerSignOn, SignOnAccepted, Held
  <2>3. shares' = shares \cup {ShareOf(n, Held(q, "commit", n), FirstMsg(q), access[q])}
    BY <1>3, <2>1 DEF AnswerSignOn, Held, FirstMsg, SignOnCall
  <2>4. ShareOf(n, Held(q, "commit", n), FirstMsg(q), access[q]) \notin shares
    BY <1>1, <1>2, <2>2 DEF Held
  <2> QED
    BY <1>3, <2>2, <2>3, <2>4
<1>4. CASE ~IsSignOn(q)
  <2>1. AnswerSign(n, RoundOf(q, "commit"), RoundOf(q, "refresh"), SignCall(q))
    BY <1>4 DEF NodeAnswers
  <2>2. /\ Held(q, "commit", n) # NoNonce /\ Held(q, "refresh", n) # NoNonce
        /\ VerifyCredential(ask[q].grant, ask[q].credential, now)
        /\ VerifyDPoPProof(ask[q].proof, ask[q].credential.msg.holder.jkt, now)
    BY <2>1 DEF AnswerSign, SignAccepted, Held, SignCall
  <2>3. shares' = shares \cup
          {ShareOf(n, Held(q, "commit", n), FirstMsg(q), access[q]),
           ShareOf(n, Held(q, "refresh", n), RefreshOf(SignCall(q)), refresh[q])}
    BY <1>4, <2>1 DEF AnswerSign, Held, FirstMsg, SignCall
  <2>4. /\ ShareOf(n, Held(q, "commit", n), FirstMsg(q), access[q]) \notin shares
        /\ ShareOf(n, Held(q, "refresh", n), RefreshOf(SignCall(q)), refresh[q]) \notin shares
    BY <1>1, <1>2, <2>2 DEF Held
  <2> QED
    BY <1>4, <2>2, <2>3, <2>4
<1> QED
  BY <1>3, <1>4

\* The node of a signing call is a participant of every round of its request.
LEMMA CalledParticipates ==
  ASSUME ProxyInv, NEW q \in Request, RequestFits(q), phase[q] = "sign",
         NEW i \in DOMAIN calls[q]
  PROVE  /\ \E c \in access[q] : c.node = calls[q][i].node
         /\ ~IsSignOn(q) => \E c \in refresh[q] : c.node = calls[q][i].node
<1>1. IsFiniteSet(access[q]) /\ CallsSigners(q)
  BY DEF RequestFits, Gatherings, Gathered, Signing
<1>2. calls[q][i].node \in Participants(access[q])
  BY <1>1, SignersEnumerate DEF CallsSigners
<1>3. ~IsSignOn(q) => Participants(refresh[q]) = Participants(access[q])
  BY DEF RequestFits, Gatherings
<1> QED
  BY <1>2, <1>3 DEF Participants

\* A node answers /sign-on or /sign: it has signed with pairs it committed to, and closed
\* their rounds.
LEMMA SignAnsweredFits ==
  ASSUME ProxyInv, OpenNoncesUnused, NEW q \in Request, RequestFits(q), Grows,
         NEW i \in DOMAIN calls[q], SignAnswered(q, i)
  PROVE  RequestFits(q)'
<1> USE DEF RequestFits
<1>1. PICK n \in Node : n = calls[q][i].node
  BY SentToNode DEF SignAnswered
<1>2. PICK C, D, f, g : /\ C = access[q] /\ D = refresh[q]
                        /\ f = FirstMsg(q) /\ g = RefreshOf(SignCall(q))
  OBVIOUS
<1>3. PICK k, l : k = Held(q, "commit", n) /\ l = Held(q, "refresh", n)
  OBVIOUS
<1>4. /\ phase[q] = "sign" /\ i \in Sent(q) /\ NodeAnswers(q, n)
      /\ UNCHANGED <<phase, ask, access, refresh, issuedAt, stray, wallet, faulty>>
  BY <1>1 DEF SignAnswered
<1>5. /\ IsSignOn(q)' = IsSignOn(q) /\ Repeats(q)' = Repeats(q)
      /\ FirstMsg(q)' = f /\ RefreshOf(SignCall(q))' = g
      /\ \A ph, m : Astray(q, ph, m)' = Astray(q, ph, m)
  BY <1>2, <1>4 DEF IsSignOn, Repeats, FirstMsg, SignOnCall, SignCall, Astray
<1>6. /\ k # NoNonce
      /\ ~IsSignOn(q) => /\ l # NoNonce
                         /\ VerifyCredential(ask[q].grant, ask[q].credential, now)
                         /\ VerifyDPoPProof(ask[q].proof,
                                            ask[q].credential.msg.holder.jkt, now)
      /\ shares' \ shares = {ShareOf(n, k, f, C)} \cup
                            (IF IsSignOn(q) THEN {} ELSE {ShareOf(n, l, g, D)})
  BY <1>2, <1>3, <1>4, AnswerEffect
<1>7. /\ \A rd \in Rounds, m \in Node :
           Held(q, rd, m)' = Held(q, rd, m) \/ (m = n /\ Held(q, rd, m)' = NoNonce)
      /\ Held(q, "commit", n)' = NoNonce
      /\ ~IsSignOn(q) => Held(q, "refresh", n)' = NoNonce
      /\ now' = now
  BY <1>4, SigningEffect DEF ProxyInv
<1>8. /\ DOMAIN calls'[q] = DOMAIN calls[q]
      /\ \A j \in DOMAIN calls[q] :
           /\ calls'[q][j].node = calls[q][j].node
           /\ j # i => calls'[q][j] = calls[q][j]
      /\ calls'[q][i].state = "ok"
  BY <1>4, SettleEffect DEF SignAnswered, ProxyInv
<1>9. Ok(q)' = Ok(q) \cup {i} /\ i \notin Ok(q)
  BY <1>4, <1>8 DEF Ok, Sent
<1>10. replies'[q] = replies[q] \cup (shares' \ shares)
  BY DEF SignAnswered, ProxyInv, GatheredOK
<1>11. \A j \in Ok(q) : /\ calls[q][j].node \in Node /\ j \in DOMAIN calls[q]
                        /\ Answered(q, calls[q][j].node)
  BY <1>4 DEF ProxyInv, CallsOK, CallOK, Ok, Signing
<1>12. \A j \in Ok(q) : calls[q][j].node # n
  BY <1>3, <1>6, <1>11 DEF Answered, Rounds
<1>13. \A m \in Node : Answered(q, m) => Answered(q, m)'
  <2> SUFFICES ASSUME NEW m \in Node, Answered(q, m) PROVE Answered(q, m)'
    OBVIOUS
  <2>1. \A ph \in Rounds : Held(q, ph, m)' = NoNonce
    BY <1>7 DEF Answered
  <2>2. \A c, msg, B : Signed(replies[q], c, msg, B) => Signed(replies'[q], c, msg, B)
    BY <1>10 DEF Signed
  <2>3. \E c \in C : c.node = m /\ Signed(replies'[q], c, f, C)
    BY <1>2, <2>2 DEF Answered
  <2>4. ~IsSignOn(q) => \E c \in D : c.node = m /\ Signed(replies'[q], c, g, D)
    BY <1>2, <2>2 DEF Answered
  <2> QED
    BY <1>2, <1>4, <1>5, <2>1, <2>3, <2>4 DEF Answered
<1>14. Answered(q, n)'
  <2>1. PICK c \in C : c.node = n /\ c.nonce = k
    BY <1>1, <1>2, <1>3, <1>4, <1>6, <1>12, CalledParticipates DEF Gatherings, Gathered
  <2>2. Signed(replies'[q], c, f, C)
    <3>1. ShareOf(n, k, f, C) \in replies'[q]
      BY <1>6, <1>10
    <3> QED
      BY <2>1, <3>1 DEF Signed, ShareOf
  <2>3. ~IsSignOn(q) => \E d \in D : d.node = n /\ Signed(replies'[q], d, g, D)
    <3> SUFFICES ASSUME ~IsSignOn(q)
                 PROVE  \E d \in D : d.node = n /\ Signed(replies'[q], d, g, D)
      OBVIOUS
    <3>1. PICK d \in D : d.node = n /\ d.nonce = l
      BY <1>1, <1>2, <1>3, <1>4, <1>6, <1>12, CalledParticipates DEF Gatherings, Gathered
    <3>2. ShareOf(n, l, g, D) \in replies'[q]
      BY <1>6, <1>10
    <3>3. Signed(replies'[q], d, g, D)
      BY <3>1, <3>2 DEF Signed, ShareOf
    <3> QED
      BY <3>1, <3>3
  <2>4. \A ph \in Rounds : Held(q, ph, n)' = NoNonce
    BY <1>4, <1>7 DEF Rounds, RefreshUnopened
  <2> QED
    BY <1>2, <1>4, <1>5, <2>1, <2>2, <2>3, <2>4 DEF Answered
<1>15. AskFits(q)' /\ StraysFit(q)' /\ RefreshUnopened(q)'
  BY <1>4, <1>5, <1>7 DEF AskFits, StraysFit, RefreshUnopened, Rounds
<1>16. Gatherings(q)'
  <2>1. ASSUME NEW ph \in Rounds, NEW B, B \subseteq Commitment, Gathered(q, ph, B),
               ph = "refresh" => ~IsSignOn(q)
        PROVE  Gathered(q, ph, B)'
    <3>1. \A c \in B : c.node \in Node
      BY <2>1 DEF Commitment
    <3>2. ASSUME NEW c \in B
          PROVE  \/ \E d \in B : d.node = c.node /\ d.nonce = Held(q, ph, c.node)'
                 \/ /\ Held(q, ph, c.node)' = NoNonce
                    /\ faulty' # {} \/ \E j \in Ok(q)' : calls'[q][j].node = c.node
      <4>1. CASE Held(q, ph, c.node)' = Held(q, ph, c.node)
        <5>1. \A j \in Ok(q) : j \in Ok(q)' /\ calls'[q][j].node = calls[q][j].node
          BY <1>8, <1>9, <1>11
        <5> QED
          BY <1>4, <2>1, <4>1, <5>1 DEF Gathered
      <4>2. CASE c.node = n /\ Held(q, ph, c.node)' = NoNonce
        BY <1>1, <1>8, <1>9, <4>2
      <4> QED
        BY <1>7, <3>1, <4>1, <4>2
    <3> QED
      BY <1>4, <1>5, <2>1, <3>2 DEF Gathered
  <2>2. C \subseteq Commitment /\ D \subseteq Commitment
    BY <1>2 DEF ProxyInv, GatheredOK
  <2>3. Gathered(q, "commit", C)'
    BY <1>2, <1>4, <2>1, <2>2 DEF Gatherings, Rounds
  <2>4. ~IsSignOn(q) => Gathered(q, "refresh", D)'
    BY <1>2, <1>4, <2>1, <2>2 DEF Gatherings, Rounds
  <2> QED
    BY <1>2, <1>4, <1>5, <2>3, <2>4 DEF Gatherings
<1>17. Signing(q)'
  <2>1. CallsSigners(q)'
    BY <1>4, <1>8 DEF Signing, CallsSigners
  <2>2. \A j \in DOMAIN calls'[q] : calls'[q][j].state \in {"sent", "ok"}
    BY <1>4, <1>8 DEF Signing
  <2>4. \A j \in Ok(q)' : calls'[q][j].node = calls[q][j].node
    BY <1>8, <1>9, <1>11
  <2>3. ASSUME NEW j \in Ok(q)'
        PROVE  \E m \in Node : m = calls'[q][j].node /\ Answered(q, m)'
    <3>1. CASE j = i
      BY <1>1, <1>14, <2>4, <3>1
    <3>2. CASE j \in Ok(q)
      BY <1>11, <1>13, <2>4, <3>2
    <3> QED
      BY <1>9, <3>1, <3>2
  <2>5. \A j, m \in Ok(q)' : calls'[q][j].node = calls'[q][m].node => j = m
    BY <1>1, <1>4, <1>9, <1>12, <2>4 DEF Signing
  <2> QED
    BY <2>1, <2>2, <2>3, <2>4, <2>5 DEF Signing
<1>18. Collecting(q)' /\ Finished(q)' /\ FailedRightly(q)'
  BY <1>4 DEF Collecting, Finished, FailedRightly, Rounds
<1>19. RepliesFit(q)'
  <2>1. SignOnCall(q)' = SignOnCall(q) /\ SignCall(q)' = SignCall(q)
    BY <1>4 DEF SignOnCall, SignCall
  <2>2. \A s \in shares' \ shares : s.at = now /\ s.msg \in (IF IsSignOn(q) THEN {f} ELSE {f, g})
    BY <1>6 DEF ShareOf
  <2>3. f = IF IsSignOn(q) THEN AssertionOf(SignOnCall(q)) ELSE AccessOf(SignCall(q))
    BY <1>2 DEF FirstMsg
  <2>4. issuedAt[q] <= now
    BY DEF AskFits
  <2>5. CASE IsSignOn(q)
    BY <1>4, <1>5, <1>10, <2>1, <2>2, <2>3, <2>5 DEF RepliesFit
  <2>6. CASE ~IsSignOn(q)
    <3>1. ASSUME NEW s \in replies'[q]
          PROVE  /\ s.msg \in {AccessOf(SignCall(q)), g}
                 /\ issuedAt[q] <= s.at
                 /\ VerifyCredential(ask[q].grant, ask[q].credential, s.at)
                 /\ VerifyDPoPProof(ask[q].proof, ask[q].credential.msg.holder.jkt, s.at)
      <4>1. CASE s \in replies[q]
        BY <1>2, <2>6, <4>1 DEF RepliesFit
      <4>2. CASE s \in shares' \ shares
        BY <1>6, <2>2, <2>3, <2>4, <2>6, <4>2
      <4> QED
        BY <1>10, <4>1, <4>2
    <3> QED
      BY <1>2, <1>4, <1>5, <2>1, <2>6, <3>1 DEF RepliesFit
  <2> QED
    BY <2>5, <2>6
<1> QED
  BY <1>15, <1>16, <1>17, <1>18, <1>19

\* A sequence with as many elements as entries names each of them once.
LEMMA CountedOnce ==
  ASSUME NEW S, NEW p \in Seq(S), Cardinality(Range(p)) = Len(p)
  PROVE  IsInjective(p)
<1>1. DOMAIN p = 1 .. Len(p) /\ Len(p) \in Nat
  OBVIOUS
<1>2. IsFiniteSet(DOMAIN p) /\ Cardinality(DOMAIN p) = Cardinality(Range(p))
  BY <1>1, IntervalCounts
<1>3. p \in Surjection(DOMAIN p, Range(p))
  BY DEF Surjection, Range
<1>4. p \in Injection(DOMAIN p, Range(p))
  BY <1>2, <1>3, FS_SurjSameCardinalityImpliesInj
<1> QED
  BY <1>4 DEF Injection

\* As long as no node failed, a request that is well formed finds at every node it calls
\* the pairs the node committed to, and none turns it down.
LEMMA WellFormedAnswered ==
  ASSUME ProxyInv, NEW q \in Request, RequestFits(q), phase[q] = "sign", faulty = {},
         NEW i \in Sent(q), NEW n \in Node, n = calls[q][i].node, WellFormed(q)
  PROVE  ~NodeRefuses(q, n)
<1> USE DEF RequestFits
<1>1. ~Repeats(q)
  <2> SUFFICES ASSUME IsSignOn(q), ask[q].participants # Unspecified
               PROVE  IsInjective(ask[q].participants)
    BY DEF Repeats
  <2>1. ask[q].participants \in Seq(NamedNode)
    BY DEF ProxyInv, AsksOK, IsSignOn, TokenAsked, Body
  <2>2. Cardinality(Range(ask[q].participants)) = Len(ask[q].participants)
    BY DEF WellFormed
  <2> QED
    BY <2>1, <2>2, CountedOnce
<1>2. Once(access[q]) /\ IsFiniteSet(access[q]) /\ CallsSigners(q)
  BY <1>1 DEF Gatherings, Gathered, Signing
<1>3. \A j \in Ok(q) : calls[q][j].node # n
  <2> SUFFICES ASSUME NEW j \in Ok(q), calls[q][j].node = n PROVE FALSE
    OBVIOUS
  <2>1. i \in DOMAIN Signers(access[q]) /\ j \in DOMAIN Signers(access[q]) /\ i # j
    BY <1>2 DEF CallsSigners, Ok, Sent
  <2>2. Signers(access[q])[i] = Signers(access[q])[j]
    BY <1>2, <2>1 DEF CallsSigners
  <2> QED
    BY <1>2, <2>1, <2>2, SignersEnumerate
<1>4. /\ \E c \in access[q] : c.node = n
      /\ ~IsSignOn(q) => \E c \in refresh[q] : c.node = n
  BY CalledParticipates DEF Sent
<1>5. Held(q, "commit", n) # NoNonce
  BY <1>3, <1>4 DEF Gatherings, Gathered
<1>6. CASE IsSignOn(q)
  <2>1. SignOnAccepted(n, RoundOf(q, "commit"), SignOnCall(q)) /\ SignOnCall(q).decodes
    BY <1>4, <1>5, <1>6
    DEF SignOnAccepted, SignOnCall, HasOwnCommitment, Participants, WellFormed, Held
  <2> QED
    BY <1>6, <2>1 DEF NodeRefuses, SpoilSignOn, RefuseSignOn
<1>7. CASE ~IsSignOn(q)
  <2>1. Held(q, "refresh", n) # NoNonce
    BY <1>3, <1>4, <1>7 DEF Gatherings, Gathered
  <2>2. ask[q].proof.iat \in Int /\ issuedAt[q] \in Int /\ now \in Int
    BY <1>7 DEF ProxyInv, NodeTypeOK, GatheredOK, AsksOK, IsSignOn, Body, TokenAsked, Proof
  <2>3. /\ VerifyCredential(ask[q].grant, ask[q].credential, now)
        /\ VerifyDPoPProof(ask[q].proof, ask[q].credential.msg.holder.jkt, now)
    BY <1>7 DEF WellFormed
  <2>4. CLOCK_SKEW_SECONDS \in Nat /\ Fresh(ask[q].proof.iat, now)
    BY <2>3, LifetimeAssumption DEF VerifyDPoPProof
  <2>5. ask[q].proof.iat <= issuedAt[q] /\ issuedAt[q] <= now
    BY <1>7 DEF Gatherings, AskFits
  <2>6. Fresh(issuedAt[q], now)
    BY <2>2, <2>4, <2>5 DEF Fresh
  <2>7. /\ InLifetime(issuedAt[q] + ACCESS_TOKEN_LIFETIME_SECONDS - issuedAt[q],
                      MAX_ACCESS_TOKEN_LIFETIME_SECONDS)
        /\ InLifetime(issuedAt[q] + REFRESH_TOKEN_LIFETIME_SECONDS - issuedAt[q],
                      MAX_REFRESH_LIFETIME_SECONDS)
        /\ issuedAt[q] + REFRESH_TOKEN_LIFETIME_SECONDS \in Int
    BY <2>2, IssueLifetimeAssumption, LifetimeAssumption DEF InLifetime
  <2>8. RefreshExp(SignCall(q).refreshExp, SignCall(q).iat)
          = issuedAt[q] + REFRESH_TOKEN_LIFETIME_SECONDS
    BY <2>7, UnpinnedAssumption DEF RefreshExp, SignCall
  <2>9. RoundOf(q, "commit") # RoundOf(q, "refresh") /\ q # NoJti
    BY RequestAssumption DEF RoundOf
  <2>10. HasOwnCommitment(n, access[q]) /\ HasOwnCommitment(n, refresh[q])
    BY <1>4, <1>7 DEF HasOwnCommitment, Participants
  <2>11. SignAccepted(n, RoundOf(q, "commit"), RoundOf(q, "refresh"), SignCall(q))
    <3>1. PICK call : call = SignCall(q)
      OBVIOUS
    <3>2. /\ call.grant = ask[q].grant /\ call.credential = ask[q].credential
          /\ call.proof = ask[q].proof /\ call.iat = issuedAt[q]
          /\ call.exp = issuedAt[q] + ACCESS_TOKEN_LIFETIME_SECONDS /\ call.jti = q
          /\ call.commitments = access[q] /\ call.refreshCommitments = refresh[q]
      BY <3>1 DEF SignCall
    <3>3. RefreshExp(call.refreshExp, call.iat)
            = issuedAt[q] + REFRESH_TOKEN_LIFETIME_SECONDS
      BY <2>8, <3>1
    <3>4. /\ HasOwnCommitment(n, call.commitments)
          /\ HasOwnCommitment(n, call.refreshCommitments)
      BY <2>10, <3>2
    <3>5. /\ VerifyCredential(call.grant, call.credential, now)
          /\ VerifyDPoPProof(call.proof, call.credential.msg.holder.jkt, now)
          /\ Fresh(call.iat, now)
      BY <2>3, <2>6, <3>2
    <3>6. /\ InLifetime(call.exp - call.iat, MAX_ACCESS_TOKEN_LIFETIME_SECONDS)
          /\ call.jti # NoJti
          /\ InLifetime(RefreshExp(call.refreshExp, call.iat) - call.iat,
                        MAX_REFRESH_LIFETIME_SECONDS)
      <4>1. InLifetime(call.exp - call.iat, MAX_ACCESS_TOKEN_LIFETIME_SECONDS)
        BY <2>2, <2>7, <3>2, IssueLifetimeAssumption, LifetimeAssumption DEF InLifetime
      <4>2. InLifetime(RefreshExp(call.refreshExp, call.iat) - call.iat,
                       MAX_REFRESH_LIFETIME_SECONDS)
        <5> DEFINE e == RefreshExp(call.refreshExp, call.iat)
        <5>1. e = issuedAt[q] + REFRESH_TOKEN_LIFETIME_SECONDS
          BY <3>3
        <5> HIDE DEF e
        <5>2. InLifetime(e - call.iat, MAX_REFRESH_LIFETIME_SECONDS)
          BY <2>2, <2>7, <3>2, <5>1, IssueLifetimeAssumption, LifetimeAssumption
          DEF InLifetime
        <5> QED
          BY <5>2 DEF e
      <4> QED
        BY <2>9, <3>2, <4>1, <4>2
    <3>7. /\ activeNonces[n][RoundOf(q, "commit")] # NoNonce
          /\ activeNonces[n][RoundOf(q, "refresh")] # NoNonce
      BY <1>5, <2>1 DEF Held
    <3>8. SignAccepted(n, RoundOf(q, "commit"), RoundOf(q, "refresh"), call)
      BY <2>9, <3>4, <3>5, <3>6, <3>7 DEF SignAccepted
    <3> QED
      BY <3>1, <3>8
  <2>12. SignCall(q).decodes
    BY DEF SignCall
  <2> QED
    BY <1>7, <2>11, <2>12 DEF NodeRefuses, SpoilSign, RefuseSign
<1> QED
  BY <1>6, <1>7

\* A node turns a signing call down, or the call fails: so does the request.
LEMMA SignFailingFits ==
  ASSUME ProxyInv, NEW q \in Request, RequestFits(q), Grows,
         NEW i \in DOMAIN calls[q], SignRefused(q, i) \/ SignFails(q, i)
  PROVE  RequestFits(q)'
<1>1. /\ phase[q] = "sign" /\ i \in Sent(q) /\ Fail(q)
      /\ UNCHANGED <<ask, access, refresh, issuedAt, replies>>
      /\ \A m \in stray' : m \in stray \/ m.phase = "sign"
  BY DEF SignRefused, SignFails, Stray
<1>2. PICK n \in Node : n = calls[q][i].node
  BY <1>1, SentToNode
<1>3. IsSignOn(q) => \A m \in Node : Held(q, "refresh", m) = NoNonce
  BY DEF RequestFits, RefreshUnopened
<1>4. CASE SignRefused(q, i)
  <2>1. NodeRefuses(q, n) /\ faulty' = faulty
    BY <1>2, <1>4 DEF SignRefused
  <2>2. /\ \A m \in Node : \/ Held(q, "refresh", m)' = Held(q, "refresh", m)
                           \/ Held(q, "refresh", m)' = NoNonce
        /\ now' = now
    BY <2>1, SigningEffect DEF ProxyInv, Rounds
  <2>3. faulty' = {} => ~WellFormed(q)'
    BY <1>1, <1>2, <2>1, <2>2, WellFormedAnswered DEF WellFormed, IsSignOn
  <2> QED
    BY <1>1, <1>3, <2>2, <2>3, FailKeepsFit
<1>5. CASE SignFails(q, i)
  <2>1. \A m \in Node : Held(q, "refresh", m)' = Held(q, "refresh", m)
    BY <1>5 DEF SignFails, Held, nodeVars
  <2>2. faulty' # {}
    BY <1>5 DEF SignFails
  <2> QED
    BY <1>1, <2>1, <2>2, FailKeepsFit
<1> QED
  BY <1>4, <1>5

\* A signing round that settled has answers from every participant, each once.
LEMMA SettledAnswered ==
  ASSUME NEW q \in Request, RequestFits(q), phase[q] = "sign", Settled(q)
  PROVE  /\ Once(access[q])
         /\ \A c \in access[q] : Answered(q, c.node)
<1> USE DEF RequestFits
<1>1. Ok(q) = DOMAIN calls[q]
  BY DEF Signing, Ok, Settled, Sent
<1>2. IsFiniteSet(access[q]) /\ CallsSigners(q)
  BY DEF Gatherings, Gathered, Signing
<1>3. \A c \in access[q] : \E i \in Ok(q) :
        SetToSeq(access[q])[i] = c /\ calls[q][i].node = c.node
  BY <1>1, <1>2, SignersEnumerate DEF CallsSigners
<1>4. Once(access[q])
  <2> SUFFICES ASSUME NEW c \in access[q], NEW d \in access[q], c.node = d.node
               PROVE  c = d
    BY DEF Once
  <2>1. PICK i \in Ok(q) : SetToSeq(access[q])[i] = c /\ calls[q][i].node = c.node
    BY <1>3
  <2>2. PICK j \in Ok(q) : SetToSeq(access[q])[j] = d /\ calls[q][j].node = d.node
    BY <1>3
  <2>3. i = j
    BY <2>1, <2>2 DEF Signing
  <2> QED
    BY <2>1, <2>2, <2>3
<1>5. \A c \in access[q] : Answered(q, c.node)
  BY <1>3 DEF Signing
<1> QED
  BY <1>4, <1>5

\* Every participant has answered: the request is done.
LEMMA EndSignFits ==
  ASSUME ProxyInv, NEW q \in Request, RequestFits(q), Grows, EndSign(q)
  PROVE  RequestFits(q)'
<1> USE DEF RequestFits
<1>1. /\ phase[q] = "sign" /\ Sent(q) = {} /\ phase'[q] = "done"
      /\ UNCHANGED <<nodeVars, now, ask, access, refresh, issuedAt, replies, stray, faulty>>
  BY DEF EndSign, Settled, Leave, ProxyInv, PhasesOK
<1>2. /\ IsSignOn(q)' = IsSignOn(q) /\ Repeats(q)' = Repeats(q)
      /\ FirstMsg(q)' = FirstMsg(q)
      /\ SignOnCall(q)' = SignOnCall(q) /\ SignCall(q)' = SignCall(q)
      /\ \A rd, n : Held(q, rd, n)' = Held(q, rd, n) /\ Astray(q, rd, n)' = Astray(q, rd, n)
  BY <1>1 DEF IsSignOn, Repeats, FirstMsg, SignOnCall, SignCall, Held, Astray, nodeVars
<1>6. Once(access[q]) /\ \A c \in access[q] : Answered(q, c.node)
  BY SettledAnswered DEF EndSign
<1>8. \A n : Answered(q, n) => Answered(q, n)'
  BY <1>1, <1>2 DEF Answered
<1>9. Finished(q)'
  BY <1>1, <1>6, <1>8 DEF Finished
<1>10. Gatherings(q)'
  <2>1. \A ph, C : Gathered(q, ph, C) => Gathered(q, ph, C)'
    BY <1>1, <1>2 DEF Gathered
  <2> QED
    BY <1>1, <1>2, <2>1 DEF Gatherings
<1>11. AskFits(q)'
  <2>1. wallet \subseteq wallet'
    BY DEF Grows
  <2> QED
    BY <1>1, <1>2, <2>1 DEF AskFits
<1>12. StraysFit(q)' /\ RefreshUnopened(q)' /\ RepliesFit(q)'
  BY <1>1, <1>2 DEF StraysFit, RefreshUnopened, RepliesFit
<1>13. Collecting(q)' /\ Signing(q)' /\ FailedRightly(q)'
  BY <1>1 DEF Collecting, Signing, FailedRightly, Rounds
<1> QED
  BY <1>9, <1>10, <1>11, <1>12, <1>13

\* The browser assembles an assertion: the request stays as it is.
LEMMA AssembleAside ==
  ASSUME NEW q \in Request, AssembleAssertion(q)
  PROVE  Aside(q)
BY DEF AssembleAssertion, Aside, Held, nodeVars

-------------------------------------------------------------------------------
(***************************************************************************)
(* The invariant.                                                          *)
(***************************************************************************)

\* Whatever moves, every request still fits.
LEMMA NextKeepsRequests ==
  ASSUME ProxyInv, ProxyInv', OpenNoncesUnused, RequestInv, [Next]_vars
  PROVE  RequestInv'
<1>1. CASE UNCHANGED vars
  <2>1. \A p \in Request : Aside(p)
    BY <1>1 DEF vars, proxyVars, nodeVars, Aside, Held
  <2>2. Grows
    BY <1>1 DEF vars, proxyVars, nodeVars, Grows, ProxyInv, NodeTypeOK
  <2> QED
    BY <2>1, <2>2, AsideKeepsFit DEF RequestInv
<1>2. CASE Next
  <2>1. Grows
    BY <1>2, NextGrows
  <2>2. ASSUME NEW q \in Request, Served(q) \/ CommitSettles(q) \/ SignSettles(q)
        PROVE  RequestInv'
    <3>1. RequestFits(q)
      BY DEF RequestInv
    <3>2. RequestFits(q)'
      <4>1. ASSUME NEW body \in SignOnBody, StartSignOn(q, body)
            PROVE  RequestFits(q)'
        BY <2>1, <3>1, <4>1, StartSignOnFits
      <4>2. ASSUME NEW grant \in Grant, NEW c \in Presented, NEW jkt \in Proofs,
                   StartToken(q, grant, c, ProofNow(jkt))
            PROVE  RequestFits(q)'
        BY <2>1, <3>1, <4>2, StartTokenFits
      <4>3. CASE EndCommit(q)
        BY <2>1, <3>1, <4>3, EndCommitFits
      <4>4. CASE EndSign(q)
        BY <2>1, <3>1, <4>4, EndSignFits
      <4>5. CASE AssembleAssertion(q)
        BY <2>1, <3>1, <4>5, AssembleAside, AsideKeepsFit
      <4>6. ASSUME NEW i \in DOMAIN calls[q], CommitAnswered(q, i) \/ CommitFails(q, i)
            PROVE  RequestFits(q)'
        BY <2>1, <3>1, <4>6, CommitAnsweredFits, CommitFailsFits
      <4>7. ASSUME NEW i \in DOMAIN calls[q], SignAnswered(q, i)
            PROVE  RequestFits(q)'
        BY <2>1, <3>1, <4>7, SignAnsweredFits
      <4>8. ASSUME NEW i \in DOMAIN calls[q], SignRefused(q, i) \/ SignFails(q, i)
            PROVE  RequestFits(q)'
        BY <2>1, <3>1, <4>8, SignFailingFits
      <4> QED
        BY <2>2, <4>1, <4>2, <4>3, <4>4, <4>5, <4>6, <4>7, <4>8
        DEF Served, CommitSettles, SignSettles
    <3>3. ASSUME NEW p \in Request, p # q
          PROVE  RequestFits(p)'
      <4>1. Aside(p)
        BY <2>2, <3>3, OthersAside
      <4> QED
        BY <2>1, <4>1, AsideKeepsFit DEF RequestInv
    <3> QED
      BY <3>2, <3>3 DEF RequestInv
  <2>3. ASSUME \/ \E m \in stray : StrayArrives(m)
               \/ \E n \in Node : NodeRestarts(n)
               \/ ClockTicks
        PROVE  RequestInv'
    <3>1. ASSUME NEW p \in Request
          PROVE  RequestFits(p)'
      <4>1. RequestFits(p)
        BY DEF RequestInv
      <4>2. Aside(p)
        BY <2>3, <4>1, SurroundingsAside DEF RequestFits
      <4> QED
        BY <2>1, <4>1, <4>2, AsideKeepsFit
    <3> QED
      BY <3>1 DEF RequestInv
  <2> QED
    BY <1>2, <2>2, <2>3 DEF Next
<1> QED
  BY <1>1, <1>2

\* It holds before any request came in.
LEMMA InitRequests ==
  ASSUME Init
  PROVE  RequestInv
<1> SUFFICES ASSUME NEW q \in Request PROVE RequestFits(q)
  BY DEF RequestInv
<1>1. /\ phase[q] = "idle" /\ issuedAt[q] = 0 /\ replies[q] = {} /\ stray = {} /\ now = 0
      /\ \A n \in Node : Held(q, "refresh", n) = NoNonce
  BY RoundTyped DEF Init, NodeInit, Held
<1> QED
  BY <1>1 DEF RequestFits, AskFits, StraysFit, RefreshUnopened, Astray, Collecting,
              Gatherings, Signing, Finished, FailedRightly, RepliesFit, Rounds

\* Every request of every execution fits, from its first call to its answer and after.
THEOREM RequestInvariant == Spec => []RequestInv
<1>1. Init => RequestInv
  BY InitRequests
<1>2. ProxyInv /\ ProxyInv' /\ NonceInv /\ RequestInv /\ [Next]_vars => RequestInv'
  BY NextKeepsRequests DEF NonceInv
<1>3. Spec => []NonceInv
  BY ProxyImplementsNodeSpec, NonceInvariant, PTL
<1> QED
  BY <1>1, <1>2, <1>3, ProxyInvariant, PTL DEF Spec

-------------------------------------------------------------------------------
(***************************************************************************)
(* Whom a request reached.  A node it leaves out may hold a round of it    *)
(* still, or be given one by a call that is astray.  TracesInv follows     *)
(* every such node from its call in the first round on: it takes part, or  *)
(* it failed a call and nobody had asked for it by name.                   *)
(***************************************************************************)

\* Node n holds a pair for round ph of q, or a call of that round may still give it one.
Reached(q, ph, n) == Held(q, ph, n) # NoNonce \/ Astray(q, ph, n)

LeftOut(q, n) ==
  /\ n \in faulty
  /\ IsSignOn(q) => ask[q].participants = Unspecified

Traced(q, ph, n) ==
  \/ phase[q] = "failed"
  \/ /\ phase[q] = "commit" /\ ph = "commit"
     /\ \E i \in DOMAIN calls[q] :
          /\ calls[q][i].node = n
          /\ calls[q][i].state = "ok" \/ (calls[q][i].state = "failed" /\ n \in faulty)
  \/ /\ phase[q] \in {"refresh", "sign", "done"}
     /\ n \in Participants(access[q]) \/ (ph = "commit" /\ LeftOut(q, n))

TracedOK(q) == \A n \in Node, ph \in Rounds : Reached(q, ph, n) => Traced(q, ph, n)

TracesInv == \A q \in Request : TracedOK(q)

\* A step that reaches no more of q's nodes, while q's handler stays where it was.
LEMMA StillTraced ==
  ASSUME NEW q \in Request, TracedOK(q), faulty \subseteq faulty',
         phase'[q] = phase[q], calls'[q] = calls[q], access'[q] = access[q],
         ask'[q] = ask[q],
         \A n \in Node, ph \in Rounds : Reached(q, ph, n)' => Reached(q, ph, n)
  PROVE  TracedOK(q)'
<1> SUFFICES ASSUME NEW n \in Node, NEW ph \in Rounds, Reached(q, ph, n)'
             PROVE  Traced(q, ph, n)'
  BY DEF TracedOK
<1>1. Traced(q, ph, n)
  BY DEF TracedOK
<1>2. LeftOut(q, n) => LeftOut(q, n)'
  BY DEF LeftOut, IsSignOn
<1> QED
  BY <1>1, <1>2 DEF Traced

\* A step of others.
LEMMA AsideKeepsTraces ==
  ASSUME NEW q \in Request, TracedOK(q), faulty \subseteq faulty', Aside(q)
  PROVE  TracedOK(q)'
<1>1. \A n \in Node, ph \in Rounds : Reached(q, ph, n)' => Reached(q, ph, n)
  BY AsideSame DEF Aside, Reached
<1> QED
  BY <1>1, StillTraced DEF Aside

\* A request that is taken in has reached nobody yet.
LEMMA TakenKeepsTraces ==
  ASSUME NEW q \in Request, TracedOK(q), phase[q] = "idle", UNCHANGED <<nodeVars, stray>>
  PROVE  TracedOK(q)'
<1>1. \A n \in Node, ph \in Rounds : ~Reached(q, ph, n)
  BY DEF TracedOK, Traced
<1>2. \A n \in Node, ph \in Rounds : Reached(q, ph, n)' => Reached(q, ph, n)
  BY DEF Reached, Held, Astray, nodeVars
<1> QED
  BY <1>1, <1>2 DEF TracedOK

\* A node whose commit call settles is traced, and the others are as before.
LEMMA CommitKeepsTraces ==
  ASSUME ProxyInv, NEW q \in Request, RequestFits(q), TracedOK(q),
         NEW i \in DOMAIN calls[q], CommitAnswered(q, i) \/ CommitFails(q, i)
  PROVE  TracedOK(q)'
<1>1. PICK n \in Node, ph \in Rounds : n = calls[q][i].node /\ ph = phase[q]
  BY SentToNode DEF CommitAnswered, CommitFails, Rounds
<1>2. /\ i \in Sent(q) /\ faulty \subseteq faulty'
      /\ UNCHANGED <<phase, ask, access>>
  BY DEF CommitAnswered, CommitFails
<1>3. \A m \in Node, rd \in Rounds :
        Reached(q, rd, m)' => Reached(q, rd, m) \/ (m = n /\ rd = ph)
  <2>1. CASE CommitAnswered(q, i)
    <3>1. \A rd \in Rounds, m \in Node :
            Held(q, rd, m)' = IF rd = ph /\ m = n THEN nonceCount[n] + 1 ELSE Held(q, rd, m)
      BY <1>1, <2>1, CommitEffect DEF CommitAnswered, ProxyInv
    <3>2. stray' = stray
      BY <2>1 DEF CommitAnswered
    <3> QED
      BY <3>1, <3>2 DEF Reached, Astray
  <2>2. CASE CommitFails(q, i)
    <3>1. /\ activeNonces' = activeNonces
          /\ stray' = stray \cup {Stray(q, i)}
      BY <2>2 DEF CommitFails, nodeVars
    <3>2. Stray(q, i).phase = ph /\ Stray(q, i).node = n
      BY <1>1 DEF Stray
    <3> QED
      BY <3>1, <3>2 DEF Reached, Held, Astray
  <2> QED
    BY <2>1, <2>2
<1>4. /\ DOMAIN calls'[q] = DOMAIN calls[q]
      /\ \A j \in DOMAIN calls[q] : /\ calls'[q][j].node = calls[q][j].node
                                    /\ j # i => calls'[q][j] = calls[q][j]
      /\ \/ calls'[q][i].state = "ok"
         \/ calls'[q][i].state = "failed" /\ n \in faulty'
  BY <1>1, <1>2, SettleEffect DEF CommitAnswered, CommitFails, ProxyInv
<1>5. SUFFICES ASSUME NEW m \in Node, NEW rd \in Rounds, Reached(q, rd, m)'
               PROVE  Traced(q, rd, m)'
  BY DEF TracedOK
<1>6. calls[q][i].state = "sent"
  BY <1>2 DEF Sent
<1>7. CASE Reached(q, rd, m)
  <2>1. Traced(q, rd, m)
    BY <1>7 DEF TracedOK
  <2>2. LeftOut(q, m) => LeftOut(q, m)'
    BY <1>2 DEF LeftOut, IsSignOn
  <2> QED
    BY <1>2, <1>4, <1>6, <2>1, <2>2 DEF Traced
<1>8. CASE m = n /\ rd = ph
  <2>1. CASE ph = "commit"
    BY <1>1, <1>2, <1>4, <1>8, <2>1 DEF Traced
  <2>2. CASE ph = "refresh"
    <3>1. IsFiniteSet(access[q]) /\ CallsSigners(q)
      BY <1>1, <2>2 DEF RequestFits, Collecting, Gatherings, Gathered
    <3>2. n \in Participants(access[q])
      BY <1>1, <3>1, SignersEnumerate DEF CallsSigners
    <3> QED
      BY <1>1, <1>2, <1>8, <2>2, <3>2 DEF Traced
  <2> QED
    BY <2>1, <2>2 DEF Rounds
<1> QED
  BY <1>3, <1>5, <1>7, <1>8

\* A round that ends goes on with the nodes that answered, and with all of them if the
\* caller named them.
LEMMA EndCommitKeepsTraces ==
  ASSUME ProxyInv, NEW q \in Request, TracedOK(q), EndCommit(q)
  PROVE  TracedOK(q)'
<1>1. /\ UNCHANGED <<nodeVars, ask, stray, faulty>>
      /\ phase[q] \in {"commit", "refresh"}
  BY DEF EndCommit
<1>2. \A n \in Node, ph \in Rounds : Reached(q, ph, n)' => Reached(q, ph, n)
  BY <1>1 DEF Reached, Held, Astray, nodeVars
<1>3. SUFFICES ASSUME NEW n \in Node, NEW ph \in Rounds, Reached(q, ph, n)'
               PROVE  Traced(q, ph, n)'
  BY DEF TracedOK
<1>4. Traced(q, ph, n)
  BY <1>2, <1>3 DEF TracedOK
<1>5. LeftOut(q, n)' = LeftOut(q, n)
  BY <1>1 DEF LeftOut, IsSignOn
<1>6. CASE ~QuorumCommitted(q)
  <2>1. phase'[q] = "failed"
    BY <1>6 DEF EndCommit, Fail, Leave, ProxyInv, PhasesOK
  <2> QED
    BY <2>1 DEF Traced
<1>7. CASE QuorumCommitted(q) /\ phase[q] = "commit"
  <2>1. phase'[q] \in {"refresh", "sign"} /\ access'[q] = Collected(q)
    BY <1>7 DEF EndCommit, ProxyInv, PhasesOK, GatheredOK
  <2>2. PICK i \in DOMAIN calls[q] :
          /\ ph = "commit" /\ calls[q][i].node = n
          /\ calls[q][i].state = "ok" \/ (calls[q][i].state = "failed" /\ n \in faulty)
    BY <1>4, <1>7 DEF Traced
  <2>3. CASE calls[q][i].state = "ok"
    <3>1. [node |-> calls[q][i].node, nonce |-> calls[q][i].nonce] \in Collected(q)
      BY <2>3 DEF Collected, Ok
    <3>2. n \in Participants(Collected(q))
      BY <2>2, <3>1 DEF Participants
    <3> QED
      BY <2>1, <3>2 DEF Traced
  <2>4. CASE calls[q][i].state = "failed" /\ n \in faulty
    <3>1. i \notin Ok(q)
      BY <2>4 DEF Ok
    <3>2. LeftOut(q, n)
      BY <1>7, <2>4, <3>1 DEF QuorumCommitted, Explicit, LeftOut
    <3> QED
      BY <1>5, <2>1, <2>2, <3>2 DEF Traced
  <2> QED
    BY <2>2, <2>3, <2>4
<1>8. CASE QuorumCommitted(q) /\ phase[q] = "refresh"
  <2>1. phase'[q] = "sign" /\ access'[q] = access[q]
    BY <1>8 DEF EndCommit, ProxyInv, PhasesOK
  <2> QED
    BY <1>4, <1>5, <1>8, <2>1 DEF Traced
<1> QED
  BY <1>1, <1>6, <1>7, <1>8

\* A signing call that settles reaches nobody new.
LEMMA SigningKeepsTraces ==
  ASSUME ProxyInv, NEW q \in Request, TracedOK(q), NEW i \in DOMAIN calls[q],
         SignAnswered(q, i) \/ SignRefused(q, i) \/ SignFails(q, i)
  PROVE  TracedOK(q)'
<1>1. CASE SignAnswered(q, i)
  <2>1. PICK n \in Node : n = calls[q][i].node
    BY <1>1, SentToNode DEF SignAnswered
  <2>2. \A m \in Node, ph \in Rounds : Reached(q, ph, m)' => Reached(q, ph, m)
    BY <1>1, <2>1, SigningEffect DEF SignAnswered, ProxyInv, Reached, Astray
  <2>3. /\ phase[q] = "sign"
        /\ UNCHANGED <<phase, ask, access, faulty>>
    BY <1>1 DEF SignAnswered
  <2>4. \A m \in Node, ph \in Rounds : Traced(q, ph, m) => Traced(q, ph, m)'
    BY <2>3 DEF Traced, LeftOut, IsSignOn
  <2> QED
    BY <2>2, <2>4 DEF TracedOK
<1>2. CASE SignRefused(q, i) \/ SignFails(q, i)
  <2>1. phase'[q] = "failed"
    BY <1>2 DEF SignRefused, SignFails, Fail, Leave, ProxyInv, PhasesOK
  <2> QED
    BY <2>1 DEF TracedOK, Traced
<1> QED
  BY <1>1, <1>2

\* The answer is given: nothing moves but the phase.
LEMMA EndSignKeepsTraces ==
  ASSUME ProxyInv, NEW q \in Request, TracedOK(q), EndSign(q)
  PROVE  TracedOK(q)'
<1>1. /\ UNCHANGED <<nodeVars, ask, access, stray, faulty>>
      /\ phase[q] = "sign" /\ phase'[q] = "done"
  BY DEF EndSign, Leave, ProxyInv, PhasesOK
<1>2. \A n \in Node, ph \in Rounds : Reached(q, ph, n)' => Reached(q, ph, n)
  BY <1>1 DEF Reached, Held, Astray, nodeVars
<1>3. \A n \in Node, ph \in Rounds : Traced(q, ph, n) => Traced(q, ph, n)'
  BY <1>1 DEF Traced, LeftOut, IsSignOn
<1> QED
  BY <1>2, <1>3 DEF TracedOK

\* Every step keeps the traces.
LEMMA NextKeepsTraces ==
  ASSUME ProxyInv, RequestInv, TracesInv, [Next]_vars
  PROVE  TracesInv'
<1>1. faulty \subseteq faulty'
  BY DEF Next, Served, CommitSettles, SignSettles, StartSignOn, StartToken, EndCommit,
         EndSign, AssembleAssertion, CommitAnswered, CommitFails, SignAnswered,
         SignRefused, SignFails, StrayArrives, NodeRestarts, ClockTicks, proxyVars, vars
<1>2. ASSUME NEW p \in Request, Aside(p)
      PROVE  TracedOK(p)'
  BY <1>1, <1>2, AsideKeepsTraces DEF TracesInv
<1>3. CASE UNCHANGED vars
  <2>1. \A p \in Request : Aside(p)
    BY <1>3 DEF vars, proxyVars, nodeVars, Aside, Held
  <2> QED
    BY <1>2, <2>1 DEF TracesInv
<1>4. ASSUME NEW q \in Request, Served(q) \/ CommitSettles(q) \/ SignSettles(q)
      PROVE  TracesInv'
  <2>1. RequestFits(q) /\ TracedOK(q)
    BY DEF RequestInv, TracesInv
  <2>2. ASSUME \/ \E body \in SignOnBody : StartSignOn(q, body)
               \/ \E grant \in Grant, c \in Presented, jkt \in Proofs :
                    StartToken(q, grant, c, ProofNow(jkt))
        PROVE  TracedOK(q)'
    <3>1. phase[q] = "idle" /\ UNCHANGED <<nodeVars, stray>>
      BY <2>2 DEF StartSignOn, StartToken
    <3> QED
      BY <2>1, <3>1, TakenKeepsTraces
  <2>3. EndCommit(q) => TracedOK(q)'
    BY <2>1, EndCommitKeepsTraces
  <2>4. EndSign(q) => TracedOK(q)'
    BY <2>1, EndSignKeepsTraces
  <2>5. AssembleAssertion(q) => TracedOK(q)'
    BY <1>2, AssembleAside
  <2>6. CommitSettles(q) => TracedOK(q)'
    BY <2>1, CommitKeepsTraces DEF CommitSettles
  <2>7. SignSettles(q) => TracedOK(q)'
    BY <2>1, SigningKeepsTraces DEF SignSettles
  <2>8. TracedOK(q)'
    BY <1>4, <2>2, <2>3, <2>4, <2>5, <2>6, <2>7 DEF Served
  <2>9. \A p \in Request : p # q => Aside(p)
    BY <1>4, OthersAside
  <2> QED
    BY <1>2, <2>8, <2>9 DEF TracesInv
<1>5. ASSUME \/ \E m \in stray : StrayArrives(m)
             \/ \E n \in Node : NodeRestarts(n)
             \/ ClockTicks
      PROVE  TracesInv'
  <2>1. \A p \in Request : Aside(p)
    BY <1>5, SurroundingsAside DEF RequestInv, RequestFits
  <2> QED
    BY <1>2, <2>1 DEF TracesInv
<1> QED
  BY <1>3, <1>4, <1>5 DEF Next

\* A completed request leaves no round of its own open, except the first at a node it went
\* on without: one that failed its call, whom nobody had asked for by name (node.ts 282 and
\* 427-428, proxy.ts 216-252).
THEOREM CompletedRequestsClose == Spec => []DoneClosesRounds
<1>1. Init => TracesInv
  <2> SUFFICES ASSUME Init, NEW q \in Request, NEW n \in Node, NEW ph \in Rounds
               PROVE  ~Reached(q, ph, n)
    BY DEF TracesInv, TracedOK
  <2> QED
    BY RoundTyped DEF Init, NodeInit, Reached, Held, Astray, Rounds
<1>2. ProxyInv /\ RequestInv /\ TracesInv /\ [Next]_vars => TracesInv'
  BY NextKeepsTraces
<1>3. RequestInv /\ TracesInv => DoneClosesRounds
  <2> SUFFICES ASSUME RequestInv, TracesInv, NEW q \in Request, NEW n \in Node,
                      NEW ph \in Rounds, Done(q), Held(q, ph, n) # NoNonce
               PROVE  /\ ph = "commit"
                      /\ n \in faulty \ Participants(access[q])
                      /\ IsSignOn(q) => ask[q].participants = Unspecified
    BY DEF DoneClosesRounds, Held, Rounds
  <2>1. n \notin Participants(access[q])
    BY DEF RequestInv, RequestFits, Finished, Answered, Done, Participants
  <2>2. Traced(q, ph, n) /\ phase[q] = "done"
    BY DEF TracesInv, TracedOK, Reached, Done
  <2> QED
    BY <2>1, <2>2 DEF Traced, LeftOut
<1> QED
  BY <1>1, <1>2, <1>3, ProxyInvariant, RequestInvariant, PTL DEF Spec

-------------------------------------------------------------------------------
(***************************************************************************)
(* What a completed request is worth.                                      *)
(***************************************************************************)

\* A request that every participant answered has their shares of all of its messages.
LEMMA AnsweredAggregates ==
  ASSUME NEW q \in Request, RequestFits(q), phase[q] \in {"sign", "done"},
         Once(access[q]), \A c \in access[q] : Answered(q, c.node)
  PROVE  /\ Aggregates(replies[q], FirstMsg(q), access[q])
         /\ ~IsSignOn(q) => Aggregates(replies[q], RefreshOf(SignCall(q)), refresh[q])
         /\ replies[q] # {}
<1>1. Gathered(q, "commit", access[q])
  BY DEF RequestFits, Gatherings
<1>2. ASSUME NEW C, Once(C), IsFiniteSet(C), Cardinality(C) >= Threshold
      PROVE  Quorum(C)
  BY <1>2, OnceCounts DEF Quorum, Once
<1>3. \A c \in access[q] : Signed(replies[q], c, FirstMsg(q), access[q])
  BY DEF Answered, Once
<1>4. Aggregates(replies[q], FirstMsg(q), access[q])
  BY <1>1, <1>2, <1>3 DEF Aggregates, Gathered
<1>5. ASSUME ~IsSignOn(q)
      PROVE  Aggregates(replies[q], RefreshOf(SignCall(q)), refresh[q])
  <2>1. /\ Once(refresh[q]) /\ Gathered(q, "refresh", refresh[q])
        /\ Participants(refresh[q]) = Participants(access[q])
    BY <1>5 DEF RequestFits, Gatherings
  <2>2. ASSUME NEW d \in refresh[q]
        PROVE  Signed(replies[q], d, RefreshOf(SignCall(q)), refresh[q])
    <3>1. PICK c \in access[q] : c.node = d.node
      BY <2>1 DEF Participants
    <3>2. Answered(q, d.node)
      BY <3>1
    <3> QED
      BY <1>5, <2>1, <3>2 DEF Answered, Once
  <2> QED
    BY <1>2, <2>1, <2>2 DEF Aggregates, Gathered
<1>6. replies[q] # {}
  <2>1. access[q] # {}
    BY <1>1, FS_EmptySet, ThresholdAssumption DEF Gathered
  <2> QED
    BY <1>3, <2>1 DEF Signed
<1> QED
  BY <1>4, <1>5, <1>6

\* So has a completed one.
LEMMA DoneAggregates ==
  ASSUME NEW q \in Request, RequestFits(q), Done(q)
  PROVE  /\ Aggregates(replies[q], FirstMsg(q), access[q])
         /\ ~IsSignOn(q) => Aggregates(replies[q], RefreshOf(SignCall(q)), refresh[q])
         /\ replies[q] # {}
BY AnsweredAggregates DEF RequestFits, Finished, Done

\* What the SDK expects is for the user the nodes answered about, under its own key id.
LEMMA ExpectedHolder ==
  ASSUME NEW q \in Request, RequestFits(q), IsSignOn(q), replies[q] # {}
  PROVE  ExpectedAssertion(q) =
           AssertionMsg(SdkKeyId, [sub |-> ask[q].username, client_id |-> ask[q].client_id,
                                   jkt |-> ask[q].jkt], ask[q].iat, ask[q].exp)
<1>1. PICK s : s = (CHOOSE r \in replies[q] : TRUE)
  OBVIOUS
<1>2. s \in replies[q]
  BY <1>1
<1>3. s.msg = AssertionOf(SignOnCall(q))
  BY <1>2 DEF RequestFits, RepliesFit
<1>4. s.msg.holder.sub = ask[q].username
  BY <1>3 DEF AssertionOf, AssertionMsg, SignOnCall
<1> QED
  BY <1>1, <1>4 DEF ExpectedAssertion

\* What the gateway assembles /token answers for is what the nodes signed, under its key id.
LEMMA TokensExpected ==
  ASSUME ProxyInv, NEW q \in Request, GatewayKeyId = NodeKeyId
  PROVE  /\ AccessToken(q) = Assembled(AccessOf(SignCall(q)), replies[q], access[q])
         /\ RefreshToken(q) = Assembled(RefreshOf(SignCall(q)), replies[q], refresh[q])
<1>1. issuedAt[q] + REFRESH_TOKEN_LIFETIME_SECONDS \in Int
  BY IssueLifetimeAssumption, LifetimeAssumption DEF ProxyInv, GatheredOK
<1>2. RefreshExp(issuedAt[q] + REFRESH_TOKEN_LIFETIME_SECONDS, issuedAt[q])
        = issuedAt[q] + REFRESH_TOKEN_LIFETIME_SECONDS
  BY <1>1, UnpinnedAssumption DEF RefreshExp
<1>3. /\ SignCall(q).credential = ask[q].credential /\ SignCall(q).jti = q
      /\ SignCall(q).iat = issuedAt[q]
      /\ SignCall(q).exp = issuedAt[q] + ACCESS_TOKEN_LIFETIME_SECONDS
      /\ SignCall(q).refreshExp = issuedAt[q] + REFRESH_TOKEN_LIFETIME_SECONDS
  BY DEF SignCall
<1> QED
  BY <1>2, <1>3 DEF AccessToken, RefreshToken, AccessOf, RefreshOf

\* Both tokens of every /token answer verify, and so does the assertion of every sign-on
\* whose browser has the right password, provided the nodes, the gateway and the SDK name
\* the same key: although nobody looks (proxy.ts 393-403, client.ts 264-269), and however
\* many requests, late calls and restarts come between.
THEOREM CompletedRequestsVerify ==
  ASSUME GatewayKeyId = NodeKeyId, SdkKeyId = NodeKeyId
  PROVE  Spec => []CompletedVerify
<1>1. ProxyInv /\ RequestInv => CompletedVerify
  <2> SUFFICES ASSUME ProxyInv, RequestInv, NEW q \in Request, Done(q)
               PROVE  IF IsSignOn(q)
                      THEN ask[q].password =>
                             /\ Opens(q)
                             /\ Aggregates(replies[q], ExpectedAssertion(q), access[q])
                      ELSE AccessToken(q).sigOk /\ RefreshToken(q).sigOk
    BY DEF CompletedVerify
  <2>1. RequestFits(q)
    BY DEF RequestInv
  <2>2. CASE IsSignOn(q)
    <3>1. ExpectedAssertion(q) = AssertionOf(SignOnCall(q))
      BY <2>1, <2>2, DoneAggregates, ExpectedHolder
      DEF AssertionOf, AssertionMsg, SignOnCall
    <3>2. \A s \in replies[q] : s.msg = ExpectedAssertion(q)
      BY <2>1, <2>2, <3>1 DEF RequestFits, RepliesFit
    <3> QED
      BY <2>1, <2>2, <3>1, <3>2, DoneAggregates DEF Opens, FirstMsg
  <2>3. CASE ~IsSignOn(q)
    BY <2>1, <2>3, DoneAggregates, TokensExpected DEF Assembled, FirstMsg
  <2> QED
    BY <2>2, <2>3
<1> QED
  BY <1>1, ProxyInvariant, RequestInvariant, PTL

\* A well-formed request fails only when some node failed a call or restarted: requests
\* that run at the same time never take each other's rounds (proxy.ts 216, 301-302).
THEOREM FailuresHaveCauses == Spec => []FailureNeedsCause
<1>1. RequestInv => FailureNeedsCause
  BY DEF RequestInv, RequestFits, FailedRightly, FailureNeedsCause, Failed
<1> QED
  BY <1>1, RequestInvariant, PTL

\* Every share of a completed /token request was computed while its credential lived and
\* its proof was fresh, and its iat lies in that span (node.ts 370-392).
THEOREM TokensSignedWhileValid == Spec => []SignedWhileValid
<1>1. ProxyInv /\ RequestInv => SignedWhileValid
  <2> SUFFICES ASSUME ProxyInv, RequestInv, NEW q \in Request, Done(q), ~IsSignOn(q),
                      NEW s \in replies[q]
               PROVE  /\ s.at <= ask[q].credential.msg.exp
                      /\ Fresh(ask[q].proof.iat, s.at)
                      /\ s.msg.iat <= ask[q].credential.msg.exp
    BY DEF SignedWhileValid
  <2>1. /\ s.msg \in {AccessOf(SignCall(q)), RefreshOf(SignCall(q))}
        /\ issuedAt[q] <= s.at
        /\ VerifyCredential(ask[q].grant, ask[q].credential, s.at)
        /\ VerifyDPoPProof(ask[q].proof, ask[q].credential.msg.holder.jkt, s.at)
    BY DEF RequestInv, RequestFits, RepliesFit
  <2>2. ask[q].credential.sigOk /\ s.at <= ask[q].credential.msg.exp
    BY <2>1 DEF VerifyCredential, VerifyAssertion, VerifyRefreshToken, VerifyJwt
  <2>3. TokenAsked(shares, ask[q])
    BY DEF ProxyInv, AsksOK, IsSignOn, Body, Done
  <2>4. ask[q].credential.msg.exp \in Int
    BY <2>2, <2>3 DEF TokenAsked, Genuine, Credential, Message
  <2>5. s.at \in Int /\ issuedAt[q] \in Int
    BY DEF ProxyInv, GatheredOK, NodeTypeOK, Share
  <2>6. s.msg.iat = issuedAt[q]
    BY <2>1 DEF AccessOf, RefreshOf, AccessTokenMsg, RefreshTokenMsg, SignCall
  <2> QED
    BY <2>1, <2>2, <2>4, <2>5, <2>6 DEF VerifyDPoPProof
<1> QED
  BY <1>1, ProxyInvariant, RequestInvariant, PTL

-------------------------------------------------------------------------------
(***************************************************************************)
(* Where the JWTs in circulation come from.                                *)
(***************************************************************************)

\* A request that is done stays so, and nobody changes what it asked.
LEMMA DoneStays ==
  ASSUME ProxyInv, Next, NEW p \in Request, Done(p)
  PROVE  Done(p)' /\ ask'[p] = ask[p]
<1> USE DEF Done
<1>1. ASSUME NEW q \in Request, Served(q) \/ CommitSettles(q) \/ SignSettles(q)
      PROVE  phase'[p] = "done" /\ ask'[p] = ask[p]
  <2>1. CASE p # q
    BY <1>1, <2>1, OthersAside DEF Aside
  <2>2. CASE p = q
    BY <1>1, <2>2
    DEF Served, CommitSettles, SignSettles, StartSignOn, StartToken, EndCommit, EndSign,
        AssembleAssertion, CommitAnswered, CommitFails, SignAnswered, SignRefused, SignFails
  <2> QED
    BY <2>1, <2>2
<1>2. CASE UNCHANGED <<phase, ask>>
  BY <1>2
<1> QED
  BY <1>1, <1>2 DEF Next, StrayArrives, NodeRestarts, ClockTicks, proxyVars

\* A credential goes back to a completed sign-on.
PasswordGiven(h) == \E q \in Request :
  /\ Done(q) /\ IsSignOn(q) /\ ask[q].password
  /\ h = [sub |-> ask[q].username, client_id |-> ask[q].client_id, jkt |-> ask[q].jkt]

\* What a step adds to the wallet and verifies is for whom a password was given.
LEMMA AddedGoesBack ==
  ASSUME ProxyInv, RequestInv, WalletGoesBackToPassword, Next,
         NEW t \in wallet' \ wallet, t.sigOk
  PROVE  PasswordGiven(t.msg.holder)
<1>1. PICK q \in Request : EndSign(q) \/ AssembleAssertion(q)
  BY DEF Next, Served, CommitSettles, SignSettles, StartSignOn, StartToken, EndCommit,
         CommitAnswered, CommitFails, SignAnswered, SignRefused, SignFails, StrayArrives,
         NodeRestarts, ClockTicks, proxyVars
<1>2. RequestFits(q)
  BY DEF RequestInv
<1>3. CASE EndSign(q)
  <2>1. ~IsSignOn(q) /\ t \in {AccessToken(q), RefreshToken(q)} /\ phase[q] = "sign"
    BY <1>3 DEF EndSign
  <2>2. t.msg.holder = ask[q].credential.msg.holder
    BY <2>1 DEF AccessToken, RefreshToken, Assembled, AccessTokenMsg, RefreshTokenMsg
  <2>3. \E C : Aggregates(replies[q], t.msg, C)
    BY <2>1 DEF AccessToken, RefreshToken, Assembled
  <2>4. PICK C : Aggregates(replies[q], t.msg, C)
    BY <2>3
  <2>5. C # {}
    BY <2>4, FS_EmptySet, ThresholdAssumption DEF Aggregates, Quorum, Participants
  <2>6. PICK s \in replies[q] : TRUE
    BY <2>4, <2>5 DEF Aggregates, Signed
  <2>7. ask[q].credential.sigOk
    BY <1>2, <2>1, <2>6
    DEF RequestFits, RepliesFit, VerifyCredential, VerifyAssertion, VerifyRefreshToken,
        VerifyJwt
  <2>8. ask[q].credential \in wallet
    BY <1>2, <2>1, <2>7 DEF RequestFits, AskFits
  <2> QED
    BY <2>2, <2>7, <2>8 DEF WalletGoesBackToPassword, PasswordGiven
<1>4. CASE AssembleAssertion(q)
  <2>1. /\ Done(q) /\ IsSignOn(q) /\ ask[q].password
        /\ t.msg = ExpectedAssertion(q)
    BY <1>4 DEF AssembleAssertion, Opens, Assembled, Done
  <2>2. t.msg.holder = [sub |-> ask[q].username, client_id |-> ask[q].client_id,
                        jkt |-> ask[q].jkt]
    BY <1>2, <2>1, DoneAggregates, ExpectedHolder DEF AssertionMsg
  <2> QED
    BY <2>1, <2>2 DEF PasswordGiven
<1> QED
  BY <1>1, <1>3, <1>4

\* Every JWT that verifies, of whatever kind and however often exchanged and rotated, is
\* for the subject, client and DPoP key of a sign-on that was completed by a browser with
\* the right password (node.ts 289-305, 370-392, 430-454; client.ts 239-269).
THEOREM JwtsGoBackToPassword == Spec => []WalletGoesBackToPassword
<1>1. Init => WalletGoesBackToPassword
  BY DEF Init, WalletGoesBackToPassword
<1>2. ProxyInv /\ RequestInv /\ WalletGoesBackToPassword /\ [Next]_vars
        => WalletGoesBackToPassword'
  <2> SUFFICES ASSUME ProxyInv, RequestInv, WalletGoesBackToPassword, [Next]_vars
               PROVE  WalletGoesBackToPassword'
    OBVIOUS
  <2>1. CASE UNCHANGED vars
    BY <2>1 DEF vars, proxyVars, WalletGoesBackToPassword, Done, IsSignOn
  <2>2. CASE Next
    <3>1. \A h : PasswordGiven(h) => PasswordGiven(h)'
      BY <2>2, DoneStays DEF PasswordGiven, IsSignOn
    <3>2. \A t \in wallet' : t.sigOk => PasswordGiven(t.msg.holder)
      BY <2>2, AddedGoesBack DEF WalletGoesBackToPassword, PasswordGiven
    <3> QED
      BY <3>1, <3>2 DEF WalletGoesBackToPassword, PasswordGiven
  <2> QED
    BY <2>1, <2>2
<1> QED
  BY <1>1, <1>2, ProxyInvariant, RequestInvariant, PTL DEF Spec

-------------------------------------------------------------------------------
(***************************************************************************)
(* Types.                                                                  *)
(***************************************************************************)

\* What a handler was asked is typed, and what it waits on fits how far it has come.
AskTyped(q) ==
  IF phase[q] = "idle" THEN ask[q] = NoAsk ELSE ask[q] \in Body \cup TokenAsk

CallsTyped(q) == \A i \in DOMAIN calls[q] :
  /\ phase[q] \in {"commit", "refresh", "sign"}
  /\ calls[q][i].nonce # NoNonce => calls[q][i].state = "ok"

ShapesOK ==
  /\ \A q \in Request : AskTyped(q) /\ CallsTyped(q)
  /\ wallet \subseteq Credential
  /\ faulty \subseteq Node

\* A message is assembled into a credential, whatever the shares it is assembled from.
LEMMA AssembledTyped ==
  ASSUME NEW msg \in Message, NEW S, NEW C
  PROVE  Assembled(msg, S, C) \in Credential
<1>1. Aggregates(S, msg, C) \in BOOLEAN
  BY DEF Aggregates
<1> QED
  BY <1>1 DEF Assembled, Credential

\* The JWTs the gateway and the SDK assemble are credentials, verifying or not.
LEMMA AddedTyped ==
  ASSUME ProxyInv, RequestInv, ShapesOK, Next
  PROVE  wallet' \subseteq Credential
<1>1. ASSUME NEW q \in Request, EndSign(q)
      PROVE  wallet' \subseteq Credential
  <2>1. CASE IsSignOn(q)
    BY <1>1, <2>1 DEF EndSign, ShapesOK
  <2>2. CASE ~IsSignOn(q)
    <3>1. ask[q] \in TokenAsk
      BY <1>1, <2>2 DEF EndSign, ShapesOK, AskTyped, IsSignOn, Body
    <3>2. ask[q].credential.msg.holder \in Holder
      BY <3>1 DEF TokenAsk, Credential, Message
    <3>3. /\ issuedAt[q] \in Int /\ q \in Jti
          /\ issuedAt[q] + ACCESS_TOKEN_LIFETIME_SECONDS \in Int
          /\ issuedAt[q] + REFRESH_TOKEN_LIFETIME_SECONDS \in Int
      BY RequestAssumption, IssueLifetimeAssumption, LifetimeAssumption
      DEF ProxyInv, GatheredOK
    <3>5. AccessToken(q) \in Credential /\ RefreshToken(q) \in Credential
      BY <3>2, <3>3, AssembledTyped, KeyIdsAssumption
      DEF AccessToken, RefreshToken, AccessTokenMsg, RefreshTokenMsg, Message,
          REFRESH_TOKEN_TYP
    <3> QED
      BY <1>1, <2>2, <3>5 DEF EndSign, ShapesOK
  <2> QED
    BY <2>1, <2>2
<1>2. ASSUME NEW q \in Request, AssembleAssertion(q)
      PROVE  wallet' \subseteq Credential
  <2>1. RequestFits(q) /\ Done(q) /\ IsSignOn(q)
    BY <1>2 DEF RequestInv, AssembleAssertion, Done
  <2>2. ask[q] \in Body
    BY <2>1 DEF ShapesOK, AskTyped, IsSignOn, Done, TokenAsk
  <2>3. PICK s \in replies[q] : s.msg = AssertionOf(SignOnCall(q))
    BY <2>1, DoneAggregates DEF RequestFits, RepliesFit
  <2>4. s.msg \in Message
    BY DEF ProxyInv, GatheredOK, NodeTypeOK, Share
  <2>5. ask[q].username \in User
    BY <2>3, <2>4 DEF AssertionOf, AssertionMsg, SignOnCall, Message, Holder
  <2>6. ExpectedAssertion(q) \in Message
    BY <2>1, <2>2, <2>5, DoneAggregates, ExpectedHolder, KeyIdsAssumption
    DEF AssertionMsg, Message, Holder, Body
  <2> QED
    BY <1>2, <2>6, AssembledTyped DEF AssembleAssertion, ShapesOK
<1>3. CASE wallet' = wallet
  BY <1>3 DEF ShapesOK
<1> QED
  BY <1>1, <1>2, <1>3
  DEF Next, Served, CommitSettles, SignSettles, StartSignOn, StartToken, EndCommit,
      CommitAnswered, CommitFails, SignAnswered, SignRefused, SignFails, StrayArrives,
      NodeRestarts, ClockTicks, proxyVars

\* The wallet only ever gets credentials, whose altered copies are credentials too.
LEMMA PresentedTyped ==
  ASSUME wallet \subseteq Credential, NEW c \in Presented
  PROVE  c \in Credential
<1>1. CASE c \in wallet
  BY <1>1
<1>2. ASSUME NEW t \in wallet, NEW h \in Holder,
             c = [msg |-> [t.msg EXCEPT !.holder = h], sigOk |-> FALSE]
      PROVE  c \in Credential
  <2>1. t.msg \in Message
    BY DEF Credential
  <2>2. [t.msg EXCEPT !.holder = h] \in Message
    BY <2>1 DEF Message
  <2> QED
    BY <1>2, <2>2 DEF Credential
<1> QED
  BY <1>1, <1>2 DEF Presented, Altered

\* A handler that moves keeps its shape.
LEMMA HandlerShaped ==
  ASSUME ProxyInv, ShapesOK, NEW q \in Request, Served(q) \/ CommitSettles(q) \/ SignSettles(q)
  PROVE  AskTyped(q)' /\ CallsTyped(q)'
<1> USE DEF ShapesOK
<1>1. \A nodes : \A i \in DOMAIN CallAll(nodes) : CallAll(nodes)[i].nonce = NoNonce
  BY DEF CallAll, CallTo
<1>2. ASSUME NEW body \in SignOnBody, StartSignOn(q, body)
      PROVE  AskTyped(q)' /\ CallsTyped(q)'
  <2>1. ask'[q] \in Body /\ phase'[q] \in {"failed", "commit"}
    BY <1>2, BodyAssumption DEF StartSignOn, Fail, Leave, ProxyInv, PhasesOK, AsksOK
  <2>2. \/ calls'[q] = << >>
        \/ phase'[q] = "commit" /\ \E nodes : calls'[q] = CallAll(nodes)
    BY <1>2 DEF StartSignOn, Fail, Leave, ProxyInv, PhasesOK, CallsOK
  <2> QED
    BY <1>1, <2>1, <2>2 DEF AskTyped, CallsTyped
<1>3. ASSUME NEW grant \in Grant, NEW c \in Presented, NEW jkt \in Proofs,
             StartToken(q, grant, c, ProofNow(jkt))
      PROVE  AskTyped(q)' /\ CallsTyped(q)'
  <2>1. ask'[q] = [kind |-> "token", grant |-> grant, proof |-> ProofNow(jkt),
                   credential |-> c]
        /\ phase'[q] \in {"failed", "commit"}
    BY <1>3 DEF StartToken, Fail, Leave, ProxyInv, PhasesOK, AsksOK
  <2>2. ProofNow(jkt) \in Proof /\ c \in Credential
    BY ProofsAssumption, PresentedTyped DEF ProofNow, Proof, ProxyInv, NodeTypeOK
  <2>3. ask'[q] \in TokenAsk
    BY <2>1, <2>2 DEF TokenAsk
  <2>4. \/ calls'[q] = << >>
        \/ phase'[q] = "commit" /\ \E nodes : calls'[q] = CallAll(nodes)
    BY <1>3 DEF StartToken, Fail, Leave, ProxyInv, PhasesOK, CallsOK
  <2> QED
    BY <1>1, <2>1, <2>3, <2>4 DEF AskTyped, CallsTyped
<1>4. ASSUME EndCommit(q) \/ EndSign(q) \/ SignSettles(q), ~(\E i \in Sent(q) : SignAnswered(q, i))
      PROVE  AskTyped(q)' /\ CallsTyped(q)'
  <2>1. /\ ask' = ask /\ phase[q] # "idle"
        /\ phase'[q] \in {"refresh", "sign", "done", "failed"}
        /\ \/ calls'[q] = << >>
           \/ phase'[q] \in {"refresh", "sign"} /\ \E nodes : calls'[q] = CallAll(nodes)
    BY <1>4
    DEF EndCommit, EndSign, SignSettles, SignAnswered, SignRefused, SignFails, Fail, Leave,
        ProxyInv, PhasesOK, CallsOK
  <2> QED
    BY <1>1, <2>1 DEF AskTyped, CallsTyped
<1>5. ASSUME NEW i \in DOMAIN calls[q],
             CommitAnswered(q, i) \/ CommitFails(q, i) \/ SignAnswered(q, i)
      PROVE  AskTyped(q)' /\ CallsTyped(q)'
  <2>1. /\ ask' = ask /\ phase' = phase /\ phase[q] \in {"commit", "refresh", "sign"}
        /\ i \in Sent(q)
        /\ \E state \in {"ok", "failed"}, nonce \in {NoNonce, nonceCount'[calls[q][i].node]} :
             Settle(q, i, state, nonce) /\ (nonce # NoNonce => state = "ok")
    BY <1>5 DEF CommitAnswered, CommitFails, SignAnswered
  <2>2. PICK state \in {"ok", "failed"}, nonce \in {NoNonce, nonceCount'[calls[q][i].node]} :
          Settle(q, i, state, nonce) /\ (nonce # NoNonce => state = "ok")
    BY <2>1
  <2>3. /\ DOMAIN calls'[q] = DOMAIN calls[q]
        /\ \A j \in DOMAIN calls[q] : j # i => calls'[q][j] = calls[q][j]
        /\ calls'[q][i].state = state /\ calls'[q][i].nonce = nonce
    BY <2>1, <2>2, SettleEffect DEF ProxyInv
  <2> QED
    BY <2>1, <2>2, <2>3 DEF AskTyped, CallsTyped
<1>6. CASE AssembleAssertion(q)
  BY <1>6 DEF AssembleAssertion, AskTyped, CallsTyped
<1> QED
  BY <1>2, <1>3, <1>4, <1>5, <1>6 DEF Served, CommitSettles, SignSettles, Sent

\* Every step keeps the shapes.
LEMMA NextKeepsShapes ==
  ASSUME ProxyInv, RequestInv, ShapesOK, [Next]_vars
  PROVE  ShapesOK'
<1>1. CASE UNCHANGED vars
  BY <1>1 DEF vars, proxyVars, ShapesOK, AskTyped, CallsTyped
<1>2. CASE Next
  <2>1. wallet' \subseteq Credential
    BY <1>2, AddedTyped
  <2>2. faulty' \subseteq Node
    BY <1>2, UnreliableAssumption
    DEF ShapesOK, Next, Served, CommitSettles, SignSettles, StartSignOn, StartToken, EndCommit,
        EndSign, AssembleAssertion, CommitAnswered, CommitFails, SignAnswered, SignRefused,
        SignFails, StrayArrives, NodeRestarts, ClockTicks, proxyVars
  <2>3. ASSUME NEW q \in Request, Served(q) \/ CommitSettles(q) \/ SignSettles(q),
               NEW p \in Request
        PROVE  AskTyped(p)' /\ CallsTyped(p)'
    <3>1. CASE p = q
      BY <2>3, <3>1, HandlerShaped
    <3>2. CASE p # q
      <4>1. Aside(p)
        BY <2>3, <3>2, OthersAside
      <4> QED
        BY <4>1 DEF Aside, ShapesOK, AskTyped, CallsTyped
    <3> QED
      BY <3>1, <3>2
  <2>4. CASE UNCHANGED <<phase, ask, calls>>
    BY <2>1, <2>2, <2>4 DEF ShapesOK, AskTyped, CallsTyped
  <2> QED
    BY <1>2, <2>1, <2>2, <2>3, <2>4
    DEF ShapesOK, Next, StrayArrives, NodeRestarts, ClockTicks, proxyVars
<1> QED
  BY <1>1, <1>2

\* Every variable keeps its shape, of every request (proxy.ts 108-403, node.ts 200-226).
THEOREM ProxyTypesKept == Spec => []ProxyTypeOK
<1>1. Init => ShapesOK
  BY DEF Init, ShapesOK, AskTyped, CallsTyped
<1>2. ProxyInv /\ RequestInv /\ ShapesOK /\ [Next]_vars => ShapesOK'
  BY NextKeepsShapes
<1>3. Spec => []ShapesOK
  BY <1>1, <1>2, ProxyInvariant, RequestInvariant, PTL DEF Spec
<1>4. ProxyInv /\ ShapesOK => ProxyTypeOK
  <2> SUFFICES ASSUME ProxyInv, ShapesOK PROVE ProxyTypeOK
    OBVIOUS
  <2> USE DEF ProxyInv, ShapesOK
  <2>1. NodeTypeOK /\ phase \in [Request -> Phase]
    BY DEF PhasesOK
  <2>2. ASSUME NEW q \in Request
        PROVE  /\ IF phase[q] = "idle" THEN ask[q] = NoAsk ELSE ask[q] \in Body \cup TokenAsk
               /\ \A i \in DOMAIN calls[q] :
                    /\ phase[q] \in {"commit", "refresh", "sign"}
                    /\ calls[q][i].state = "sent" => calls[q][i].node \in Node
                    /\ calls[q][i].nonce # NoNonce => calls[q][i].state = "ok"
    BY DEF AskTyped, CallsTyped, CallsOK, CallOK
  <2>3. /\ access \in [Request -> SUBSET Commitment]
        /\ refresh \in [Request -> SUBSET Commitment]
        /\ issuedAt \in [Request -> Nat]
        /\ \A q \in Request : replies[q] \subseteq shares
        /\ \A m \in stray : m.request \in Request /\ m.node \in Node
    BY DEF GatheredOK, StraysOK
  <2> QED
    BY <2>1, <2>2, <2>3 DEF ProxyTypeOK
<1> QED
  BY <1>3, <1>4, ProxyInvariant, PTL

-------------------------------------------------------------------------------
(***************************************************************************)
(* The abstract issuer.                                                    *)
(***************************************************************************)

\* What is asked comes from a browser, and time is bounded as in the model: so whatever
\* the nodes sign is one of the abstract issuer's messages.
SignableInv ==
  /\ now <= MaxTime
  /\ \A q \in Request : phase[q] # "idle" /\ IsSignOn(q) => ask[q] \in SignOnBody
  /\ \A s \in shares : s.msg \in Signable

\* The messages of an accepted call are signable, of the kinds they should be and for the
\* holder of the credential.
LEMMA AnswersSignable ==
  ASSUME ProxyInv, RequestInv, SignableInv, NEW q \in Request, NEW n \in Node,
         phase[q] # "idle", NodeAnswers(q, n)
  PROVE  /\ FirstMsg(q) \in Signable
         /\ IsSignOn(q) => FirstMsg(q).typ = "JWT"
         /\ ~IsSignOn(q) =>
              /\ RefreshOf(SignCall(q)) \in Signable
              /\ FirstMsg(q).typ = "at+jwt"
              /\ RefreshOf(SignCall(q)).typ = REFRESH_TOKEN_TYP
              /\ FirstMsg(q).holder = ask[q].credential.msg.holder
              /\ RefreshOf(SignCall(q)).holder = ask[q].credential.msg.holder
              /\ FirstMsg(q).iat = RefreshOf(SignCall(q)).iat
<1>1. CASE IsSignOn(q)
  <2>1. ask[q] \in SignOnBody /\ ask[q].username \in User
    BY <1>1 DEF SignableInv, NodeAnswers, AnswerSignOn, SignOnAccepted, SignOnCall
  <2>2. FirstMsg(q) = AssertionMsg(NodeKeyId,
          [sub |-> ask[q].username, client_id |-> ask[q].client_id, jkt |-> ask[q].jkt],
          ask[q].iat, ask[q].exp)
    BY <1>1 DEF FirstMsg, AssertionOf, SignOnCall
  <2> QED
    <3>1. ask[q] \in {b \in SignOnBody : b.username \in User}
      BY <2>1
    <3>2. FirstMsg(q) \in Signable
      BY <2>2, <3>1 DEF Signable
    <3>3. FirstMsg(q).typ = "JWT"
      BY <2>2 DEF AssertionMsg
    <3> QED
      BY <1>1, <3>2, <3>3
<1>2. CASE ~IsSignOn(q)
  <2>1. VerifyCredential(ask[q].grant, ask[q].credential, now)
    BY <1>2 DEF NodeAnswers, AnswerSign, SignAccepted, SignCall
  <2>2. ask[q].credential.sigOk
    BY <2>1 DEF VerifyCredential, VerifyAssertion, VerifyRefreshToken, VerifyJwt
  <2>3. TokenAsked(shares, ask[q])
    BY <1>2 DEF ProxyInv, AsksOK, IsSignOn, Body
  <2>4. ask[q].credential.msg.holder \in Holder
    BY <2>2, <2>3 DEF TokenAsked, Genuine, Credential, Message
  <2>5. issuedAt[q] \in 0 .. MaxTime
    BY BoundAssumption
    DEF ProxyInv, GatheredOK, NodeTypeOK, RequestInv, RequestFits, AskFits, SignableInv
  <2>6. RefreshExp(SignCall(q).refreshExp, SignCall(q).iat)
          = issuedAt[q] + REFRESH_TOKEN_LIFETIME_SECONDS
    <3>1. issuedAt[q] + REFRESH_TOKEN_LIFETIME_SECONDS \in Int
      BY <2>5, IssueLifetimeAssumption, LifetimeAssumption
    <3> QED
      BY <3>1, UnpinnedAssumption DEF RefreshExp, SignCall
  <2>7. FirstMsg(q) = AccessTokenMsg(NodeKeyId, ask[q].credential.msg.holder, issuedAt[q],
                        issuedAt[q] + ACCESS_TOKEN_LIFETIME_SECONDS, q)
    BY <1>2 DEF FirstMsg, AccessOf, SignCall
  <2>8. RefreshOf(SignCall(q)) = RefreshTokenMsg(NodeKeyId, ask[q].credential.msg.holder,
                                   issuedAt[q], issuedAt[q] + REFRESH_TOKEN_LIFETIME_SECONDS)
    <3>1. SignCall(q).credential = ask[q].credential /\ SignCall(q).iat = issuedAt[q]
      BY DEF SignCall
    <3> QED
      BY <2>6, <3>1 DEF RefreshOf
  <2>9. FirstMsg(q) \in Signable /\ RefreshOf(SignCall(q)) \in Signable
    BY <2>4, <2>5, <2>7, <2>8 DEF Signable
  <2> QED
    BY <1>2, <2>7, <2>8, <2>9 DEF AccessTokenMsg, RefreshTokenMsg
<1> QED
  BY <1>1, <1>2

\* Shares are computed for a request that was taken in, by a node that answers it.
LEMMA SharesAnswer ==
  ASSUME ProxyInv, [Next]_vars
  PROVE  \/ shares' = shares
         \/ /\ wallet' = wallet
            /\ \E q \in Request, n \in Node : phase[q] # "idle" /\ NodeAnswers(q, n)
<1>1. ASSUME NEW q \in Request, NEW i \in DOMAIN calls[q], SignAnswered(q, i)
      PROVE  /\ wallet' = wallet
             /\ \E n \in Node : phase[q] # "idle" /\ NodeAnswers(q, n)
  BY <1>1, SentToNode DEF SignAnswered
<1>2. ASSUME NEW m \in stray, StrayArrives(m)
      PROVE  \/ shares' = shares
             \/ /\ wallet' = wallet
                /\ m.request \in Request /\ m.node \in Node /\ phase[m.request] # "idle"
                /\ NodeAnswers(m.request, m.node)
  BY <1>2
  DEF StrayArrives, StrayCommit, StraySign, ProxyInv, StraysOK, GenerateCommitment,
      NodeRefuses, SpoilSignOn, RefuseSignOn, SpoilSign, RefuseSign, nodeVars
<1>3. ASSUME NEW q \in Request,
             Served(q) \/ CommitSettles(q)
             \/ \E i \in DOMAIN calls[q] : SignRefused(q, i) \/ SignFails(q, i)
      PROVE  shares' = shares
  BY <1>3
  DEF Served, CommitSettles, StartSignOn, StartToken, EndCommit, EndSign, AssembleAssertion,
      CommitAnswered, CommitFails, SignRefused, SignFails, GenerateCommitment,
      NodeRefuses, SpoilSignOn, RefuseSignOn, SpoilSign, RefuseSign, nodeVars
<1>4. ASSUME UNCHANGED vars \/ ClockTicks \/ \E n \in Node : NodeRestarts(n)
      PROVE  shares' = shares
  BY <1>4 DEF vars, ClockTicks, Tick, NodeRestarts, Restart, nodeVars
<1> QED
  BY <1>1, <1>2, <1>3, <1>4 DEF Next, SignSettles

\* Every step keeps what is signed signable.
LEMMA NextKeepsSignable ==
  ASSUME ProxyInv, NonceInv, RequestInv, SignableInv, [Next]_vars
  PROVE  SignableInv'
<1>1. now' <= MaxTime
  <2>1. now \in Nat /\ MaxTime \in Nat
    BY BoundAssumption DEF ProxyInv, NodeTypeOK
  <2>2. now' = now \/ Tick
    BY NextIsStep
    DEF vars, nodeState, NodeStep, GenerateCommitment, HandleSignOn, HandleSign, AnswerSignOn,
        SpoilSignOn, RefuseSignOn, AnswerSign, SpoilSign, RefuseSign, Restart, nodeVars
  <2> QED
    BY <2>1, <2>2 DEF Tick, SignableInv
<1>2. ASSUME NEW p \in Request, phase'[p] # "idle", IsSignOn(p)'
      PROVE  ask'[p] \in SignOnBody
  <2>1. CASE UNCHANGED <<phase, ask>>
    BY <1>2, <2>1 DEF SignableInv, IsSignOn
  <2>2. ASSUME NEW q \in Request, Served(q) \/ CommitSettles(q) \/ SignSettles(q), p # q
        PROVE  ask'[p] \in SignOnBody
    <3>1. Aside(p)
      BY <2>2, OthersAside
    <3> QED
      BY <1>2, <3>1 DEF Aside, SignableInv, IsSignOn
  <2>3. ASSUME NEW body \in SignOnBody, StartSignOn(p, body)
        PROVE  ask'[p] \in SignOnBody
    BY <2>3 DEF StartSignOn, ProxyInv, AsksOK
  <2>4. ASSUME NEW grant \in Grant, NEW c \in Presented, NEW jkt \in Proofs,
               StartToken(p, grant, c, ProofNow(jkt))
        PROVE  ask'[p] \in SignOnBody
    BY <1>2, <2>4 DEF StartToken, ProxyInv, AsksOK, IsSignOn
  <2>5. CASE EndCommit(p) \/ EndSign(p) \/ AssembleAssertion(p) \/ CommitSettles(p)
             \/ SignSettles(p)
    <3>1. ask' = ask /\ phase[p] # "idle"
      BY <2>5 DEF EndCommit, EndSign, AssembleAssertion, CommitSettles, SignSettles,
                  CommitAnswered, CommitFails, SignAnswered, SignRefused, SignFails
    <3> QED
      BY <1>2, <3>1 DEF SignableInv, IsSignOn
  <2>6. CASE UNCHANGED vars
    BY <2>1, <2>6 DEF vars, proxyVars
  <2>7. CASE Next
    BY <2>1, <2>2, <2>3, <2>4, <2>5, <2>7
    DEF Next, Served, StrayArrives, NodeRestarts, ClockTicks, proxyVars
  <2> QED
    BY <2>6, <2>7
<1>3. \A s \in shares' : s.msg \in Signable
  <2>1. CASE shares' = shares
    BY <2>1 DEF SignableInv
  <2>2. ASSUME NEW q \in Request, NEW n \in Node, phase[q] # "idle", NodeAnswers(q, n)
        PROVE  \A s \in shares' : s.msg \in Signable
    <3>1. FirstMsg(q) \in Signable /\ (~IsSignOn(q) => RefreshOf(SignCall(q)) \in Signable)
      BY <2>2, AnswersSignable
    <3>2. \A s \in shares' \ shares : s.msg \in Signable
      BY <2>2, <3>1, AnswerEffect DEF ShareOf, NonceInv
    <3> QED
      BY <3>2 DEF SignableInv
  <2> QED
    BY <2>1, <2>2, SharesAnswer
<1> QED
  BY <1>1, <1>2, <1>3 DEF SignableInv

\* The abstract issuer counts as everybody does.
LEMMA PromisedCounts ==
  ASSUME NEW S
  PROVE  Promised!Cardinality(S) = Cardinality(S)
BY DEF Promised!Cardinality, Cardinality

\* The nodes that signed a message, as the abstract issuer counts them.
LEMMA AggregateEndorsed ==
  ASSUME NEW q \in Request, replies[q] \subseteq shares, NEW msg, NEW C,
         Aggregates(replies[q], msg, C), shares \subseteq Share
  PROVE  /\ Cardinality(Promised!Endorsers(msg)) >= Threshold
         /\ \E s \in replies[q] : s.msg = msg
<1>1. Participants(C) \subseteq Promised!Endorsers(msg)
  <2> SUFFICES ASSUME NEW c \in C
               PROVE  c.node \in Promised!Endorsers(msg)
    BY DEF Participants
  <2>1. PICK s \in replies[q] : s.node = c.node /\ s.msg = msg
    BY DEF Aggregates, Signed
  <2>2. s \in shares /\ s.node \in Node
    BY DEF Share
  <2> QED
    BY <2>1, <2>2 DEF Promised!Endorsers
<1>2. Promised!Endorsers(msg) \subseteq Node
  BY DEF Promised!Endorsers
<1>3. IsFiniteSet(Promised!Endorsers(msg))
  BY <1>2, NodeAssumption, FS_Subset
<1>4. /\ Cardinality(Participants(C)) <= Cardinality(Promised!Endorsers(msg))
      /\ Cardinality(Participants(C)) \in Nat
      /\ Cardinality(Promised!Endorsers(msg)) \in Nat
  BY <1>1, <1>3, FS_Subset, FS_CardinalityType
<1>5. Cardinality(Participants(C)) >= Threshold /\ Threshold \in Nat
  BY ThresholdAssumption DEF Aggregates, Quorum
<1>6. \E s \in replies[q] : s.msg = msg
  BY QuorumNotEmpty DEF Aggregates, Signed
<1> QED
  BY <1>4, <1>5, <1>6

\* A signing call that is answered endorses its messages.
LEMMA AnswerEndorses ==
  ASSUME ProxyInv, NonceInv, RequestInv, SignableInv, NEW q \in Request, NEW n \in Node,
         phase[q] # "idle", NodeAnswers(q, n), wallet' = wallet, shares \subseteq shares'
  PROVE  Promised!Next
<1>1. PICK f, g, k, l : /\ f = FirstMsg(q) /\ g = RefreshOf(SignCall(q))
                        /\ k = ShareOf(n, Held(q, "commit", n), FirstMsg(q), access[q])
                        /\ l = ShareOf(n, Held(q, "refresh", n), RefreshOf(SignCall(q)),
                                       refresh[q])
  OBVIOUS
<1>2. k.node = n /\ k.msg = f /\ l.node = n /\ l.msg = g
  BY <1>1 DEF ShareOf
<1>3. shares' = shares \cup {k} \cup (IF IsSignOn(q) THEN {} ELSE {l})
  BY <1>1, AnswerEffect DEF NonceInv
<1>4. {t.msg : t \in {w \in wallet' : w.sigOk}} = {t.msg : t \in {w \in wallet : w.sigOk}}
  OBVIOUS
<1>5. CASE IsSignOn(q)
  <2>1. {<<s.node, s.msg>> : s \in shares'} = {<<s.node, s.msg>> : s \in shares} \cup {<<n, f>>}
    BY <1>2, <1>3, <1>5
  <2>2. f \in Promised!OfTyp("JWT")
    BY <1>1, <1>5, AnswersSignable DEF Promised!OfTyp
  <2>3. Promised!EndorseAssertion(n, f)
    BY <1>4, <2>1 DEF Promised!EndorseAssertion
  <2> QED
    BY <2>2, <2>3 DEF Promised!Next
<1>6. CASE ~IsSignOn(q)
  <2>1. {<<s.node, s.msg>> : s \in shares'}
          = {<<s.node, s.msg>> : s \in shares} \cup {<<n, f>>, <<n, g>>}
    BY <1>2, <1>3, <1>6
  <2>2. f \in Promised!OfTyp("at+jwt") /\ g \in Promised!OfTyp(REFRESH_TOKEN_TYP)
    BY <1>1, <1>6, AnswersSignable DEF Promised!OfTyp
  <2>3. f.holder = ask[q].credential.msg.holder /\ f.holder = g.holder /\ f.iat = g.iat
    BY <1>1, <1>6, AnswersSignable
  <2>4. VerifyCredential(ask[q].grant, ask[q].credential, now)
    BY <1>6, AnswerEffect DEF NonceInv
  <2>5. /\ ask[q].credential.sigOk
        /\ ask[q].credential.msg.typ \in {"JWT", REFRESH_TOKEN_TYP}
    BY <2>4 DEF VerifyCredential, VerifyAssertion, VerifyRefreshToken, VerifyJwt
  <2>6. ask[q].credential \in wallet
    BY <1>6, <2>5 DEF RequestInv, RequestFits, AskFits
  <2>7. ask[q].credential.msg \in {t.msg : t \in {w \in wallet : w.sigOk}}
    BY <2>5, <2>6
  <2>8. Promised!EndorseTokens(n, f, g)
    BY <1>4, <2>1, <2>3, <2>5, <2>7 DEF Promised!EndorseTokens
  <2> QED
    BY <2>2, <2>8 DEF Promised!Next
<1> QED
  BY <1>5, <1>6

\* An assertion that verifies is issued when the browser assembles it.
LEMMA AssemblyIssues ==
  ASSUME ProxyInv, RequestInv, SignableInv, NEW q \in Request, AssembleAssertion(q)
  PROVE  [Promised!Next]_Promised!vars
<1>1. PICK t : t = Assembled(ExpectedAssertion(q), replies[q], access[q])
  OBVIOUS
<1>2. shares' = shares /\ wallet' = wallet \cup {t}
  BY <1>1 DEF AssembleAssertion, nodeVars
<1>3. t.msg = ExpectedAssertion(q) /\ (t.sigOk <=> Aggregates(replies[q], t.msg, access[q]))
  BY <1>1 DEF Assembled
<1>4. {<<s.node, s.msg>> : s \in shares'} = {<<s.node, s.msg>> : s \in shares}
  BY <1>2
<1>5. CASE t.sigOk
  <2>1. {w.msg : w \in {v \in wallet' : v.sigOk}}
          = {w.msg : w \in {v \in wallet : v.sigOk}} \cup {t.msg}
    BY <1>2, <1>5
  <2>2. /\ Cardinality(Promised!Endorsers(t.msg)) >= Threshold
        /\ \E s \in replies[q] : s.msg = t.msg
    BY <1>3, <1>5, AggregateEndorsed DEF ProxyInv, GatheredOK, NodeTypeOK
  <2>3. t.msg \in Signable
    BY <2>2 DEF SignableInv, ProxyInv, GatheredOK
  <2>4. t.msg \in Promised!OfTyp("JWT")
    BY <1>3, <2>3 DEF Promised!OfTyp, ExpectedAssertion, AssertionMsg
  <2>5. Promised!Issue({t.msg})
    <3>1. \A msg \in {t.msg} : Cardinality(Promised!Endorsers(msg)) >= Threshold
      BY <2>2
    <3> QED
      BY <1>4, <2>1, <3>1, PromisedCounts DEF Promised!Issue
  <2> QED
    BY <2>4, <2>5 DEF Promised!Next
<1>6. CASE ~t.sigOk
  <2>1. {w.msg : w \in {v \in wallet' : v.sigOk}} = {w.msg : w \in {v \in wallet : v.sigOk}}
    BY <1>2, <1>6
  <2> QED
    BY <1>4, <2>1 DEF Promised!vars
<1> QED
  BY <1>5, <1>6

\* The two tokens of a /token answer are issued at once, or neither verifies.
LEMMA TokensIssue ==
  ASSUME ProxyInv, RequestInv, SignableInv, NEW q \in Request, EndSign(q)
  PROVE  [Promised!Next]_Promised!vars
<1>1. PICK at, rt : at = AccessToken(q) /\ rt = RefreshToken(q)
  OBVIOUS
<1>2. /\ shares' = shares
      /\ wallet' = IF IsSignOn(q) THEN wallet ELSE wallet \cup {at, rt}
  BY <1>1 DEF EndSign, nodeVars
<1>3. {<<s.node, s.msg>> : s \in shares'} = {<<s.node, s.msg>> : s \in shares}
  BY <1>2
<1>4. CASE IsSignOn(q) \/ (~at.sigOk /\ ~rt.sigOk)
  <2>1. {w.msg : w \in {v \in wallet' : v.sigOk}} = {w.msg : w \in {v \in wallet : v.sigOk}}
    BY <1>2, <1>4
  <2> QED
    BY <1>3, <2>1 DEF Promised!vars
<1>5. CASE ~IsSignOn(q) /\ (at.sigOk \/ rt.sigOk)
  <2>1. GatewayKeyId = NodeKeyId
    <3>1. PICK msg \in {at.msg, rt.msg}, C \in {access[q], refresh[q]} :
            Aggregates(replies[q], msg, C)
      BY <1>1, <1>5 DEF AccessToken, RefreshToken, Assembled
    <3>2. PICK s \in replies[q] : s.msg = msg
      BY <3>1, AggregateEndorsed DEF ProxyInv, GatheredOK, NodeTypeOK
    <3>3. s.msg \in {AccessOf(SignCall(q)), RefreshOf(SignCall(q))}
      BY <1>5 DEF RequestInv, RequestFits, RepliesFit
    <3>4. s.msg.kid = NodeKeyId
      BY <3>3 DEF AccessOf, RefreshOf, AccessTokenMsg, RefreshTokenMsg
    <3>5. at.msg.kid = GatewayKeyId /\ rt.msg.kid = GatewayKeyId
      BY <1>1 DEF AccessToken, RefreshToken, Assembled, AccessTokenMsg, RefreshTokenMsg
    <3> QED
      BY <3>1, <3>2, <3>4, <3>5
  <2>2. /\ Aggregates(replies[q], AccessOf(SignCall(q)), access[q])
        /\ Aggregates(replies[q], RefreshOf(SignCall(q)), refresh[q])
    <3>1. RequestFits(q) /\ phase[q] = "sign" /\ Settled(q)
      BY DEF RequestInv, EndSign
    <3> QED
      BY <1>5, <3>1, SettledAnswered, AnsweredAggregates DEF FirstMsg
  <2>3. /\ at.sigOk /\ at.msg = AccessOf(SignCall(q))
        /\ rt.sigOk /\ rt.msg = RefreshOf(SignCall(q))
    BY <1>1, <2>1, <2>2, TokensExpected DEF Assembled
  <2>4. {w.msg : w \in {v \in wallet' : v.sigOk}}
          = {w.msg : w \in {v \in wallet : v.sigOk}} \cup {at.msg, rt.msg}
    BY <1>2, <1>5, <2>3
  <2>5. /\ Cardinality(Promised!Endorsers(at.msg)) >= Threshold
        /\ Cardinality(Promised!Endorsers(rt.msg)) >= Threshold
        /\ \E s \in replies[q] : s.msg = at.msg
        /\ \E s \in replies[q] : s.msg = rt.msg
    BY <2>2, <2>3, AggregateEndorsed DEF ProxyInv, GatheredOK, NodeTypeOK
  <2>6. at.msg \in Signable /\ rt.msg \in Signable
    BY <2>5 DEF SignableInv, ProxyInv, GatheredOK
  <2>7. /\ at.msg \in Promised!OfTyp("at+jwt")
        /\ rt.msg \in Promised!OfTyp(REFRESH_TOKEN_TYP)
        /\ at.msg.holder = rt.msg.holder
    BY <2>3, <2>6
    DEF Promised!OfTyp, AccessOf, RefreshOf, AccessTokenMsg, RefreshTokenMsg
  <2>8. Promised!Issue({at.msg, rt.msg})
    <3>1. \A msg \in {at.msg, rt.msg} : Cardinality(Promised!Endorsers(msg)) >= Threshold
      BY <2>5
    <3> QED
      BY <1>3, <2>4, <3>1, PromisedCounts DEF Promised!Issue
  <2> QED
    BY <2>7, <2>8 DEF Promised!Next
<1> QED
  BY <1>4, <1>5

\* The nodes and the gateway implement the abstract issuer: every step endorses, issues,
\* or changes nothing the abstract issuer has (proxy.ts 108-403, node.ts 228-470).
THEOREM ProxyImplementsIssuer == Spec => ImplementsIssuer
<1>1. Init => Promised!Init /\ SignableInv
  BY BoundAssumption DEF Init, NodeInit, Promised!Init, SignableInv
<1>2. ProxyInv /\ NonceInv /\ RequestInv /\ SignableInv /\ [Next]_vars => SignableInv'
  BY NextKeepsSignable
<1>3. Spec => []NonceInv
  BY ProxyImplementsNodeSpec, NonceInvariant, PTL
<1>4. ProxyInv /\ NonceInv /\ RequestInv /\ SignableInv /\ [Next]_vars
        => [Promised!Next]_Promised!vars
  <2> SUFFICES ASSUME ProxyInv, NonceInv, RequestInv, SignableInv, [Next]_vars
               PROVE  [Promised!Next]_Promised!vars
    OBVIOUS
  <2>1. CASE wallet' = wallet
    <3>1. CASE shares' = shares
      BY <2>1, <3>1 DEF Promised!vars
    <3>2. CASE shares' # shares
      <4>1. PICK q \in Request, n \in Node : phase[q] # "idle" /\ NodeAnswers(q, n)
        BY <3>2, SharesAnswer
      <4>2. shares \subseteq shares'
        BY <4>1 DEF NodeAnswers, AnswerSignOn, AnswerSign
      <4> QED
        BY <2>1, <4>1, <4>2, AnswerEndorses
    <3> QED
      BY <3>1, <3>2
  <2>2. CASE wallet' # wallet
    <3>1. PICK q \in Request : EndSign(q) \/ AssembleAssertion(q)
      BY <2>2
      DEF Next, vars, Served, CommitSettles, SignSettles, StartSignOn, StartToken, EndCommit,
          CommitAnswered, CommitFails, SignAnswered, SignRefused, SignFails, StrayArrives,
          NodeRestarts, ClockTicks, proxyVars
    <3> QED
      BY <3>1, TokensIssue, AssemblyIssues
  <2> QED
    BY <2>1, <2>2
<1> QED
  BY <1>1, <1>2, <1>3, <1>4, ProxyInvariant, RequestInvariant, PTL
  DEF Spec, ImplementsIssuer, Promised!Spec

\* What is proved of the abstract issuer, about its variables as they are here.
IssuerProofs == INSTANCE ThresholdIssuer_proofs WITH
  Message <- Signable,
  AssertionTyp <- "JWT", AccessTyp <- "at+jwt", RefreshTyp <- REFRESH_TOKEN_TYP,
  endorsed <- {<<s.node, s.msg>> : s \in shares},
  issued <- {t.msg : t \in {w \in wallet : w.sigOk}}

\* So what the abstract issuer promises holds of the JWTs in circulation: each that
\* verifies was signed by a threshold of nodes, and for the holder of an assertion that
\* verifies too (node.ts 370-373, 534-588, proxy.ts 284-345).
COROLLARY WalletIssuedRightly == Spec => []Promised!IssuedRightly
<1>1. Promised!Init => IssuerProofs!IssuerInv
  BY DEF Promised!Init, IssuerProofs!IssuerInv, IssuerProofs!TypeOK,
         IssuerProofs!IssuedRightly, IssuerProofs!EndorsedRightly
<1>2. [Promised!Next]_Promised!vars => [IssuerProofs!Next]_IssuerProofs!vars
  BY DEF Promised!Next, IssuerProofs!Next, Promised!vars, IssuerProofs!vars,
         Promised!OfTyp, IssuerProofs!OfTyp, Promised!EndorseAssertion,
         IssuerProofs!EndorseAssertion, Promised!EndorseTokens, IssuerProofs!EndorseTokens,
         Promised!Issue, IssuerProofs!Issue, Promised!Endorsers, IssuerProofs!Endorsers,
         Promised!Cardinality, IssuerProofs!Cardinality
<1>3. IssuerProofs!IsFiniteSet(Node) /\ Threshold \in Nat \ {0}
  BY NodeAssumption, ThresholdAssumption DEF IssuerProofs!IsFiniteSet, IsFiniteSet
<1>4. IssuerProofs!IssuerInv /\ IssuerProofs!Next => IssuerProofs!IssuerInv'
  BY <1>3, IssuerProofs!NextKeepsInv
<1>5. IssuerProofs!IssuerInv /\ UNCHANGED IssuerProofs!vars => IssuerProofs!IssuerInv'
  BY DEF IssuerProofs!IssuerInv, IssuerProofs!TypeOK, IssuerProofs!IssuedRightly,
         IssuerProofs!EndorsedRightly, IssuerProofs!SignedOn, IssuerProofs!Endorsers,
         IssuerProofs!vars
<1>6. IssuerProofs!IssuerInv => Promised!IssuedRightly
  BY DEF IssuerProofs!IssuerInv, IssuerProofs!IssuedRightly, Promised!IssuedRightly,
         IssuerProofs!Endorsers, Promised!Endorsers, Promised!Cardinality,
         IssuerProofs!Cardinality
<1> QED
  BY <1>1, <1>2, <1>4, <1>5, <1>6, ProxyImplementsIssuer, PTL
  DEF ImplementsIssuer, Promised!Spec
===============================================================================
