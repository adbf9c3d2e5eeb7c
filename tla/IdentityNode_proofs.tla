------------------------- MODULE IdentityNode_proofs -------------------------
(***************************************************************************)
(* Proofs about the nodes, for any number of them, any threshold, any      *)
(* round ids and any sequence of requests (NodeSpec): types, the single    *)
(* use of every nonce pair, and the descent of every token from a sign-on  *)
(* that a threshold of nodes answered.                                     *)
(***************************************************************************)
EXTENDS IdentityNode, FiniteSetTheorems, TLAPS

nodeState == <<nodeVars, now>>

-------------------------------------------------------------------------------
(***************************************************************************)
(* What the messages and requests are made of.                             *)
(***************************************************************************)

\* The assertion a node signs for an accepted request is a message.
LEMMA AssertionTyped ==
  ASSUME NEW req \in SignOnRequest, req.username \in User
  PROVE  AssertionOf(req) \in Message
BY NodeKeyIdAssumption
DEF SignOnRequest, AssertionOf, AssertionMsg, Message, Holder

\* RefreshExp is an integer whether the gateway pinned one or not.
LEMMA RefreshExpTyped ==
  ASSUME NEW pinned \in Int \cup {Unpinned}, NEW iat \in Int
  PROVE  RefreshExp(pinned, iat) \in Int
BY LifetimeAssumption DEF RefreshExp, LifetimeAssumption

\* The two tokens a node signs are messages for the holder of the credential.
LEMMA TokensTyped ==
  ASSUME NEW req \in SignRequest
  PROVE  /\ AccessOf(req) \in Message
         /\ RefreshOf(req) \in Message
         /\ AccessOf(req).holder = req.credential.msg.holder
         /\ RefreshOf(req).holder = req.credential.msg.holder
         /\ AccessOf(req).typ = "at+jwt"
         /\ RefreshOf(req).typ = REFRESH_TOKEN_TYP
<1>1. req.credential.msg \in Message /\ req.credential.msg.holder \in Holder
  BY DEF SignRequest, Credential, Message
<1>2. /\ req.iat \in Int /\ req.exp \in Int
      /\ req.jti \in Jti \cup {NoJti}
      /\ req.refreshExp \in Int \cup {Unpinned}
  BY DEF SignRequest
<1>3. RefreshExp(req.refreshExp, req.iat) \in Int
  BY <1>2, RefreshExpTyped
<1> QED
  BY <1>1, <1>2, <1>3, NodeKeyIdAssumption
  DEF AccessOf, RefreshOf, AccessTokenMsg, RefreshTokenMsg, Message, REFRESH_TOKEN_TYP

\* A share over typed parts is a share.
LEMMA ShareTyped ==
  ASSUME NEW n \in Node, NEW nonce \in Nat, NEW msg \in Message,
         NEW C \in SUBSET Commitment, now \in Nat
  PROVE  ShareOf(n, nonce, msg, C) \in Share
BY DEF ShareOf, Share

\* Spending rounds keeps the map's type, empties those rounds and leaves the others.
LEMMA SpendEffect ==
  ASSUME NodeTypeOK, NEW n \in Node, NEW R \in SUBSET RoundId, Spend(n, R)
  PROVE  /\ activeNonces' \in [Node -> [RoundId -> Nat]]
         /\ \A m \in Node, r \in RoundId :
              activeNonces'[m][r] =
                IF m = n /\ r \in R THEN NoNonce ELSE activeNonces[m][r]
BY DEF NodeTypeOK, Spend, NoNonce

-------------------------------------------------------------------------------
(***************************************************************************)
(* Types.                                                                  *)
(***************************************************************************)

\* Answering a sign-on keeps the types.
LEMMA AnswerSignOnTyped ==
  ASSUME NodeTypeOK, NEW n \in Node, NEW r \in RoundId, NEW req \in SignOnRequest,
         AnswerSignOn(n, r, req)
  PROVE  NodeTypeOK'
<1>1. activeNonces' \in [Node -> [RoundId -> Nat]]
  BY SpendEffect DEF AnswerSignOn
<1>2. AssertionOf(req) \in Message
  BY AssertionTyped DEF AnswerSignOn, SignOnAccepted
<1>3. req.commitments \in SUBSET Commitment /\ activeNonces[n][r] \in Nat /\ now \in Nat
  BY DEF SignOnRequest, NodeTypeOK
<1>4. ShareOf(n, activeNonces[n][r], AssertionOf(req), req.commitments) \in Share
  BY <1>2, <1>3, ShareTyped
<1> QED
  BY <1>1, <1>4 DEF AnswerSignOn, NodeTypeOK

\* Answering a token request keeps the types.
LEMMA AnswerSignTyped ==
  ASSUME NodeTypeOK, NEW n \in Node, NEW ar \in RoundId, NEW rr \in RoundId,
         NEW req \in SignRequest, AnswerSign(n, ar, rr, req)
  PROVE  NodeTypeOK'
<1>1. activeNonces' \in [Node -> [RoundId -> Nat]]
  BY SpendEffect DEF AnswerSign
<1>2. /\ req.commitments \in SUBSET Commitment
      /\ req.refreshCommitments \in SUBSET Commitment
      /\ activeNonces[n][ar] \in Nat /\ activeNonces[n][rr] \in Nat /\ now \in Nat
  BY DEF SignRequest, NodeTypeOK
<1>3. /\ ShareOf(n, activeNonces[n][ar], AccessOf(req), req.commitments) \in Share
      /\ ShareOf(n, activeNonces[n][rr], RefreshOf(req), req.refreshCommitments) \in Share
  BY <1>2, TokensTyped, ShareTyped
<1> QED
  BY <1>1, <1>3 DEF AnswerSign, NodeTypeOK

\* Every step keeps the types.
LEMMA StepTyped ==
  ASSUME NodeTypeOK, NodeStep
  PROVE  NodeTypeOK'
<1>1. CASE \E n \in Node, r \in RoundId : GenerateCommitment(n, r)
  BY <1>1 DEF GenerateCommitment, NodeTypeOK
<1>2. ASSUME NEW n \in Node, NEW r \in RoundId, NEW req \in SignOnRequest,
             HandleSignOn(n, r, req)
      PROVE  NodeTypeOK'
  <2>1. CASE AnswerSignOn(n, r, req)
    BY <2>1, AnswerSignOnTyped
  <2>2. CASE SpoilSignOn(n, r, req)
    BY <2>2, SpendEffect DEF SpoilSignOn, NodeTypeOK
  <2>3. CASE RefuseSignOn(n, r, req)
    BY <2>3 DEF RefuseSignOn, NodeTypeOK, nodeVars
  <2> QED
    BY <1>2, <2>1, <2>2, <2>3 DEF HandleSignOn
<1>3. ASSUME NEW n \in Node, NEW ar \in RoundId, NEW rr \in RoundId,
             NEW req \in SignRequest, HandleSign(n, ar, rr, req)
      PROVE  NodeTypeOK'
  <2>1. CASE AnswerSign(n, ar, rr, req)
    BY <2>1, AnswerSignTyped
  <2>2. CASE SpoilSign(n, ar, rr, req)
    BY <2>2, SpendEffect DEF SpoilSign, NodeTypeOK
  <2>3. CASE RefuseSign(n, ar, rr, req)
    BY <2>3 DEF RefuseSign, NodeTypeOK, nodeVars
  <2> QED
    BY <1>3, <2>1, <2>2, <2>3 DEF HandleSign
<1>4. CASE \E n \in Node : Restart(n)
  BY <1>4 DEF Restart, NodeTypeOK, NoNonce
<1>5. CASE Tick
  BY <1>5 DEF Tick, NodeTypeOK, nodeVars
<1> QED
  BY <1>1, <1>2, <1>3, <1>4, <1>5 DEF NodeStep

\* The nodes' state keeps its type under any requests.
THEOREM TypeCorrect == NodeSpec => []NodeTypeOK
<1>1. NodeInit => NodeTypeOK
  BY DEF NodeInit, NodeTypeOK, NoNonce
<1>2. NodeTypeOK /\ [NodeStep]_nodeState => NodeTypeOK'
  <2> SUFFICES ASSUME NodeTypeOK, [NodeStep]_nodeState PROVE NodeTypeOK'
    OBVIOUS
  <2>1. CASE NodeStep
    BY <2>1, StepTyped
  <2>2. CASE UNCHANGED nodeState
    BY <2>2 DEF nodeState, nodeVars, NodeTypeOK
  <2> QED
    BY <2>1, <2>2
<1> QED
  BY <1>1, <1>2, PTL DEF NodeSpec, nodeState

-------------------------------------------------------------------------------
(***************************************************************************)
(* Single use of nonce pairs.  NonceSingleUse is not inductive alone: it   *)
(* needs that an open round's pair has signed nothing and is in no other   *)
(* round, and that a fresh pair is newer than all of them.  The last is    *)
(* how the model says that random pairs never repeat: it is part of the    *)
(* argument and says nothing of the code.                                  *)
(***************************************************************************)
NoncesDrawn ==
  /\ \A n \in Node, r \in RoundId : activeNonces[n][r] <= nonceCount[n]
  /\ \A s \in shares : s.nonce \in 1 .. nonceCount[s.node]

NonceInv == NodeTypeOK /\ NoncesDrawn /\ OpenNoncesUnused /\ NonceSingleUse

\* What every handler does to the nonces of node n: it closes the rounds R, and makes the
\* shares N with pairs those rounds held, one share to a pair.
SignsWith(n, R, N) ==
  /\ Spend(n, R)
  /\ nonceCount' = nonceCount
  /\ shares' = shares \cup N
  /\ \A s \in N : s.node = n /\ \E r \in R : /\ activeNonces[n][r] # NoNonce
                                          /\ s.nonce = activeNonces[n][r]
  /\ \A s, t \in N : s.nonce = t.nonce => s = t

\* A step of that form keeps the invariant.
LEMMA SpendingKeepsNonceInv ==
  ASSUME NonceInv, NodeTypeOK',
         NEW n \in Node, NEW R \in SUBSET RoundId, NEW N \in SUBSET Share,
         SignsWith(n, R, N)
  PROVE  NonceInv'
<1> USE DEF NonceInv, SignsWith
<1>1. \A m \in Node, r \in RoundId :
        activeNonces'[m][r] = IF m = n /\ r \in R THEN NoNonce ELSE activeNonces[m][r]
  BY SpendEffect
<1>2. NoncesDrawn'
  <2>1. \A m \in Node, r \in RoundId : activeNonces'[m][r] <= nonceCount'[m]
    BY <1>1 DEF NodeTypeOK, NoncesDrawn, NoNonce
  <2>2. \A s \in N : s.nonce \in 1 .. nonceCount[s.node]
    BY DEF NodeTypeOK, NoncesDrawn, NoNonce
  <2> QED
    BY <2>1, <2>2 DEF NoncesDrawn
<1>3. OpenNoncesUnused'
  <2> SUFFICES ASSUME NEW m \in Node, NEW r \in RoundId, activeNonces'[m][r] # NoNonce
               PROVE  /\ \A s \in shares' : s.node = m => s.nonce # activeNonces'[m][r]
                      /\ \A q \in RoundId : q # r => activeNonces'[m][q] # activeNonces'[m][r]
    BY DEF OpenNoncesUnused
  <2>1. activeNonces'[m][r] = activeNonces[m][r] /\ ~(m = n /\ r \in R)
    BY <1>1
  <2>2. \A s \in N : s.node = m => s.nonce # activeNonces[m][r]
    BY <2>1 DEF OpenNoncesUnused
  <2> QED
    BY <1>1, <2>1, <2>2 DEF OpenNoncesUnused
<1>4. NonceSingleUse'
  <2>1. \A s \in N, t \in shares : s.node = t.node => s.nonce # t.nonce
    BY DEF OpenNoncesUnused
  <2> QED
    BY <2>1 DEF NonceSingleUse
<1> QED
  BY <1>2, <1>3, <1>4

\* A new pair is above every pair drawn, so it is in no round and in no share.
LEMMA CommitKeepsNonceInv ==
  ASSUME NonceInv, NEW n \in Node, NEW r \in RoundId, GenerateCommitment(n, r)
  PROVE  NonceInv'
<1> USE DEF NonceInv
<1>1. NodeTypeOK'
  BY DEF GenerateCommitment, NodeTypeOK
<1>2. \A m \in Node, q \in RoundId :
        activeNonces'[m][q] = IF m = n /\ q = r THEN nonceCount[n] + 1 ELSE activeNonces[m][q]
  BY DEF GenerateCommitment, NodeTypeOK
<1>3. \A m \in Node :
        nonceCount'[m] = IF m = n THEN nonceCount[n] + 1 ELSE nonceCount[m]
  BY DEF GenerateCommitment, NodeTypeOK
<1>4. shares' = shares
  BY DEF GenerateCommitment
<1>5. NoncesDrawn'
  <2>1. \A m \in Node, q \in RoundId : activeNonces'[m][q] <= nonceCount'[m]
    BY <1>2, <1>3 DEF NodeTypeOK, NoncesDrawn
  <2>2. \A s \in shares' : s.nonce \in 1 .. nonceCount'[s.node]
    BY <1>3, <1>4 DEF NodeTypeOK, NoncesDrawn, Share
  <2> QED
    BY <2>1, <2>2 DEF NoncesDrawn
<1>6. OpenNoncesUnused'
  <2>1. \A q \in RoundId : activeNonces[n][q] # nonceCount[n] + 1
    BY DEF NodeTypeOK, NoncesDrawn
  <2>2. \A s \in shares : s.node = n => s.nonce # nonceCount[n] + 1
    BY DEF NodeTypeOK, NoncesDrawn
  <2> QED
    BY <1>2, <1>4, <2>1, <2>2 DEF OpenNoncesUnused
<1>7. NonceSingleUse'
  BY <1>4 DEF NonceSingleUse
<1> QED
  BY <1>1, <1>5, <1>6, <1>7

\* An answered sign-on signs once, with the pair of the round it closes.
LEMMA AnswerSignOnKeepsNonceInv ==
  ASSUME NonceInv, NEW n \in Node, NEW r \in RoundId, NEW req \in SignOnRequest,
         AnswerSignOn(n, r, req)
  PROVE  NonceInv'
<1> DEFINE new == ShareOf(n, activeNonces[n][r], AssertionOf(req), req.commitments)
<1>1. NodeTypeOK'
  BY AnswerSignOnTyped DEF NonceInv
<1>2. new \in Share /\ new.node = n /\ new.nonce = activeNonces[n][r]
  BY <1>1 DEF AnswerSignOn, NodeTypeOK, ShareOf
<1>3. activeNonces[n][r] # NoNonce
  BY DEF AnswerSignOn, SignOnAccepted
<1>4. Spend(n, {r}) /\ nonceCount' = nonceCount /\ shares' = shares \cup {new}
  BY DEF AnswerSignOn
<1> HIDE DEF new
<1>5. SignsWith(n, {r}, {new}) /\ {r} \in SUBSET RoundId /\ {new} \in SUBSET Share
  BY <1>2, <1>3, <1>4 DEF SignsWith
<1> QED
  BY <1>1, <1>5, SpendingKeepsNonceInv

\* An answered token request signs twice, with the two different pairs of the two
\* different rounds it closes.
LEMMA AnswerSignKeepsNonceInv ==
  ASSUME NonceInv, NEW n \in Node, NEW ar \in RoundId, NEW rr \in RoundId,
         NEW req \in SignRequest, AnswerSign(n, ar, rr, req)
  PROVE  NonceInv'
<1> DEFINE at == ShareOf(n, activeNonces[n][ar], AccessOf(req), req.commitments)
           rt == ShareOf(n, activeNonces[n][rr], RefreshOf(req), req.refreshCommitments)
<1>1. NodeTypeOK'
  BY AnswerSignTyped DEF NonceInv
<1>2. /\ at \in Share /\ at.node = n /\ at.nonce = activeNonces[n][ar]
      /\ rt \in Share /\ rt.node = n /\ rt.nonce = activeNonces[n][rr]
  BY <1>1 DEF AnswerSign, NodeTypeOK, ShareOf
<1>3. activeNonces[n][ar] # NoNonce /\ activeNonces[n][rr] # NoNonce /\ ar # rr
  BY DEF AnswerSign, SignAccepted
<1>4. at.nonce # rt.nonce
  BY <1>2, <1>3 DEF NonceInv, OpenNoncesUnused
<1>5. Spend(n, {ar, rr}) /\ nonceCount' = nonceCount /\ shares' = shares \cup {at, rt}
  BY DEF AnswerSign
<1> HIDE DEF at, rt
<1>6. /\ SignsWith(n, {ar, rr}, {at, rt})
      /\ {ar, rr} \in SUBSET RoundId /\ {at, rt} \in SUBSET Share
  BY <1>2, <1>3, <1>4, <1>5 DEF SignsWith
<1> QED
  BY <1>1, <1>6, SpendingKeepsNonceInv

\* Closing rounds and signing nothing: a spoilt request or a restart.
LEMMA ClosingKeepsNonceInv ==
  ASSUME NonceInv, NEW n \in Node, NEW R \in SUBSET RoundId,
         Spend(n, R), UNCHANGED <<nonceCount, shares, now>>
  PROVE  NonceInv'
<1>1. NodeTypeOK'
  BY SpendEffect DEF NonceInv, NodeTypeOK
<1>2. SignsWith(n, R, {}) /\ {} \in SUBSET Share
  BY DEF SignsWith
<1> QED
  BY <1>1, <1>2, SpendingKeepsNonceInv

\* Every step keeps the invariant.
LEMMA StepKeepsNonceInv ==
  ASSUME NonceInv, NodeStep
  PROVE  NonceInv'
<1>1. CASE \E n \in Node, r \in RoundId : GenerateCommitment(n, r)
  BY <1>1, CommitKeepsNonceInv
<1>2. ASSUME NEW n \in Node, NEW r \in RoundId, NEW req \in SignOnRequest,
             HandleSignOn(n, r, req)
      PROVE  NonceInv'
  <2>1. CASE AnswerSignOn(n, r, req)
    BY <2>1, AnswerSignOnKeepsNonceInv
  <2>2. CASE SpoilSignOn(n, r, req)
    BY <2>2, ClosingKeepsNonceInv DEF SpoilSignOn
  <2>3. CASE RefuseSignOn(n, r, req)
    BY <2>3 DEF RefuseSignOn, nodeVars, NonceInv, NodeTypeOK, NoncesDrawn,
                OpenNoncesUnused, NonceSingleUse
  <2> QED
    BY <1>2, <2>1, <2>2, <2>3 DEF HandleSignOn
<1>3. ASSUME NEW n \in Node, NEW ar \in RoundId, NEW rr \in RoundId,
             NEW req \in SignRequest, HandleSign(n, ar, rr, req)
      PROVE  NonceInv'
  <2>1. CASE AnswerSign(n, ar, rr, req)
    BY <2>1, AnswerSignKeepsNonceInv
  <2>2. CASE SpoilSign(n, ar, rr, req)
    BY <2>2, ClosingKeepsNonceInv DEF SpoilSign
  <2>3. CASE RefuseSign(n, ar, rr, req)
    BY <2>3 DEF RefuseSign, nodeVars, NonceInv, NodeTypeOK, NoncesDrawn,
                OpenNoncesUnused, NonceSingleUse
  <2> QED
    BY <1>3, <2>1, <2>2, <2>3 DEF HandleSign
<1>4. ASSUME NEW n \in Node, Restart(n)
      PROVE  NonceInv'
  <2>1. Spend(n, RoundId)
    BY <1>4 DEF Restart, Spend
  <2> QED
    BY <1>4, <2>1, ClosingKeepsNonceInv DEF Restart
<1>5. CASE Tick
  BY <1>5 DEF Tick, nodeVars, NonceInv, NodeTypeOK, NoncesDrawn, OpenNoncesUnused,
              NonceSingleUse
<1> QED
  BY <1>1, <1>2, <1>3, <1>4, <1>5 DEF NodeStep

\* The invariant itself: what the two theorems below are read off.
THEOREM NonceInvariant == NodeSpec => []NonceInv
<1>1. NodeInit => NonceInv
  BY DEF NodeInit, NonceInv, NodeTypeOK, NoncesDrawn, OpenNoncesUnused, NonceSingleUse,
         NoNonce
<1>2. NonceInv /\ [NodeStep]_nodeState => NonceInv'
  <2> SUFFICES ASSUME NonceInv, [NodeStep]_nodeState PROVE NonceInv'
    OBVIOUS
  <2>1. CASE NodeStep
    BY <2>1, StepKeepsNonceInv
  <2>2. CASE UNCHANGED nodeState
    BY <2>2 DEF nodeState, nodeVars, NonceInv, NodeTypeOK, NoncesDrawn, OpenNoncesUnused,
                NonceSingleUse
  <2> QED
    BY <2>1, <2>2
<1> QED
  BY <1>1, <1>2, PTL DEF NodeSpec, nodeState

\* No node ever makes two signature shares with one nonce pair, whatever it is asked to
\* do, in whatever order, across restarts (node.ts 278-282 and 415-428).
THEOREM NoncesUsedOnce == NodeSpec => []NonceSingleUse
<1>1. NonceInv => NonceSingleUse
  BY DEF NonceInv
<1> QED
  BY <1>1, NonceInvariant, PTL

\* The pair of an open round has signed nothing and belongs to no other round.
THEOREM OpenRoundsAreFresh == NodeSpec => []OpenNoncesUnused
<1>1. NonceInv => OpenNoncesUnused
  BY DEF NonceInv
<1> QED
  BY <1>1, NonceInvariant, PTL

-------------------------------------------------------------------------------
(***************************************************************************)
(* Descent of tokens.  TokensDescendFromSignOn is inductive with the types *)
(* because a group signature, once there, stays (shares only grow), and a  *)
(* quorum is never empty.                                                  *)
(***************************************************************************)

\* As the threshold is positive, a quorum is not empty.
LEMMA QuorumNotEmpty ==
  ASSUME NEW C, Quorum(C)
  PROVE  C # {}
<1> SUFFICES ASSUME C = {} PROVE FALSE
  OBVIOUS
<1>1. Participants(C) = {}
  BY DEF Participants
<1>2. Cardinality(Participants(C)) = 0
  BY <1>1, FS_EmptySet
<1> QED
  BY <1>2, ThresholdAssumption DEF Quorum

\* A message the group has signed has a share.
LEMMA GroupSignedHasShare ==
  ASSUME NEW msg, GroupSigned(msg)
  PROVE  \E s \in shares : s.msg = msg
<1>1. PICK s \in shares : Aggregates(shares, msg, s.commitments)
  BY DEF GroupSigned
<1>2. s.commitments # {}
  BY <1>1, QuorumNotEmpty DEF Aggregates
<1>3. PICK c \in s.commitments : Signed(shares, c, msg, s.commitments)
  BY <1>1, <1>2 DEF Aggregates
<1> QED
  BY <1>3 DEF Signed

\* What the group has signed stays signed as shares are added.
LEMMA GroupSignedStays ==
  ASSUME NEW msg, GroupSigned(msg), shares \subseteq shares'
  PROVE  GroupSigned(msg)'
<1>1. PICK s \in shares : Aggregates(shares, msg, s.commitments)
  BY DEF GroupSigned
<1>2. \A c \in s.commitments : Signed(shares', c, msg, s.commitments)
  BY <1>1 DEF Aggregates, Signed
<1>3. Aggregates(shares', msg, s.commitments)
  BY <1>1, <1>2 DEF Aggregates
<1> QED
  BY <1>3 DEF GroupSigned

\* Behind a share of a token is a group-signed assertion for the same holder.
Descends(msg) == \E a \in shares : /\ a.msg.typ = "JWT"
                                  /\ a.msg.holder = msg.holder
                                  /\ GroupSigned(a.msg)

\* So is it behind the credential of any token request a node answers.
LEMMA CredentialDescends ==
  ASSUME TokensDescendFromSignOn, NEW n \in Node, NEW ar \in RoundId, NEW rr \in RoundId,
         NEW req \in SignRequest, Unforged(req.credential), SignAccepted(n, ar, rr, req)
  PROVE  Descends(req.credential.msg)
<1> DEFINE msg == req.credential.msg
<1>1. /\ req.credential.sigOk
      /\ msg.typ = "JWT" \/ msg.typ = REFRESH_TOKEN_TYP
  BY DEF SignAccepted, VerifyCredential, VerifyAssertion, VerifyRefreshToken, VerifyJwt
<1>2. GroupSigned(msg)
  BY <1>1 DEF Unforged
<1>3. PICK s \in shares : s.msg = msg
  BY <1>2, GroupSignedHasShare
<1>4. CASE msg.typ = "JWT"
  BY <1>2, <1>3, <1>4 DEF Descends
<1>5. CASE msg.typ = REFRESH_TOKEN_TYP
  BY <1>3, <1>5 DEF TokensDescendFromSignOn, Descends, REFRESH_TOKEN_TYP
<1> QED
  BY <1>1, <1>4, <1>5

\* Descent outlives every step that only adds shares.
LEMMA DescendsStays ==
  ASSUME NEW msg, Descends(msg), shares \subseteq shares'
  PROVE  Descends(msg)'
BY GroupSignedStays DEF Descends

\* A step that adds only shares of assertions and shares whose message descends.
LEMMA AddingKeepsDescent ==
  ASSUME TokensDescendFromSignOn, shares \subseteq shares',
         \A s \in shares' \ shares : s.msg.typ = "JWT" \/ Descends(s.msg)
  PROVE  TokensDescendFromSignOn'
<1> SUFFICES ASSUME NEW s \in shares', s.msg.typ # "JWT"
             PROVE  Descends(s.msg)'
  BY DEF TokensDescendFromSignOn, Descends
<1>1. Descends(s.msg)
  BY DEF TokensDescendFromSignOn, Descends
<1> QED
  BY <1>1, DescendsStays

\* Every step keeps descent.
LEMMA StepKeepsDescent ==
  ASSUME NodeTypeOK, TokensDescendFromSignOn, NodeStep
  PROVE  TokensDescendFromSignOn'
<1>1. ASSUME UNCHANGED shares PROVE TokensDescendFromSignOn'
  BY <1>1, AddingKeepsDescent
<1>2. ASSUME NEW n \in Node, NEW r \in RoundId, NEW req \in SignOnRequest,
             AnswerSignOn(n, r, req)
      PROVE  TokensDescendFromSignOn'
  <2>1. /\ shares \subseteq shares'
        /\ \A s \in shares' \ shares : s.msg.typ = "JWT"
    BY <1>2 DEF AnswerSignOn, ShareOf, AssertionOf, AssertionMsg
  <2> QED
    BY <2>1, AddingKeepsDescent
<1>3. ASSUME NEW n \in Node, NEW ar \in RoundId, NEW rr \in RoundId,
             NEW req \in SignRequest, Unforged(req.credential), AnswerSign(n, ar, rr, req)
      PROVE  TokensDescendFromSignOn'
  <2>1. Descends(req.credential.msg)
    BY <1>3, CredentialDescends DEF AnswerSign
  <2>2. Descends(AccessOf(req)) /\ Descends(RefreshOf(req))
    BY <2>1, TokensTyped DEF Descends
  <2>3. /\ shares \subseteq shares'
        /\ \A s \in shares' \ shares : s.msg = AccessOf(req) \/ s.msg = RefreshOf(req)
    BY <1>3 DEF AnswerSign, ShareOf
  <2>4. \A s \in shares' \ shares : Descends(s.msg)
    BY <2>2, <2>3
  <2> QED
    BY <2>3, <2>4, AddingKeepsDescent
<1> QED
  BY <1>1, <1>2, <1>3
  DEF NodeStep, HandleSignOn, HandleSign, GenerateCommitment, SpoilSignOn, RefuseSignOn,
      SpoilSign, RefuseSign, Restart, Tick, nodeVars

\* No token share without an assertion a threshold of nodes signed for the same subject,
\* client and DPoP key, over any number of rotations (node.ts 370-373 and 430-454).
THEOREM TokensDescend == NodeSpec => []TokensDescendFromSignOn
<1>1. NodeInit => TokensDescendFromSignOn
  BY DEF NodeInit, TokensDescendFromSignOn
<1>2. NodeTypeOK /\ TokensDescendFromSignOn /\ [NodeStep]_nodeState => TokensDescendFromSignOn'
  <2> SUFFICES ASSUME NodeTypeOK, TokensDescendFromSignOn, [NodeStep]_nodeState
               PROVE  TokensDescendFromSignOn'
    OBVIOUS
  <2>1. CASE NodeStep
    BY <2>1, StepKeepsDescent
  <2>2. CASE UNCHANGED nodeState
    BY <2>2, AddingKeepsDescent DEF nodeState, nodeVars
  <2> QED
    BY <2>1, <2>2
<1> QED
  BY <1>1, <1>2, TypeCorrect, PTL DEF NodeSpec, nodeState

-------------------------------------------------------------------------------
(***************************************************************************)
(* How long credentials live, counted from the moment of signing.          *)
(***************************************************************************)

\* A share is made in the past, over an iat within the skew of that moment.
SharesDated == \A s \in shares : s.at <= now /\ Fresh(s.msg.iat, s.at)

\* A step that adds only shares made now, over a fresh iat, at whatever later time.
LEMMA AddingKeepsDates ==
  ASSUME NodeTypeOK, NodeTypeOK', SharesDated, now <= now',
         \A s \in shares' \ shares : s.at = now /\ Fresh(s.msg.iat, now)
  PROVE  SharesDated'
BY DEF SharesDated, NodeTypeOK, Share

\* Every step keeps the dates.
LEMMA StepKeepsDates ==
  ASSUME NodeTypeOK, SharesDated, NodeStep
  PROVE  SharesDated'
<1>1. NodeTypeOK'
  BY StepTyped
<1>2. now \in Nat
  BY DEF NodeTypeOK
<1>3. ASSUME UNCHANGED shares, now <= now' PROVE SharesDated'
  BY <1>1, <1>3, AddingKeepsDates
<1>4. ASSUME NEW n \in Node, NEW r \in RoundId, NEW req \in SignOnRequest,
             AnswerSignOn(n, r, req)
      PROVE  SharesDated'
  <2>1. Fresh(AssertionOf(req).iat, now) /\ now' = now
    BY <1>4 DEF AnswerSignOn, SignOnAccepted, AssertionOf, AssertionMsg
  <2>2. \A s \in shares' \ shares : s.at = now /\ s.msg = AssertionOf(req)
    BY <1>4 DEF AnswerSignOn, ShareOf
  <2> QED
    BY <1>1, <1>2, <2>1, <2>2, AddingKeepsDates
<1>5. ASSUME NEW n \in Node, NEW ar \in RoundId, NEW rr \in RoundId,
             NEW req \in SignRequest, AnswerSign(n, ar, rr, req)
      PROVE  SharesDated'
  <2>1. Fresh(AccessOf(req).iat, now) /\ Fresh(RefreshOf(req).iat, now) /\ now' = now
    BY <1>5
    DEF AnswerSign, SignAccepted, AccessOf, RefreshOf, AccessTokenMsg, RefreshTokenMsg
  <2>2. \A s \in shares' \ shares :
          s.at = now /\ (s.msg = AccessOf(req) \/ s.msg = RefreshOf(req))
    BY <1>5 DEF AnswerSign, ShareOf
  <2> QED
    BY <1>1, <1>2, <2>1, <2>2, AddingKeepsDates
<1>6. UNCHANGED shares /\ (now' = now \/ now' = now + 1) => SharesDated'
  BY <1>2, <1>3
<1> QED
  BY <1>4, <1>5, <1>6
  DEF NodeStep, HandleSignOn, HandleSign, GenerateCommitment, SpoilSignOn, RefuseSignOn,
      SpoilSign, RefuseSign, Restart, Tick, nodeVars

\* A dated share's credential dies within its longest lifetime plus the skew.
LEMMA DatedMeansWindow ==
  ASSUME NodeTypeOK, SharesDated
  PROVE  SpendWindow
<1> SUFFICES ASSUME NEW s \in shares
             PROVE  /\ VerifyAssertion([msg |-> s.msg, sigOk |-> TRUE], now) =>
                         now - s.at <= MAX_ASSERTION_LIFETIME_SECONDS + CLOCK_SKEW_SECONDS
                    /\ VerifyRefreshToken([msg |-> s.msg, sigOk |-> TRUE], now) =>
                         now - s.at <= MAX_REFRESH_LIFETIME_SECONDS + CLOCK_SKEW_SECONDS
  BY DEF SpendWindow
<1>1. s.at \in Nat /\ now \in Nat /\ s.msg.iat \in Int /\ s.msg.exp \in Int
  BY DEF NodeTypeOK, Share, Message
<1>2. s.msg.iat - s.at <= CLOCK_SKEW_SECONDS
  BY DEF SharesDated, Fresh
<1> QED
  BY <1>1, <1>2, LifetimeAssumption
  DEF VerifyAssertion, VerifyRefreshToken, VerifyJwt, InLifetime, LifetimeAssumption

\* A credential can be spent for its longest lifetime plus the clock skew from the moment
\* a node signed it, and never longer (node.ts 265-276, 389-413 and 500-528).
THEOREM CredentialsExpire == NodeSpec => []SpendWindow
<1>1. NodeInit => SharesDated
  BY DEF NodeInit, SharesDated
<1>2. NodeTypeOK /\ SharesDated /\ [NodeStep]_nodeState => SharesDated'
  <2> SUFFICES ASSUME NodeTypeOK, SharesDated, [NodeStep]_nodeState
               PROVE  SharesDated'
    OBVIOUS
  <2>1. CASE NodeStep
    BY <2>1, StepKeepsDates
  <2>2. CASE UNCHANGED nodeState
    BY <2>2 DEF nodeState, nodeVars, SharesDated
  <2> QED
    BY <2>1, <2>2
<1>3. NodeTypeOK /\ SharesDated => SpendWindow
  BY DatedMeansWindow
<1> QED
  BY <1>1, <1>2, <1>3, TypeCorrect, PTL DEF NodeSpec, nodeState
===============================================================================
