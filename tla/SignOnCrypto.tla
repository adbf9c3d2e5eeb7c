----------------------------- MODULE SignOnCrypto -----------------------------
(***************************************************************************)
(* One sign-on as algebra: the dealer's keys, the blinded password, what   *)
(* each node computes, and what the SDK makes of it.  A point of the curve *)
(* is its discrete logarithm, so that B is 1 and a multiple is a product.  *)
(* Hashes are arbitrary functions; a ciphertext opens with the key and the *)
(* associated data it was made with.  Order, rounds and failures of the    *)
(* calls are PastaProxy's, which takes from here when shares aggregate.    *)
(***************************************************************************)
EXTENDS Scalars, FiniteSets

CONSTANTS
  Threshold, Total,
  Password, Registered,  \* the passwords, and the one the user was registered with
  Message, Signed,       \* the signing inputs, and the one the nodes build
  Nonces,                \* the pairs <<d, e>> the nodes may draw
  Blinding,              \* values r may have
  HashToGroup(_),        \* H_1, onto points other than zero
  BindingHash(_),        \* the hash of computeBindingFactor, never zero
  ChallengeHash(_)       \* the hash of computeChallenge

ASSUME SignOnCryptoAssumption ==
  /\ Total \in Nat /\ Total < Order /\ Threshold \in 1 .. Total
  /\ Registered \in Password /\ Signed \in Message
  /\ Nonces \subseteq [1 .. Total -> NonZero \X NonZero] /\ Blinding \subseteq NonZero
  /\ \A p \in Password : HashToGroup(p) \in NonZero

VARIABLES
  stage,    \* dealt, asked, answered or done
  group,    \* the FROST key: group public key and the nodes' shares
  user,     \* the user's record: each node's TOPRF share and server key
  request,  \* the SDK's and the gateway's: participants, commitments, blinded password
  replies,  \* what the nodes answered
  result    \* what the SDK made of it

vars == <<stage, group, user, request, replies, result>>

NodeId == 1 .. Total

B == 1
Multiply(point, scalar) == Mod(point * scalar)

-------------------------------------------------------------------------------
(* TOPRF and AEAD *)

\* Faulty variant of Blind: the password is not blinded.
BlindNot(password, r) == HashToGroup(password)

Blind(password, r) == Multiply(HashToGroup(password), r)

Evaluate(keyShare, blinded) == Multiply(blinded, keyShare)

\* Faulty variant of Unblind: the blinding stays.
UnblindNot(r, partials) ==
  LET ids == [k \in DOMAIN partials |-> partials[k].id]
  IN SumOf([k \in DOMAIN partials |-> Multiply(partials[k].point, LagrangeCoeff(ids, ids[k]))])

Unblind(r, partials) ==
  LET ids == [k \in DOMAIN partials |-> partials[k].id]
      combined == SumOf([k \in DOMAIN partials |->
                           Multiply(partials[k].point, LagrangeCoeff(ids, ids[k]))])
  IN Multiply(combined, Invert(r))

\* h = H_2(pw, v) and h_i = H_3(h, i), by what they hash.
Finalize(password, v) == <<password, v>>
DeriveServerKey(h, id) == <<h, id>>

AeadEncrypt(key, plaintext, aad) == [key |-> key, plaintext |-> plaintext, aad |-> aad]

Opens(ct, key, aad) == ct.key = key /\ ct.aad = aad

-------------------------------------------------------------------------------
(* FROST *)

Commitment(id, pair) == [nodeId |-> id, D |-> Multiply(B, pair[1]), E |-> Multiply(B, pair[2])]

Byte(n) == n % 256

ComputeBindingFactor(nodeId, msg, commitments) ==
  LET sorted == SortSeq(commitments, LAMBDA c, d : c.nodeId < d.nodeId)
  IN BindingHash(<<Byte(nodeId), msg, [k \in DOMAIN sorted |->
                     [sorted[k] EXCEPT !.nodeId = Byte(sorted[k].nodeId)]]>>)

ComputeGroupCommitment(msg, commitments) ==
  SumOf([k \in DOMAIN commitments |->
           LET c == commitments[k]
           IN c.D + Multiply(c.E, ComputeBindingFactor(c.nodeId, msg, commitments))])

ComputeChallenge(R, publicKey, msg) == ChallengeHash(<<R, publicKey, msg>>)

ComputeSignatureShare(nodeId, pair, share, msg, commitments, publicKey, participants) ==
  LET rho == ComputeBindingFactor(nodeId, msg, commitments)
      c == ComputeChallenge(ComputeGroupCommitment(msg, commitments), publicKey, msg)
      lambda == LagrangeCoefficient(nodeId, participants)
  IN Mod(pair[1] + rho * pair[2] + lambda * share * c)

AggregateSignatureShares(R, shares) == [R |-> R, z |-> SumOf(shares)]

VerifyEd25519(sig, msg, publicKey) ==
  Multiply(B, sig.z) = Mod(sig.R + Multiply(publicKey, ComputeChallenge(sig.R, publicKey, msg)))

-------------------------------------------------------------------------------
(* The dealer.  A zero scalar makes multiply throw; with the real order none is drawn. *)

DealGroup(coeffs) ==
  [publicKey |-> Multiply(B, coeffs[1]), shares |-> GenerateShamirShares(coeffs, Total)]

\* The dealer derives h as a client would, from the first nodes' evaluations.
RegisterUser(coeffs, r) ==
  LET shares == SplitSecret(coeffs, Total)
      blinded == Blind(Registered, r)
      partials == [i \in 1 .. Threshold |-> [id |-> i, point |-> Evaluate(shares[i], blinded)]]
      h == Finalize(Registered, Unblind(r, partials))
  IN [shares |-> shares, h |-> [i \in NodeId |-> DeriveServerKey(h, i)]]

Init ==
  /\ stage = "dealt"
  /\ \E coeffs \in Polynomials(Threshold) : group = DealGroup(coeffs)
  /\ \E coeffs \in Polynomials(Threshold), r \in Blinding :
       /\ user = RegisterUser(coeffs, r)
       /\ \A i \in NodeId : user.shares[i] # 0
  /\ request = << >> /\ replies = << >> /\ result = << >>

-------------------------------------------------------------------------------
(* One sign-on *)

\* The participants a commit round settles on: different nodes, a threshold, in any order.
Participants == UNION {SetToSeqs(S) : S \in {T \in SUBSET NodeId : Cardinality(T) >= Threshold}}

\* What they committed to, in the order they are listed.
Commitments(participants, nonces) ==
  [k \in DOMAIN participants |-> Commitment(participants[k], nonces[participants[k]])]

\* Of the two hashes of FROST: they are reduced modulo L, and rho is not zero.
ASSUME HashAssumption ==
  /\ \A participants \in Participants, nonces \in Nonces, msg \in Message :
       \A k \in DOMAIN participants :
         ComputeBindingFactor(participants[k], msg, Commitments(participants, nonces)) \in NonZero
  /\ \A R \in Scalar, publicKey \in Scalar, msg \in Message :
       ComputeChallenge(R, publicKey, msg) \in Scalar

\* The SDK blinds what was typed and remembers the assertion it asked for.
SignOn(password, r, expected, participants, nonces) ==
  /\ stage = "dealt"
  /\ stage' = "asked"
  /\ request' = [password |-> password, r |-> r, expected |-> expected,
                 blinded |-> Blind(password, r), participants |-> participants,
                 nonces |-> nonces, commitments |-> Commitments(participants, nonces)]
  /\ UNCHANGED <<group, user, replies, result>>

Reply(i) ==
  [nodeId |-> i, toprfPartial |-> Evaluate(user.shares[i], request.blinded),
   ct |-> AeadEncrypt(user.h[i],
            ComputeSignatureShare(i, request.nonces[i], group.shares[i], Signed,
              request.commitments, group.publicKey, request.participants),
            Signed)]

HandleSignOn ==
  /\ stage = "asked"
  /\ stage' = "answered"
  /\ replies' = [k \in DOMAIN request.participants |-> Reply(request.participants[k])]
  /\ UNCHANGED <<group, user, request, result>>

AssembleAssertion ==
  LET partials == [k \in DOMAIN replies |->
                     [id |-> replies[k].nodeId, point |-> replies[k].toprfPartial]]
      h == Finalize(request.password, Unblind(request.r, partials))
      opened == \A k \in DOMAIN replies :
                  Opens(replies[k].ct, DeriveServerKey(h, replies[k].nodeId), request.expected)
  IN /\ stage = "answered"
     /\ stage' = "done"
     /\ result' = [opened |-> opened,
          signature |-> IF ~opened THEN << >> ELSE AggregateSignatureShares(
            ComputeGroupCommitment(request.expected, request.commitments),
            [k \in DOMAIN replies |-> replies[k].ct.plaintext])]
     /\ UNCHANGED <<group, user, request, replies>>

Next ==
  \/ \E password \in Password, r \in Blinding, expected \in Message,
        participants \in Participants, nonces \in Nonces :
       SignOn(password, r, expected, participants, nonces)
  \/ HandleSignOn
  \/ AssembleAssertion

Spec == Init /\ [][Next]_vars

-------------------------------------------------------------------------------
\* Any threshold of key shares makes the group key, whichever library shared and combines
\* them; with fewer, every key remains as possible as any other.
KeyIsThresholdShared ==
  stage = "dealt" => \A T \in SUBSET NodeId :
    IF Cardinality(T) >= Threshold
    THEN LET ids == SetToSeq(T)
         IN Multiply(B, CombineShares([k \in DOMAIN ids |-> <<ids[k], group.shares[ids[k]]>>]))
              = group.publicKey
    ELSE \A secret \in NonZero :
           \E coeffs \in Polynomials(Threshold) :
             coeffs[1] = secret /\ \A i \in T : ShareAt(coeffs, i) = group.shares[i]

\* The shares open for the registered password over the very assertion the nodes signed, and
\* for no other, whichever nodes take part, in whatever order, under whatever blinding.
OpensForThePassword ==
  stage = "done" =>
    (result.opened <=> request.password = Registered /\ request.expected = Signed)

\* What the SDK assembles from opened shares, checking nothing, verifies under the group key:
\* for every quorum, in any order, over every key.
AssertionVerifies ==
  stage = "done" /\ result.opened =>
    VerifyEd25519(result.signature, request.expected, group.publicKey)

\* A node cannot tell what was typed: each password could have been blinded to the point it
\* was sent.
BlindedHidesPassword ==
  stage = "asked" =>
    \A password \in Password : \E r \in NonZero : Blind(password, r) = request.blinded
===============================================================================
