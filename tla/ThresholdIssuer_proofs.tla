----------------------- MODULE ThresholdIssuer_proofs -----------------------
(***************************************************************************)
(* What the abstract issuer promises follows from its steps: by the        *)
(* refinement, it then holds of the wallets of the implementation.         *)
(***************************************************************************)
EXTENDS ThresholdIssuer, FiniteSetTheorems, TLAPS

\* Behind msg is an issued assertion for the same holder.
SignedOn(msg) == \E a \in issued : a.typ = AssertionTyp /\ a.holder = msg.holder

\* A node endorses nothing but assertions and what descends from an issued one.
EndorsedRightly == \A e \in endorsed : e[2].typ = AssertionTyp \/ SignedOn(e[2])

IssuerInv == TypeOK /\ IssuedRightly /\ EndorsedRightly

\* Endorsers only join, and there are finitely many nodes.
LEMMA EndorsersGrow ==
  ASSUME IsFiniteSet(Node), endorsed \subseteq endorsed', NEW msg
  PROVE  Cardinality(Endorsers(msg)) <= Cardinality(Endorsers(msg)')
<1>1. Endorsers(msg) \subseteq Endorsers(msg)' /\ Endorsers(msg)' \subseteq Node
  BY DEF Endorsers
<1>2. IsFiniteSet(Endorsers(msg)')
  BY <1>1, FS_Subset
<1> QED
  BY <1>1, <1>2, FS_Subset

\* A threshold of endorsers is at least one.
LEMMA ThresholdEndorsed ==
  ASSUME Threshold \in Nat \ {0}, NEW msg, Cardinality(Endorsers(msg)) >= Threshold
  PROVE  \E n \in Node : <<n, msg>> \in endorsed
<1>1. Endorsers(msg) # {}
  BY FS_EmptySet
<1> QED
  BY <1>1 DEF Endorsers

\* Endorsing keeps what was issued issued rightly.
LEMMA EndorsingKeepsInv ==
  ASSUME IsFiniteSet(Node), Threshold \in Nat \ {0}, IssuerInv, TypeOK',
         UNCHANGED issued, endorsed \subseteq endorsed',
         \A e \in endorsed' \ endorsed : e[2].typ = AssertionTyp \/ SignedOn(e[2])
  PROVE  IssuerInv'
<1>1. EndorsedRightly'
  BY DEF IssuerInv, EndorsedRightly, SignedOn
<1>2. ASSUME NEW msg \in issued PROVE Cardinality(Endorsers(msg)') >= Threshold
  <2>1. /\ Cardinality(Endorsers(msg)) >= Threshold
        /\ Cardinality(Endorsers(msg)) <= Cardinality(Endorsers(msg)')
    BY EndorsersGrow DEF IssuerInv, IssuedRightly
  <2>2. /\ Cardinality(Endorsers(msg)) \in Nat
        /\ Cardinality(Endorsers(msg)') \in Nat
    <3>1. Endorsers(msg) \subseteq Node /\ Endorsers(msg)' \subseteq Node
      BY DEF Endorsers
    <3> QED
      BY <3>1, FS_Subset, FS_CardinalityType
  <2> QED
    BY <2>1, <2>2
<1>3. IssuedRightly'
  BY <1>2 DEF IssuerInv, IssuedRightly
<1> QED
  BY <1>1, <1>3 DEF IssuerInv

\* Issuing what a threshold endorsed is right.
LEMMA IssuingKeepsInv ==
  ASSUME Threshold \in Nat \ {0}, IssuerInv, TypeOK', NEW M, Issue(M)
  PROVE  IssuerInv'
<1>1. issued' = issued \cup M /\ endorsed' = endorsed
  BY DEF Issue
<1>2. EndorsedRightly'
  BY <1>1 DEF IssuerInv, EndorsedRightly, SignedOn
<1>3. ASSUME NEW msg \in M
      PROVE  \E a \in issued' : a.typ = AssertionTyp /\ a.holder = msg.holder
  <2>1. PICK n \in Node : <<n, msg>> \in endorsed
    BY ThresholdEndorsed DEF Issue
  <2>2. msg.typ = AssertionTyp \/ SignedOn(msg)
    BY <2>1 DEF IssuerInv, EndorsedRightly
  <2> QED
    BY <1>1, <2>2 DEF SignedOn
<1>4. \A msg : Endorsers(msg)' = Endorsers(msg)
  BY <1>1 DEF Endorsers
<1>5. IssuedRightly'
  BY <1>1, <1>3, <1>4 DEF Issue, IssuerInv, IssuedRightly
<1> QED
  BY <1>2, <1>5 DEF IssuerInv

\* Every step keeps the invariant.
LEMMA NextKeepsInv ==
  ASSUME IsFiniteSet(Node), Threshold \in Nat \ {0}, IssuerInv, Next
  PROVE  IssuerInv'
<1>1. ASSUME NEW n \in Node, NEW a \in OfTyp(AssertionTyp), EndorseAssertion(n, a)
      PROVE  IssuerInv'
  <2>1. TypeOK'
    BY <1>1 DEF EndorseAssertion, OfTyp, IssuerInv, TypeOK
  <2>2. \A e \in endorsed' \ endorsed : e[2].typ = AssertionTyp
    BY <1>1 DEF EndorseAssertion, OfTyp
  <2> QED
    BY <1>1, <2>1, <2>2, EndorsingKeepsInv DEF EndorseAssertion
<1>2. ASSUME NEW n \in Node, NEW at \in OfTyp(AccessTyp), NEW rt \in OfTyp(RefreshTyp),
             EndorseTokens(n, at, rt)
      PROVE  IssuerInv'
  <2>1. TypeOK'
    BY <1>2 DEF EndorseTokens, OfTyp, IssuerInv, TypeOK
  <2>2. SignedOn(at) /\ SignedOn(rt)
    BY <1>2 DEF EndorseTokens, IssuerInv, IssuedRightly, SignedOn
  <2>3. \A e \in endorsed' \ endorsed : SignedOn(e[2])
    BY <1>2, <2>2 DEF EndorseTokens
  <2> QED
    BY <1>2, <2>1, <2>3, EndorsingKeepsInv DEF EndorseTokens
<1>3. ASSUME NEW M \in SUBSET Message, Issue(M) PROVE IssuerInv'
  <2>1. TypeOK'
    BY <1>3 DEF Issue, IssuerInv, TypeOK
  <2> QED
    BY <1>3, <2>1, IssuingKeepsInv
<1> QED
  BY <1>1, <1>2, <1>3 DEF Next, OfTyp

\* Every JWT that exists has a threshold of endorsers and, behind it, an issued assertion
\* for the same holder, however many exchanges and rotations lie between them: the promise
\* of a threshold issuer (node.ts 370-373, proxy.ts 284-340).
THEOREM IssuerIssuesRightly ==
  ASSUME IsFiniteSet(Node), Threshold \in Nat \ {0}
  PROVE  Spec => []IssuedRightly
<1>1. Init => IssuerInv
  BY DEF Init, IssuerInv, TypeOK, IssuedRightly, EndorsedRightly
<1>2. IssuerInv /\ [Next]_vars => IssuerInv'
  <2> SUFFICES ASSUME IssuerInv, [Next]_vars PROVE IssuerInv'
    OBVIOUS
  <2>1. CASE Next
    BY <2>1, NextKeepsInv
  <2>2. CASE UNCHANGED vars
    BY <2>2 DEF vars, IssuerInv, TypeOK, IssuedRightly, EndorsedRightly, SignedOn, Endorsers
  <2> QED
    BY <2>1, <2>2
<1>3. IssuerInv => IssuedRightly
  BY DEF IssuerInv
<1> QED
  BY <1>1, <1>2, <1>3, PTL DEF Spec
===============================================================================
