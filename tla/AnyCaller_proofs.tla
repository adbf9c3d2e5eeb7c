--------------------------- MODULE AnyCaller_proofs ---------------------------
(***************************************************************************)
(* The behaviours TLC explores are behaviours of the nodes as the proofs   *)
(* see them: what is proved of NodeSpec holds of every instance of         *)
(* AnyCaller.                                                              *)
(***************************************************************************)
EXTENDS AnyCaller, IdentityNode_proofs

\* A presentable credential, put into a call, makes a request.
LEMMA CallTyped ==
  ASSUME NodeTypeOK, NEW call \in SignCalls, NEW c \in Presentable
  PROVE  WithCredential(call, c) \in SignRequest /\ Unforged(WithCredential(call, c).credential)
<1>1. c \in Credential /\ Unforged(c)
  BY DEF Presentable, Credential, NodeTypeOK, Share
<1>2. call \in SignCall
  BY CallsAssumption
<1> QED
  BY <1>1, <1>2 DEF SignCall, WithCredential, SignRequest

\* Any caller's step is a step of the nodes.
LEMMA CallsAreSteps ==
  ASSUME NodeTypeOK, Next
  PROVE  NodeStep
<1>1. CASE CallCommit
  BY <1>1 DEF CallCommit, NodeStep
<1>2. CASE CallSignOn
  BY <1>2, CallsAssumption DEF CallSignOn, NodeStep
<1>3. CASE CallSign
  <2>1. PICK n \in Node, ar \in RoundId, rr \in RoundId, call \in SignCalls,
             c \in Presentable : HandleSign(n, ar, rr, WithCredential(call, c))
    BY <1>3 DEF CallSign
  <2> QED
    BY <2>1, CallTyped DEF NodeStep
<1>4. CASE RestartNode
  BY <1>4 DEF RestartNode, NodeStep
<1>5. CASE Tick
  BY <1>5 DEF NodeStep
<1> QED
  BY <1>1, <1>2, <1>3, <1>4, <1>5 DEF Next

\* A caller that follows no protocol gets no behaviour out of the nodes that NodeSpec does
\* not allow, so none of the nodes' theorems depends on the gateway (node.ts 228-469).
THEOREM CallersImplementNodeSpec == Spec => NodeSpec
<1>1. NodeTypeOK /\ [Next]_<<nodeVars, now>> => [NodeStep]_<<nodeVars, now>>
  BY CallsAreSteps
<1>2. NodeInit => NodeTypeOK
  BY DEF NodeInit, NodeTypeOK, NoNonce
<1>3. NodeTypeOK /\ [Next]_<<nodeVars, now>> => NodeTypeOK'
  <2> SUFFICES ASSUME NodeTypeOK, [Next]_<<nodeVars, now>> PROVE NodeTypeOK'
    OBVIOUS
  <2>1. CASE NodeStep
    BY <2>1, StepTyped
  <2>2. CASE UNCHANGED <<nodeVars, now>>
    BY <2>2 DEF nodeVars, NodeTypeOK
  <2> QED
    BY <1>1, <2>1, <2>2
<1> QED
  BY <1>1, <1>2, <1>3, PTL DEF Spec, NodeSpec

\* So the properties the runs of AnyCaller check hold of any number of nodes and calls.
COROLLARY CallersAreSafe ==
  Spec => [](NonceSingleUse /\ OpenNoncesUnused /\ TokensDescendFromSignOn /\ SpendWindow)
BY CallersImplementNodeSpec, NoncesUsedOnce, OpenRoundsAreFresh, TokensDescend,
   CredentialsExpire, PTL
===============================================================================
