------------------------------ MODULE AnyCaller ------------------------------
(***************************************************************************)
(* The nodes under a caller that follows no protocol: any request of a     *)
(* given set, for any round, in any order, with any credential it could    *)
(* hold.  This is what a node sees of a gateway that restarts, of several  *)
(* gateways, or of retries, and what a node must be safe under by itself.  *)
(***************************************************************************)
EXTENDS IdentityNode

CONSTANTS
  SignOnCalls,  \* the sign-on requests the caller may send
  SignCalls,    \* the sign requests it may send, credential aside
  WithRestarts  \* whether nodes restart

\* A sign request without its credential.
SignCall ==
  [grant : Grant, proof : Proof,
   iat : Int, exp : Int, jti : Jti \cup {NoJti}, refreshExp : Int \cup {Unpinned},
   decodes : BOOLEAN, commitments : SUBSET Commitment, refreshCommitments : SUBSET Commitment]

ASSUME CallsAssumption == SignOnCalls \subseteq SignOnRequest /\ SignCalls \subseteq SignCall

\* What the caller can present: any message it has seen a share of, group signed or not.
Presentable ==
  {c \in [msg : {s.msg : s \in shares}, sigOk : BOOLEAN] : Unforged(c)}

WithCredential(call, credential) ==
  [grant |-> call.grant, credential |-> credential, proof |-> call.proof,
   iat |-> call.iat, exp |-> call.exp, jti |-> call.jti,
   refreshExp |-> call.refreshExp, decodes |-> call.decodes,
   commitments |-> call.commitments, refreshCommitments |-> call.refreshCommitments]

CallCommit == \E n \in Node, r \in RoundId : GenerateCommitment(n, r)

CallSignOn == \E n \in Node, r \in RoundId, req \in SignOnCalls :
  HandleSignOn(n, r, req)

CallSign ==
  \E n \in Node, ar, rr \in RoundId, call \in SignCalls, c \in Presentable :
    HandleSign(n, ar, rr, WithCredential(call, c))

RestartNode == WithRestarts /\ \E n \in Node : Restart(n)

Next == CallCommit \/ CallSignOn \/ CallSign \/ RestartNode \/ Tick

Spec == NodeInit /\ [][Next]_<<nodeVars, now>>
===============================================================================
