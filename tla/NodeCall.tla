------------------------------- MODULE NodeCall -------------------------------
(***************************************************************************)
(* What the proxy takes a call to a node to be.  It comes to an end at the *)
(* gateway, answered or failed.  The node does what it was asked once or   *)
(* never, and it did so if the call was answered; of a call that failed    *)
(* the gateway knows nothing: the node may have done it, or may still.     *)
(***************************************************************************)
EXTENDS Naturals

CONSTANT Node

VARIABLES
  call,  \* how the last call to a node stands at the gateway
  did    \* how often the node did what that call asks

callVars == <<call, did>>

CallInit ==
  /\ call = [n \in Node |-> "none"]
  /\ did = [n \in Node |-> 0]

\* Calls that begin together, and one settling at the same time. A node that failed is
\* not asked again.
Ask(nodes) ==
  /\ nodes # {}
  /\ \A n \in nodes : call[n] \in {"none", "ok"}
  /\ call' = [n \in Node |-> IF n \in nodes THEN "waiting" ELSE call[n]]
  /\ did' = [n \in Node |-> IF n \in nodes THEN 0 ELSE did[n]]

Do(n) ==
  /\ call[n] \in {"waiting", "failed"}
  /\ did[n] = 0
  /\ did' = [did EXCEPT ![n] = 1]
  /\ UNCHANGED call

Answered(n) ==
  /\ call[n] = "waiting"
  /\ did[n] = 1
  /\ call' = [call EXCEPT ![n] = "ok"]
  /\ UNCHANGED did

Failed(n) ==
  /\ call[n] = "waiting"
  /\ call' = [call EXCEPT ![n] = "failed"]
  /\ UNCHANGED did

CallNext ==
  \/ \E nodes \in SUBSET Node : Ask(nodes)
  \/ \E n \in Node : Do(n) \/ Answered(n) \/ Failed(n)

CallSafe == CallInit /\ [][CallNext]_callVars

CallSpec ==
  /\ CallSafe
  /\ \A n \in Node : WF_callVars(Answered(n) \/ Failed(n))
===============================================================================
