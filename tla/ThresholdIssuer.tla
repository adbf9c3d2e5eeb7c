---------------------------- MODULE ThresholdIssuer ----------------------------
(***************************************************************************)
(* What the nodes and the gateway promise together: an issuer that no      *)
(* single machine is.  A node endorses messages one request at a time;     *)
(* a JWT comes to exist only once a threshold of nodes has endorsed it,    *)
(* and a node endorses a token only for the holder of an assertion or a    *)
(* refresh token that already exists.  Rounds, nonces, timeouts, retries   *)
(* and restarts are not visible here.                                      *)
(***************************************************************************)
EXTENDS FiniteSets, Naturals

CONSTANTS
  Node, Threshold,
  Message,      \* every message the group may sign, with its typ and holder
  AssertionTyp, AccessTyp, RefreshTyp

VARIABLES
  endorsed,  \* which node has signed which message
  issued     \* the messages that exist with a verifying group signature

vars == <<endorsed, issued>>

TypeOK ==
  /\ endorsed \subseteq Node \X Message
  /\ issued \subseteq Message

Init == endorsed = {} /\ issued = {}

OfTyp(typ) == {m \in Message : m.typ = typ}

Endorsers(msg) == {n \in Node : <<n, msg>> \in endorsed}

\* A sign-on: the node vouches for the holder on its own configuration.
EndorseAssertion(n, msg) ==
  /\ endorsed' = endorsed \cup {<<n, msg>>}
  /\ UNCHANGED issued

\* A token request: the node endorses an access token and its refresh token, for the
\* holder of a credential that was issued.
EndorseTokens(n, at, rt) ==
  /\ at.holder = rt.holder
  /\ at.iat = rt.iat
  /\ \E c \in issued : c.typ \in {AssertionTyp, RefreshTyp} /\ c.holder = at.holder
  /\ endorsed' = endorsed \cup {<<n, at>>, <<n, rt>>}
  /\ UNCHANGED issued

\* A browser assembles one assertion, the gateway an access and a refresh token.
Issue(M) ==
  /\ \A msg \in M : Cardinality(Endorsers(msg)) >= Threshold
  /\ issued' = issued \cup M
  /\ UNCHANGED endorsed

Next ==
  \/ \E n \in Node, a \in OfTyp(AssertionTyp) : EndorseAssertion(n, a)
  \/ \E n \in Node, at \in OfTyp(AccessTyp), rt \in OfTyp(RefreshTyp) :
       EndorseTokens(n, at, rt)
  \/ \E a \in OfTyp(AssertionTyp) : Issue({a})
  \/ \E at \in OfTyp(AccessTyp), rt \in OfTyp(RefreshTyp) :
       at.holder = rt.holder /\ Issue({at, rt})

Spec == Init /\ [][Next]_vars

\* Whatever was issued has its threshold of endorsements and, behind it, an issued
\* assertion for the same holder (node.ts 370-373, proxy.ts 284-340).
IssuedRightly ==
  \A msg \in issued :
    /\ Cardinality(Endorsers(msg)) >= Threshold
    /\ \E a \in issued : a.typ = AssertionTyp /\ a.holder = msg.holder
===============================================================================
