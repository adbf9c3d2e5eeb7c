----------------------------- MODULE MCPastaProxy -----------------------------
(***************************************************************************)
(* Small instances of PastaProxy: the sign-on bodies each run posts and    *)
(* the round ids its requests use.                                         *)
(***************************************************************************)
EXTENDS ProxyIssuer

CONSTANTS n1, n2, unknown  \* node ids to name in explicit bodies

MCRoundId == Request \X {"commit", "refresh"}

\* A sign-on posted at the start of time, for the longest lifetime.
BodyOf(jkt, password, participants) ==
  [kind |-> "sign-on", username |-> CHOOSE u \in User : TRUE, iss |-> Issuer,
   client_id |-> CHOOSE c \in Client : TRUE, jkt |-> jkt,
   iat |-> 0, exp |-> MAX_ASSERTION_LIFETIME_SECONDS,
   decodes |-> TRUE, password |-> password, participants |-> participants]

OneBody == {BodyOf(CHOOSE k \in Jkt : TRUE, TRUE, Unspecified)}

PlainBodies == {BodyOf(k, TRUE, Unspecified) : k \in Jkt}

Plain == {BodyOf(CHOOSE k \in Jkt : TRUE, p, Unspecified) : p \in BOOLEAN}

\* Participants named: a proper pair, the same node twice, one nobody knows, too few.
Named ==
  {BodyOf(CHOOSE k \in Jkt : TRUE, TRUE, named) :
     named \in {<<n1, n2>>, <<n1, n1>>, <<n1, n1, n2>>, <<n1, unknown>>, <<n1>>}}

\* Bodies a node refuses, or spends its round on for nothing.
Refused ==
  LET body == BodyOf(CHOOSE k \in Jkt : TRUE, TRUE, Unspecified)
  IN {[body EXCEPT !.username = "unregistered"], [body EXCEPT !.iss = "foreign"],
      [body EXCEPT !.decodes = FALSE], [body EXCEPT !.iat = CLOCK_SKEW_SECONDS + 1],
      [body EXCEPT !.exp = 0]}

AnyBody == Plain \cup Named \cup Refused
===============================================================================
