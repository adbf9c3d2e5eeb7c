--------------------------------- MODULE Wire ---------------------------------
(***************************************************************************)
(* The shapes of what browser, gateway and nodes send each other.  A JSON  *)
(* value is its kind; "absent" is a member that is not there, which is     *)
(* what JSON.stringify makes of undefined.  A decoder is the kinds it      *)
(* takes, member by member; it ignores every other member.                 *)
(***************************************************************************)
EXTENDS FiniteSets

Kind == {"absent", "null", "number", "integer", "empty", "text", "repeated",
         "point", "scalar", "grant", "points", "integers"}

\* What each require function of the wire modules lets through; base64url points and
\* hexadecimal scalars are strings, and a string may repeat another member's.
Text == {"text", "repeated", "grant", "point", "scalar"}
Str == Text \cup {"empty"}
Int == {"integer"}
Optional(kinds) == kinds \cup {"absent"}

Decodes(rule, value) ==
  \A f \in DOMAIN rule :
    (IF f \in DOMAIN value THEN value[f] ELSE "absent") \in rule[f]

-------------------------------------------------------------------------------
(***************************************************************************)
(* The sign-on body: what the SDK posts, what the gateway asks of it at    *)
(* the door, what it relays and what a node asks of that.                  *)
(***************************************************************************)

SdkBody ==
  [username |-> "text", blinded |-> "text", sessionNonce |-> "text", cnfJkt |-> "text",
   clientId |-> "text", nonce |-> "text", scope |-> "text", iss |-> "text",
   iat |-> "integer", exp |-> "integer"]

\* Faulty variant of Door: the nonce is not asked for.
DoorWithoutNonce == [clientId |-> Text, scope |-> Optional(Str)]

Door == [clientId |-> Text, nonce |-> Text, scope |-> Optional(Str)]

\* The gateway's copy of the body: an absent scope is the empty one.
Admit(body) == [body EXCEPT !.scope = IF @ = "absent" THEN "empty" ELSE @]

\* The gateway can relay anything but a nonce that is there and no string.
Relayable(body) == body.nonce \in Optional(Str)

SignOnRequestToWire(body) ==
  [f \in DOMAIN body \cup {"sessionId", "commitments", "allParticipants", "roundId"} |->
     CASE f \in {"sessionId", "roundId"} -> "text"
       [] f = "commitments" -> "points"
       [] f = "allParticipants" -> "integers"
       [] OTHER -> body[f]]

\* Faulty variant of SignOnEnvelope: the scope may not be empty, like its neighbours.
SignOnEnvelopeWithScope ==
  [roundId |-> Text, sessionId |-> Text, username |-> Text, blinded |-> Text,
   sessionNonce |-> Text, cnfJkt |-> Text, clientId |-> Text, iss |-> Text,
   scope |-> Text, nonce |-> Optional(Str), iat |-> Int, exp |-> Int,
   commitments |-> {"points"}, allParticipants |-> {"integers"}]

SignOnEnvelope ==
  [roundId |-> Text, sessionId |-> Text, username |-> Text, blinded |-> Text,
   sessionNonce |-> Text, cnfJkt |-> Text, clientId |-> Text, iss |-> Text,
   scope |-> Str, nonce |-> Optional(Str), iat |-> Int, exp |-> Int,
   commitments |-> {"points"}, allParticipants |-> {"integers"}]

\* The claims a node signs, out of the request.
Claims(request) ==
  [client_id |-> request.clientId, scope |-> request.scope, jkt |-> request.cnfJkt,
   nonce |-> request.nonce, iat |-> request.iat, exp |-> request.exp]

\* deterministicJsonStringify writes an absent claim out as undefined.
Parses(claims) == \A f \in DOMAIN claims : claims[f] # "absent"

-------------------------------------------------------------------------------
(***************************************************************************)
(* The other calls to a node, and the answers.                             *)
(***************************************************************************)

CommitRequestToWire == [roundId |-> "text"]

CommitEnvelope == [roundId |-> Text]

\* Only the credential the grant names travels: an assertion here, a refresh token there.
SignRequestToWire ==
  [roundId |-> "text", refreshRoundId |-> "text", grant |-> "grant", dpopProof |-> "text",
   credential |-> "text", iat |-> "integer", exp |-> "integer", jti |-> "text",
   refreshExp |-> "integer", commitments |-> "points", refreshCommitments |-> "points",
   allParticipants |-> "integers"]

\* The two rounds must differ.
SignEnvelope ==
  [roundId |-> Text, refreshRoundId |-> Text \ {"repeated"}, grant |-> {"grant"}, dpopProof |-> Text,
   credential |-> Text, iat |-> Int, exp |-> Int, jti |-> Text,
   refreshExp |-> Optional(Int), commitments |-> {"points"},
   refreshCommitments |-> {"points"}, allParticipants |-> {"integers"}]

Envelope(path) ==
  CASE path = "/commit" -> CommitEnvelope
    [] path = "/sign-on" -> SignOnEnvelope
    [] path = "/sign" -> SignEnvelope

\* What a node answers.
HealthToWire == [status |-> "text", nodeId |-> "integer", groupPublicKey |-> "text"]

CommitToWire == [nodeId |-> "integer", D |-> "point", E |-> "point"]

SignOnResponseToWire ==
  [nodeId |-> "integer", D |-> "point", E |-> "point", toprfPartial |-> "text",
   ct_i |-> "text", sessionId |-> "text", sub |-> "text"]

SignResponseToWire ==
  [nodeId |-> "integer", atD |-> "point", atE |-> "point", atZ |-> "scalar",
   rtD |-> "point", rtE |-> "point", rtZ |-> "scalar"]

AnswerToWire(path) ==
  CASE path = "/health" -> HealthToWire
    [] path = "/commit" -> CommitToWire
    [] path = "/sign-on" -> SignOnResponseToWire
    [] path = "/sign" -> SignResponseToWire

\* What the gateway takes for an answer.
ResponseFromWire(path) ==
  CASE path = "/health" ->
         [status |-> Text, nodeId |-> Int, groupPublicKey |-> Text]
    [] path = "/commit" ->
         [nodeId |-> Int, D |-> {"point"}, E |-> {"point"}]
    [] path = "/sign-on" ->
         [nodeId |-> Int, D |-> {"point"}, E |-> {"point"}, toprfPartial |-> Text,
          ct_i |-> Text, sessionId |-> Text, sub |-> Text]
    [] path = "/sign" ->
         [nodeId |-> Int, atD |-> {"point"}, atE |-> {"point"}, atZ |-> {"scalar"},
          rtD |-> {"point"}, rtE |-> {"point"}, rtZ |-> {"scalar"}]
===============================================================================
