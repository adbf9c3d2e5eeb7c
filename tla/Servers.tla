------------------------------- MODULE Servers --------------------------------
(***************************************************************************)
(* One HTTP request through the gateway: the connection of a browser to    *)
(* the gateway, and those the gateway opens to the nodes to serve it.  The *)
(* same browser connection may lead to a node instead: nodes listen too.   *)
(*                                                                         *)
(* A body arrives in pieces and ends with end, close or error, in whatever *)
(* order the socket brings them; the first to come decides.  Connections   *)
(* are lost at any time.  A node may hang: nothing is assumed of it, and   *)
(* the gateway gives each call up when its timer fires.                    *)
(***************************************************************************)
EXTENDS Wire, Naturals, Sequences

CONSTANTS
  Node,
  Browser,     \* the browser's connection
  Threshold,
  MaxBody,     \* MAX_BODY_BYTES, in pieces of a body
  MaxDrain,    \* MAX_DRAIN_BYTES, likewise
  Varied,      \* members of a sign-on body a caller may get wrong
  WrongKind    \* and how

ASSUME BrowserAssumption == Browser \notin Node
ASSUME ThresholdAssumption == Threshold \in Nat \ {0}
ASSUME SizeAssumption == MaxBody \in Nat \ {0} /\ MaxDrain \in Nat /\ MaxBody < MaxDrain
ASSUME WrongKindAssumption == Varied \subseteq DOMAIN SdkBody /\ WrongKind \subseteq Kind

Conn == Node \cup {Browser}

VARIABLES
  conn,    \* the connections
  round,   \* which of its calls the gateway's handler is at
  asked,   \* the nodes that call went to
  signed   \* history: the claims of every assertion a node signed, and for whom

serverVars == <<conn, round, asked, signed>>

-------------------------------------------------------------------------------
(***************************************************************************)
(* Requests.                                                               *)
(***************************************************************************)

RoundPath == {"/commit", "/sign-on", "/sign"}

\* The calls to nodes each gateway route makes, one after the other.
Calls(path) ==
  CASE path = "/health" -> <<"/health">>
    [] path = "/api/pasta/sign-on" -> <<"/commit", "/sign-on">>
    [] path = "/token" -> <<"/commit", "/commit", "/sign">>

NeedsBody(r) ==
  r.method = "POST" /\ r.path \in IF r.to = "node" THEN RoundPath
                                  ELSE {"/api/pasta/sign-on", "/token"}

Requests(to, methods, paths, lengths, json, bodies) ==
  [to : {to}, method : methods, path : paths, length : lengths, json : json, body : bodies]

\* The body an SDK posts, but for one member at most.
SignOnBodies ==
  {SdkBody} \cup {[SdkBody EXCEPT ![f] = k] : f \in Varied, k \in WrongKind}

BodiesAt(path) ==
  CASE path = "/commit" -> {CommitRequestToWire, [roundId |-> "empty"]}
    [] path = "/sign-on" -> {SignOnRequestToWire(b) : b \in SignOnBodies}
    [] path = "/sign" -> {SignRequestToWire, [SignRequestToWire EXCEPT !.credential = "absent"],
                            [SignRequestToWire EXCEPT !.refreshRoundId = "repeated"]}
    [] path = "/api/pasta/sign-on" -> SignOnBodies
    [] OTHER -> {SdkBody}

\* What a caller may ask: any method and path without a body, any length that is no
\* JSON (or no form), and any JSON that ends where the limits are or that fits.
BrowserRequest ==
  LET lengths == 0..(MaxDrain + 1)
      post(to, path) ==
        Requests(to, {"POST"}, {path}, lengths, {FALSE}, {SdkBody})
          \cup Requests(to, {"POST"}, {path}, MaxBody..(MaxBody + 1), {TRUE}, BodiesAt(path))
  IN Requests("gateway", {"GET", "HEAD", "POST", "OPTIONS"}, {"/health", "/authorize", "/demo"},
              {0}, {FALSE}, {SdkBody})
       \cup Requests("node", {"GET", "HEAD", "POST"}, {"/health", "/demo"}, {0}, {FALSE}, {SdkBody})
       \cup Requests("node", {"GET"}, RoundPath, {0}, {FALSE}, {SdkBody})
       \cup (UNION {post("gateway", p) : p \in {"/api/pasta/sign-on", "/token"}})
       \cup (UNION {post("node", p) : p \in RoundPath})

\* The calls of the gateway's client; their bodies fit.
NodeRequest(path, body) ==
  [to |-> "node", method |-> IF path = "/health" THEN "GET" ELSE "POST", path |-> path,
   length |-> IF path = "/health" THEN 0 ELSE 1, json |-> TRUE, body |-> body]

\* A connection: how the caller's side stands, how much of the body came and is held,
\* how far the handler is, what it answered and how often it did what was asked.
Opened(r) ==
  [request |-> r, client |-> "waiting", sent |-> 0, kept |-> 0,
   server |-> "idle", answer |-> "none", did |-> 0]

NotOpened == [Opened(NodeRequest("/health", SdkBody)) EXCEPT !.client = "none"]

ServersInit ==
  /\ \E r \in BrowserRequest :
       conn = [c \in Conn |-> IF c = Browser THEN Opened(r) ELSE NotOpened]
  /\ round = 0
  /\ asked = {}
  /\ signed = {}

-------------------------------------------------------------------------------
(***************************************************************************)
(* The body: readBody, the same in both servers.                           *)
(***************************************************************************)

Answer(k, a) == [k EXCEPT !.server = "done", !.answer = a]

\* Faulty variant of Piece: an over-long body is kept until it ends.
PieceKept(k) ==
  LET n == k.sent + 1 IN
  [k EXCEPT !.sent = n, !.kept = @ + 1, !.client = IF n > MaxDrain THEN "failed" ELSE @]

\* A piece is kept, or dropped with all before it; past the drain the socket is cut.
Piece(k) ==
  LET n == k.sent + 1 IN
  IF n <= MaxBody THEN [k EXCEPT !.sent = n, !.kept = @ + 1]
  ELSE [k EXCEPT !.sent = n, !.kept = 0, !.client = IF n > MaxDrain THEN "failed" ELSE @]

Upload(c) ==
  /\ conn[c].server = "reading"
  /\ conn[c].client = "waiting"
  /\ conn[c].sent < conn[c].request.length
  /\ conn' = [conn EXCEPT ![c] = Piece(@)]
  /\ UNCHANGED <<round, asked, signed>>

Ended(k) ==
  /\ k.server = "reading"
  /\ k.sent = k.request.length
  /\ k.sent <= MaxDrain

TooLarge(k) == k.sent > MaxBody

\* Faulty variant of Aborted: a body cut short is answered like any other.
AbortedAnswered(k) == Answer(k, "malformed")

\* The caller hung up before the end: nothing is answered.
Aborted(k) == [k EXCEPT !.server = "done"]

Closed(c) ==
  /\ conn[c].server = "reading"
  /\ conn[c].client = "failed"
  /\ conn' = [conn EXCEPT ![c] = Aborted(@)]
  /\ UNCHANGED <<round, asked, signed>>

-------------------------------------------------------------------------------
(***************************************************************************)
(* A node's server.                                                        *)
(***************************************************************************)

Done(k) == [Answer(k, "ok") EXCEPT !.did = @ + 1]

NodeRoute(k) ==
  LET r == k.request IN
  CASE r.path = "/health" ->
         IF r.method \in {"GET", "HEAD"} THEN Done(k) ELSE Answer(k, "not allowed")
    [] r.path \in RoundPath ->
         IF r.method = "POST" THEN [k EXCEPT !.server = "reading"] ELSE Answer(k, "not allowed")
    [] OTHER -> Answer(k, "not found")

NodeArrive(c) ==
  /\ conn[c].request.to = "node"
  /\ conn[c].server = "idle"
  /\ conn[c].client # "none"
  /\ conn' = [conn EXCEPT ![c] = NodeRoute(@)]
  /\ UNCHANGED <<round, asked, signed>>

\* The whole body is there: 413, 400 for no JSON or another shape, or the protocol's
\* handler, which refuses or does it. Nothing is awaited in between.
WellFormed(r) == r.json /\ Decodes(Envelope(r.path), r.body)

NodeEnd(c) ==
  /\ conn[c].request.to = "node"
  /\ Ended(conn[c])
  /\ LET k == conn[c]
         r == k.request
     IN \/ /\ TooLarge(k)
           /\ conn' = [conn EXCEPT ![c] = Answer(k, "too large")]
           /\ UNCHANGED signed
        \/ /\ ~TooLarge(k) /\ ~WellFormed(r)
           /\ conn' = [conn EXCEPT ![c] = Answer(k, "malformed")]
           /\ UNCHANGED signed
        \/ /\ ~TooLarge(k) /\ WellFormed(r)
           /\ conn' = [conn EXCEPT ![c] = Answer(k, "refused")]
           /\ UNCHANGED signed
        \/ /\ ~TooLarge(k) /\ WellFormed(r)
           /\ conn' = [conn EXCEPT ![c] = Done(k)]
           /\ signed' = IF r.path = "/sign-on"
                        THEN signed \cup {[caller |-> c, claims |-> Claims(r.body)]}
                        ELSE signed
  /\ UNCHANGED <<round, asked>>

-------------------------------------------------------------------------------
(***************************************************************************)
(* The gateway's server, and the calls of its handlers.                    *)
(***************************************************************************)

gateway == conn[Browser]

\* The handler goes on to its i-th call, at every node of a set.
CallNodes(k, i, nodes) ==
  LET path == Calls(k.request.path)[i]
      body == CASE path = "/commit" -> CommitRequestToWire
                [] path = "/sign-on" -> SignOnRequestToWire(Admit(k.request.body))
                [] path = "/sign" -> SignRequestToWire
                [] OTHER -> SdkBody
  IN /\ conn' = [c \in Conn |-> IF c = Browser THEN [k EXCEPT !.server = "working"]
                                ELSE IF c \in nodes THEN Opened(NodeRequest(path, body))
                                ELSE conn[c]]
     /\ round' = i
     /\ asked' = nodes

\* Pages and documents: served, or refused for what the query says.
PageAnswers(r) ==
  CASE r.method = "OPTIONS" -> {"ok"}
    [] r.method \in {"GET", "HEAD"} -> {"ok", "malformed", "not allowed", "not found"}
    [] OTHER -> {"not found"}

GatewayArrive ==
  /\ gateway.request.to = "gateway"
  /\ gateway.server = "idle"
  /\ LET r == gateway.request IN
     \/ /\ r.path = "/health" /\ r.method \in {"GET", "HEAD"}
        /\ CallNodes(gateway, 1, Node)
     \/ /\ NeedsBody(r)
        /\ conn' = [conn EXCEPT ![Browser].server = "reading"]
        /\ UNCHANGED <<round, asked>>
     \/ /\ ~(r.path = "/health" /\ r.method \in {"GET", "HEAD"}) /\ ~NeedsBody(r)
        /\ \E a \in PageAnswers(r) : conn' = [conn EXCEPT ![Browser] = Answer(@, a)]
        /\ UNCHANGED <<round, asked>>
  /\ UNCHANGED signed

Reply(a) ==
  /\ conn' = [conn EXCEPT ![Browser] = Answer(@, a)]
  /\ UNCHANGED <<round, asked>>

\* The whole body is there. A sign-on passes the door or is sent away; a token request
\* may be refused for its form, its proof or its credential before a node is called.
GatewayEnd ==
  /\ gateway.request.to = "gateway"
  /\ Ended(gateway)
  /\ LET r == gateway.request IN
     \/ TooLarge(gateway) /\ Reply("too large")
     \/ /\ ~TooLarge(gateway) /\ r.path = "/api/pasta/sign-on"
        /\ IF r.json /\ Decodes(Door, r.body) THEN CallNodes(gateway, 1, Node)
           ELSE Reply("malformed")
     \/ ~TooLarge(gateway) /\ r.path = "/token" /\ Reply("refused")
     \/ /\ ~TooLarge(gateway) /\ r.path = "/token" /\ r.json
        /\ CallNodes(gateway, 1, Node)
  /\ UNCHANGED signed

Answering == {n \in asked : conn[n].client = "ok"}
Settled == \A n \in asked : conn[n].client # "waiting"
Enough == Cardinality(Answering) >= Threshold

\* Whether the handler can go on: a first call waits for every node and needs enough of
\* them, a last one fails with the first that fails, and one in between waits for every
\* node and needs them all. A nonce that cannot be relayed fails the request, too.
LastCall == round = Len(Calls(gateway.request.path))
Succeeded ==
  /\ Settled
  /\ IF round = 1 THEN Enough ELSE Answering = asked
  /\ Relayable(gateway.request.body)
CallFailed ==
  IF round > 1 /\ LastCall THEN \E n \in asked : conn[n].client \notin {"waiting", "ok"}
  ELSE Settled /\ ~Succeeded

GatewayProceeds ==
  /\ gateway.server = "working"
  /\ \/ Succeeded /\ LastCall /\ Reply("ok")
     \/ Succeeded /\ ~LastCall /\ CallNodes(gateway, round + 1, Answering)
     \/ CallFailed /\ Reply(IF gateway.request.path = "/health" THEN "degraded" ELSE "refused")
  /\ UNCHANGED signed

-------------------------------------------------------------------------------
(***************************************************************************)
(* The caller's side of a connection.                                      *)
(***************************************************************************)

\* Faulty variant of Heard: the status is not looked at.
HeardAny(c, k) == "ok"

\* The answer is read. A node's is decoded, and refused if it has another shape.
Heard(c, k) ==
  IF k.answer # "ok" THEN "refused"
  ELSE IF c = Browser \/ Decodes(ResponseFromWire(k.request.path), AnswerToWire(k.request.path))
       THEN "ok" ELSE "garbled"

Deliver(c) ==
  /\ conn[c].client = "waiting"
  /\ conn[c].answer # "none"
  /\ conn' = [conn EXCEPT ![c].client = Heard(c, conn[c])]
  /\ UNCHANGED <<round, asked, signed>>

\* Faulty variant of Lose: calls have no timer.
LoseUntimed(c) ==
  /\ conn[c].client = "waiting"
  /\ conn[c].server = "done"
  /\ conn' = [conn EXCEPT ![c].client = "failed"]
  /\ UNCHANGED <<round, asked, signed>>

\* The caller hangs up, the connection is refused or lost, or the call's timer fires.
Lose(c) ==
  /\ conn[c].client = "waiting"
  /\ conn' = [conn EXCEPT ![c].client = "failed"]
  /\ UNCHANGED <<round, asked, signed>>

ServersNext ==
  \/ GatewayArrive \/ GatewayEnd \/ GatewayProceeds
  \/ \E c \in Conn : \/ NodeArrive(c) \/ NodeEnd(c)
                     \/ Upload(c) \/ Closed(c) \/ Deliver(c) \/ Lose(c)

\* The server the browser talks to runs, its answers arrive or the connection fails, and
\* the timer of a node call fires. A node may hang and a browser stop sending.
ServersFairness ==
  /\ WF_serverVars(GatewayArrive \/ GatewayEnd \/ GatewayProceeds
                     \/ NodeArrive(Browser) \/ NodeEnd(Browser))
  /\ WF_serverVars(Closed(Browser))
  /\ WF_serverVars(Deliver(Browser))
  /\ \A n \in Node : WF_serverVars(Deliver(n) \/ Lose(n))

ServersSafe == ServersInit /\ [][ServersNext]_serverVars
ServersSpec == ServersSafe /\ ServersFairness

-------------------------------------------------------------------------------
(***************************************************************************)
(* What the servers promise.                                               *)
(***************************************************************************)

\* Every connection holds what the code's variables can hold; a server never keeps more
\* of a body than its limit.
ServersTypeOK ==
  /\ \A c \in Conn :
       /\ conn[c].client \in {"none", "waiting", "ok", "refused", "garbled", "failed"}
       /\ conn[c].sent \in 0..conn[c].request.length
       /\ conn[c].kept \in 0..MaxBody
       /\ conn[c].server \in {"idle", "reading", "working", "done"}
       /\ conn[c].answer \in {"none", "ok", "refused", "malformed", "too large",
                              "not allowed", "not found", "degraded"}
       /\ conn[c].did \in 0..1
  /\ round \in 0..3
  /\ asked \subseteq Node
  /\ \A s \in signed : s.caller \in Conn /\ \A f \in DOMAIN s.claims : s.claims[f] \in Kind

\* Whatever the order of end, close and error: an upload is answered when all of it has
\* come and never sooner, and anything but 413 out of a body held from its first piece to
\* its last. A caller that hung up before is not answered at all.
AnsweredAfterUpload ==
  \A c \in Conn : LET k == conn[c] IN
    NeedsBody(k.request) /\ k.answer # "none" =>
      /\ k.sent = k.request.length
      /\ k.kept = IF k.answer = "too large" THEN 0 ELSE k.request.length

\* Whatever body it is asked with, the gateway never has a node sign a payload that no
\* one can parse. The nodes alone do not see to that: a nonce is optional to them.
SignedPayloadParses == \A s \in signed : s.caller \in Node => Parses(s.claims)

\* A body as an SDK sends it, with any scope or none, is understood all the way: no
\* door, no decoder of a node and none of the gateway takes it, or an answer, for
\* malformed.
Understood ==
  gateway.request.to = "gateway" /\ gateway.request.json
    /\ gateway.request.body \in {[SdkBody EXCEPT !.scope = k] : k \in {"absent", "empty", "text"}}
  => \A c \in Conn : conn[c].answer # "malformed" /\ conn[c].client # "garbled"

\* The connections to nodes, as the proxy sees them.
NodeCalls ==
  INSTANCE NodeCall WITH
    call <- [n \in Node |-> IF conn[n].client \in {"refused", "garbled"} THEN "failed"
                            ELSE conn[n].client],
    did <- [n \in Node |-> conn[n].did]

\* A call to a node behaves as PastaProxy takes it to: it ends, and an answered one was
\* done exactly once.
CallsAreNodeCalls == NodeCalls!CallSpec

\* A request the browser has sent, or has given up, is over some time: its handler ends
\* and nobody waits any more, though every node may hang.
Over(k) == k.server = "done" /\ k.client # "waiting"

RequestsEnd == (gateway.sent = gateway.request.length \/ gateway.client = "failed") ~> Over(gateway)
===============================================================================
