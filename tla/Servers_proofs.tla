---------------------------- MODULE Servers_proofs ----------------------------
(***************************************************************************)
(* What the servers promise for any number of nodes, any limits and any    *)
(* bodies: an upload is answered after its end, what nodes sign parses,    *)
(* what a browser sends plainly is understood on the whole way, and a call *)
(* to a node is a NodeCall.                                                *)
(***************************************************************************)
EXTENDS Servers, TLAPS

-------------------------------------------------------------------------------
(***************************************************************************)
(* The invariant.                                                          *)
(***************************************************************************)

\* A connection has these members; only its counts are of a type that matters.
Connection(k) ==
  k \in [request : {k.request}, sent : Nat, kept : {k.kept},
         client : {"none", "waiting", "ok", "refused", "garbled", "failed"},
         server : {k.server}, answer : {k.answer}, did : {k.did}]

\* The body came to its end and is held from its first piece on.
Whole(k) == k.sent = k.request.length /\ k.kept = k.sent

\* How far the handler is tells what came of the body, whether there is an answer and
\* whether the node did what was asked; what the caller heard was answered.
Consistent(k) ==
  /\ k.server = "idle" => k.answer = "none" /\ k.did = 0 /\ k.sent = 0 /\ k.kept = 0
  /\ k.server = "reading" =>
       /\ NeedsBody(k.request)
       /\ k.answer = "none" /\ k.did = 0
       /\ k.kept = IF k.sent <= MaxBody THEN k.sent ELSE 0
  /\ k.server = "working" =>
       /\ k.request.to = "gateway"
       /\ k.answer = "none"
       /\ NeedsBody(k.request) => Whole(k)
  /\ k.answer \notin {"none", "too large"} /\ NeedsBody(k.request) => Whole(k)
  /\ k.answer = "too large" /\ NeedsBody(k.request) => k.sent = k.request.length /\ k.kept = 0
  /\ k.answer = "ok" /\ k.request.to = "node" => k.did = 1
  /\ k.client \in {"ok", "refused", "garbled"} => k.answer # "none"
  /\ k.client = "ok" => k.answer = "ok"
  /\ k.client = "none" => k.server = "idle"

Sound(k) == Connection(k) /\ Consistent(k)

\* No node is called before the gateway has read the request.
NoneCalled ==
  gateway.request.to = "gateway" /\ gateway.server \in {"idle", "reading"} =>
    \A n \in Node : conn[n].client = "none"

ServersInv ==
  /\ conn = [c \in Conn |-> conn[c]]
  /\ asked \subseteq Node
  /\ gateway.client # "none"
  /\ \A n \in Node : conn[n].request.to = "node"
  /\ \A c \in Conn : Sound(conn[c])
  /\ NoneCalled

-------------------------------------------------------------------------------
(***************************************************************************)
(* What each server does to one connection.                                *)
(***************************************************************************)

\* A connection just opened is sound.
LEMMA OpenedSound == ASSUME NEW r PROVE Sound(Opened(r))
  BY DEF Sound, Connection, Consistent, Opened

\* The calls of the gateway go to nodes.
LEMMA NodeRequestTo == ASSUME NEW p, NEW b PROVE NodeRequest(p, b).to = "node"
  BY DEF NodeRequest

\* A piece of a body leaves the handler reading, and holds what came up to the limit.
LEMMA PieceSound ==
  ASSUME NEW k, Sound(k), k.server = "reading", k.client = "waiting"
  PROVE  /\ Sound(Piece(k))
         /\ Piece(k).request = k.request /\ Piece(k).server = k.server
         /\ Piece(k).did = k.did /\ Piece(k).client \in {"waiting", "failed"}
<1>. /\ k.sent \in Nat /\ k.answer = "none" /\ k.did = 0 /\ NeedsBody(k.request)
     /\ k.kept = IF k.sent <= MaxBody THEN k.sent ELSE 0
  BY DEF Sound, Connection, Consistent
<1>. DEFINE n == k.sent + 1
            m == k.kept + 1
            client == IF n > MaxDrain THEN "failed" ELSE k.client
<1>1. Piece(k) = IF n <= MaxBody THEN [k EXCEPT !.sent = n, !.kept = m]
                 ELSE [k EXCEPT !.sent = n, !.kept = 0, !.client = client]
  BY DEF Piece
<1>2. /\ n \in Nat
      /\ n <= MaxBody => m = n
      /\ client \in {"waiting", "failed"}
  BY SizeAssumption
<1>. HIDE DEF n, m, client
<1>3. CASE n <= MaxBody
  <2>1. /\ Connection(Piece(k))
        /\ Piece(k).request = k.request /\ Piece(k).server = k.server
        /\ Piece(k).did = k.did /\ Piece(k).client = k.client
        /\ Piece(k).answer = k.answer /\ Piece(k).sent = n /\ Piece(k).kept = n
    BY <1>1, <1>2, <1>3 DEF Sound, Connection
  <2>. QED  BY <1>3, <2>1 DEF Sound, Consistent
<1>4. CASE ~(n <= MaxBody)
  <2>1. /\ Connection(Piece(k))
        /\ Piece(k).request = k.request /\ Piece(k).server = k.server
        /\ Piece(k).did = k.did /\ Piece(k).client = client
        /\ Piece(k).answer = k.answer /\ Piece(k).sent = n /\ Piece(k).kept = 0
    BY <1>1, <1>2, <1>4 DEF Sound, Connection
  <2>. QED  BY <1>2, <1>4, <2>1 DEF Sound, Consistent
<1>. QED  BY <1>3, <1>4

\* A caller that hung up is not answered.
LEMMA AbortedSound ==
  ASSUME NEW k, Sound(k), k.server = "reading"
  PROVE  /\ Sound(Aborted(k))
         /\ Aborted(k).request = k.request /\ Aborted(k).server = "done"
         /\ Aborted(k).did = k.did /\ Aborted(k).client = k.client
  BY DEF Sound, Connection, Consistent, Aborted, Whole

\* An answer ends the handler and leaves the caller's side alone.
LEMMA AnswerKeeps ==
  ASSUME NEW k, NEW a, Sound(k)
  PROVE  /\ Answer(k, a).request = k.request /\ Answer(k, a).server = "done"
         /\ Answer(k, a).did = k.did /\ Answer(k, a).client = k.client
         /\ Answer(k, a).answer = a
  BY DEF Sound, Connection, Answer

\* An answer, given as long as there was none, is sound when the body it is about has
\* come to its end, and is not "ok" unless the node did what was asked.
LEMMA AnswerSound ==
  ASSUME NEW k, NEW a, Sound(k), k.answer = "none", k.client # "none",
         a # "none",
         NeedsBody(k.request) =>
           k.sent = k.request.length /\ k.kept = IF a = "too large" THEN 0 ELSE k.sent,
         a = "ok" => k.request.to = "gateway"
  PROVE  Sound(Answer(k, a))
  BY DEF Sound, Connection, Consistent, Answer, Whole

LEMMA DoneSound ==
  ASSUME NEW k, Sound(k), k.answer = "none", k.did = 0, k.client # "none",
         NeedsBody(k.request) => Whole(k)
  PROVE  /\ Sound(Done(k))
         /\ Done(k).request = k.request /\ Done(k).server = "done"
         /\ Done(k).did = 1 /\ Done(k).client = k.client
<1>. DEFINE answered == Answer(k, "ok")
<1>1. /\ Connection(answered)
      /\ answered.request = k.request /\ answered.server = "done"
      /\ answered.did = k.did /\ answered.client = k.client /\ answered.answer = "ok"
      /\ answered.sent = k.sent /\ answered.kept = k.kept
  BY DEF Sound, Connection, Answer
<1>2. Done(k) = [answered EXCEPT !.did = answered.did + 1]
  BY DEF Done
<1>. HIDE DEF answered
<1>3. /\ Connection(Done(k))
      /\ Done(k).request = k.request /\ Done(k).server = "done"
      /\ Done(k).did = 1 /\ Done(k).client = k.client /\ Done(k).answer = "ok"
      /\ Done(k).sent = k.sent /\ Done(k).kept = k.kept
  BY <1>1, <1>2 DEF Connection
<1>. QED  BY <1>3 DEF Sound, Consistent, Whole

\* A body that came to its end is held, unless it is over-long.
LEMMA EndedWhole ==
  ASSUME NEW k, Sound(k), Ended(k)
  PROVE  /\ k.server = "reading" /\ k.answer = "none" /\ k.client # "none"
         /\ k.sent = k.request.length
         /\ k.kept = IF TooLarge(k) THEN 0 ELSE k.sent
<1>1. /\ k.sent \in Nat /\ k.server = "reading" /\ k.sent = k.request.length
      /\ k.kept = IF k.sent <= MaxBody THEN k.sent ELSE 0
  BY DEF Sound, Connection, Consistent, Ended
<1>2. k.sent <= MaxBody <=> ~TooLarge(k)
  BY <1>1, SizeAssumption DEF TooLarge
<1>3. k.answer = "none" /\ k.client # "none"
  BY <1>1 DEF Sound, Consistent
<1>. QED  BY <1>1, <1>2, <1>3

\* The handler goes on without an answer.
LEMMA ServerSound ==
  ASSUME NEW k, NEW s, Sound(k), k.answer = "none", k.client # "none",
         \/ s = "reading" /\ k.server = "idle" /\ NeedsBody(k.request)
         \/ s = "working" /\ k.request.to = "gateway" /\ (NeedsBody(k.request) => Whole(k))
  PROVE  LET new == [k EXCEPT !.server = s] IN
         /\ Sound(new)
         /\ new.request = k.request /\ new.server = s
         /\ new.did = k.did /\ new.client = k.client
  BY SizeAssumption DEF Sound, Connection, Consistent, Whole

\* The caller's side: an answer is heard as what it is, a call that fails as failed.
LEMMA HeardSound ==
  ASSUME NEW k, NEW h, Sound(k), k.client = "waiting",
         \/ h = "failed"
         \/ h \in {"ok", "refused", "garbled"} /\ k.answer # "none" /\ (h = "ok" => k.answer = "ok")
  PROVE  LET new == [k EXCEPT !.client = h] IN
         /\ Sound(new)
         /\ new.request = k.request /\ new.server = k.server
         /\ new.did = k.did /\ new.client = h
  BY DEF Sound, Connection, Consistent, Whole

-------------------------------------------------------------------------------
(***************************************************************************)
(* Every step keeps the invariant.                                         *)
(***************************************************************************)

Alive == {"idle", "reading"}

\* One connection goes on: its handler is never back where it had not read the request,
\* nor at its calls without having been there, and one of the things happens to the call that a NodeCall knows, or none.
Moves(k, l) ==
  /\ Sound(l)
  /\ l.request = k.request
  /\ l.server \in Alive => k.server \in Alive
  /\ l.server = "working" => k.server = "working"
  /\ l.client = "none" <=> k.client = "none"
  /\ \/ l.client = k.client /\ l.did = k.did
     \/ k.client \in {"waiting", "failed"} /\ l.client = k.client /\ k.did = 0 /\ l.did = 1
     \/ /\ k.client = "waiting" /\ l.client \in {"ok", "refused", "garbled", "failed"}
        /\ l.did = k.did
        /\ l.client = "ok" /\ k.request.to = "node" => k.did = 1

OneMoves(c) ==
  /\ \E k : Moves(conn[c], k) /\ conn' = [conn EXCEPT ![c] = k]
  /\ asked' = asked

\* The gateway calls nodes that it has not called before, or that answered.
Called(nodes) ==
  /\ \E i : CallNodes(gateway, i, nodes)
  /\ gateway.request.to = "gateway" /\ gateway.answer = "none"
  /\ NeedsBody(gateway.request) => Whole(gateway)
  /\ \A n \in nodes : conn[n].client \in {"none", "ok"}

LEMMA OneMovesInv ==
  ASSUME ServersInv, NEW c \in Conn, OneMoves(c)
  PROVE  ServersInv'
<1>1. PICK k : Moves(conn[c], k) /\ conn' = [conn EXCEPT ![c] = k]
  BY DEF OneMoves
<1>2. /\ conn' = [d \in Conn |-> conn'[d]]
      /\ \A d \in Conn : conn'[d] = IF d = c THEN k ELSE conn[d]
  BY <1>1 DEF ServersInv
<1>3. Browser \in Conn /\ Node \subseteq Conn
  BY DEF Conn
<1>4. NoneCalled' /\ (gateway.client # "none")'
  BY <1>1, <1>2, <1>3 DEF ServersInv, NoneCalled, gateway, Alive, Moves
<1>. QED  BY <1>1, <1>2, <1>3, <1>4 DEF ServersInv, Moves, OneMoves

\* The gateway opens connections to nodes, and works from then on.
LEMMA CallsInv ==
  ASSUME ServersInv, NEW nodes \in SUBSET Node, Called(nodes)
  PROVE  ServersInv'
<1>. DEFINE k == [gateway EXCEPT !.server = "working"]
<1>1. Browser \in Conn /\ Node \subseteq Conn
  BY DEF Conn
<1>2. Sound(gateway)
  BY <1>1 DEF ServersInv, gateway
<1>3. /\ Sound(k) /\ k.request = gateway.request /\ k.server = "working"
      /\ k.client = gateway.client
  BY <1>2, ServerSound DEF Called, ServersInv
<1>4. PICK p, b :
        conn' = [c \in Conn |-> IF c = Browser THEN k
                                ELSE IF c \in nodes THEN Opened(NodeRequest(p, b))
                                ELSE conn[c]]
  BY DEF Called, CallNodes
<1>. HIDE DEF k
<1>5. /\ conn' = [c \in Conn |-> conn'[c]]
      /\ conn'[Browser] = k
      /\ \A n \in Node : conn'[n] = IF n \in nodes THEN Opened(NodeRequest(p, b)) ELSE conn[n]
  BY <1>1, <1>4, BrowserAssumption
<1>6. \A c \in Conn : Sound(conn'[c])
  BY <1>3, <1>5, OpenedSound DEF ServersInv, Conn
<1>7. \A n \in Node : conn'[n].request.to = "node"
  BY <1>5, NodeRequestTo DEF ServersInv, Opened
<1>8. asked' \subseteq Node
  BY DEF Called, CallNodes
<1>9. NoneCalled' /\ (gateway.client # "none")'
  BY <1>3, <1>5 DEF ServersInv, NoneCalled, gateway
<1>. QED  BY <1>5, <1>6, <1>7, <1>8, <1>9 DEF ServersInv

LEMMA InitInv == ServersInit => ServersInv
<1>. SUFFICES ASSUME ServersInit PROVE ServersInv
  OBVIOUS
<1>1. PICK r \in BrowserRequest :
        conn = [c \in Conn |-> IF c = Browser THEN Opened(r) ELSE NotOpened]
  BY DEF ServersInit
<1>2. Sound(NotOpened) /\ NotOpened.client = "none" /\ NotOpened.request.to = "node"
  BY DEF NotOpened, Opened, NodeRequest, Sound, Connection, Consistent
<1>3. \A c \in Conn : Sound(conn[c])
  BY <1>1, <1>2, OpenedSound
<1>4. \A n \in Node : conn[n] = NotOpened
  BY <1>1, BrowserAssumption DEF Conn
<1>. QED  BY <1>1, <1>2, <1>3, <1>4 DEF ServersInv, NoneCalled, ServersInit, gateway, Opened, Conn

-------------------------------------------------------------------------------
(***************************************************************************)
(* Every step is one connection moving, or the gateway calling nodes.      *)
(***************************************************************************)

\* A connection whose server answers moves; it may, when there was no answer and all of
\* the body is there.
LEMMA AnswerMoves ==
  ASSUME ServersInv, NEW c \in Conn, NEW a, asked' = asked,
         conn' = [conn EXCEPT ![c] = Answer(@, a)],
         conn[c].answer = "none", conn[c].client # "none", a # "none",
         NeedsBody(conn[c].request) =>
           /\ conn[c].sent = conn[c].request.length
           /\ conn[c].kept = IF a = "too large" THEN 0 ELSE conn[c].sent,
         a = "ok" => conn[c].request.to = "gateway"
  PROVE  OneMoves(c)
<1>1. Sound(conn[c])
  BY DEF ServersInv
<1>. DEFINE k == Answer(conn[c], a)
<1>2. Sound(k)
  BY <1>1, AnswerSound
<1>3. /\ k.request = conn[c].request /\ k.server = "done"
      /\ k.did = conn[c].did /\ k.client = conn[c].client
      /\ k.answer = a
  BY <1>1, AnswerKeeps, Zenon
<1>4. conn' = [conn EXCEPT ![c] = k]
  OBVIOUS
<1>. HIDE DEF k
<1>5. Moves(conn[c], k)
  BY <1>2, <1>3 DEF Moves, Alive
<1>. QED  BY <1>4, <1>5 DEF OneMoves

LEMMA DoneMoves ==
  ASSUME ServersInv, NEW c \in Conn, asked' = asked,
         conn' = [conn EXCEPT ![c] = Done(@)],
         conn[c].server \in Alive, conn[c].client # "none",
         NeedsBody(conn[c].request) => Whole(conn[c])
  PROVE  OneMoves(c)
<1>1. Sound(conn[c])
  BY DEF ServersInv
<1>2. conn[c].answer = "none" /\ conn[c].did = 0
  BY <1>1 DEF Sound, Consistent, Alive
<1>3. conn[c].client \in {"waiting", "failed"}
  BY <1>1, <1>2 DEF Sound, Connection, Consistent
<1>. DEFINE k == Done(conn[c])
<1>4. Sound(k) /\ k.request = conn[c].request /\ k.server = "done" /\ k.did = 1
        /\ k.client = conn[c].client
  BY <1>1, <1>2, DoneSound
<1>5. conn' = [conn EXCEPT ![c] = k]
  OBVIOUS
<1>. HIDE DEF k
<1>6. Moves(conn[c], k)
  BY <1>2, <1>3, <1>4 DEF Moves, Alive
<1>. QED  BY <1>5, <1>6 DEF OneMoves

\* What the callers' side and the uploads do.
LEMMA ClientMoves ==
  ASSUME ServersInv, NEW c \in Conn, Upload(c) \/ Closed(c) \/ Deliver(c) \/ Lose(c)
  PROVE  OneMoves(c)
<1>1. Sound(conn[c])
  BY DEF ServersInv
<1>2. CASE Upload(c)
  <2>. DEFINE k == Piece(conn[c])
  <2>1. /\ Sound(k)
        /\ k.request = conn[c].request /\ k.server = conn[c].server
        /\ k.did = conn[c].did /\ k.client \in {"waiting", "failed"}
    BY <1>1, <1>2, PieceSound DEF Upload
  <2>2. conn' = [conn EXCEPT ![c] = k]
    BY <1>2 DEF Upload
  <2>. HIDE DEF k
  <2>. QED  BY <1>2, <2>1, <2>2 DEF Upload, OneMoves, Moves
<1>3. CASE Closed(c)
  <2>. DEFINE k == Aborted(conn[c])
  <2>1. /\ Sound(k)
        /\ k.request = conn[c].request /\ k.server = "done"
        /\ k.did = conn[c].did /\ k.client = conn[c].client
    BY <1>1, <1>3, AbortedSound DEF Closed
  <2>2. conn' = [conn EXCEPT ![c] = k]
    BY <1>3 DEF Closed
  <2>. HIDE DEF k
  <2>. QED  BY <1>3, <2>1, <2>2 DEF Closed, OneMoves, Moves, Alive
<1>4. CASE Deliver(c)
  <2>. DEFINE h == Heard(c, conn[c])
              k == [conn[c] EXCEPT !.client = h]
  <2>1. h \in {"ok", "refused", "garbled"} /\ (h = "ok" => conn[c].answer = "ok")
    BY DEF Heard
  <2>2. conn' = [conn EXCEPT ![c] = k]
    BY <1>4 DEF Deliver
  <2>. HIDE DEF h
  <2>3. /\ Sound(k)
        /\ k.request = conn[c].request /\ k.server = conn[c].server
        /\ k.did = conn[c].did /\ k.client = h
    BY <1>1, <1>4, <2>1, HeardSound DEF Deliver
  <2>. HIDE DEF k
  <2>4. h = "ok" /\ conn[c].request.to = "node" => conn[c].did = 1
    BY <1>1, <2>1 DEF Sound, Consistent
  <2>. QED  BY <1>4, <2>1, <2>2, <2>3, <2>4 DEF Deliver, OneMoves, Moves
<1>5. CASE Lose(c)
  <2>. DEFINE k == [conn[c] EXCEPT !.client = "failed"]
  <2>1. conn' = [conn EXCEPT ![c] = k]
    BY <1>5 DEF Lose
  <2>2. /\ Sound(k)
        /\ k.request = conn[c].request /\ k.server = conn[c].server
        /\ k.did = conn[c].did /\ k.client = "failed"
    BY <1>1, <1>5, HeardSound DEF Lose
  <2>. HIDE DEF k
  <2>. QED  BY <1>5, <2>1, <2>2 DEF Lose, OneMoves, Moves
<1>. QED  BY <1>2, <1>3, <1>4, <1>5

\* What a node's server does.
LEMMA NodeMoves ==
  ASSUME ServersInv, NEW c \in Conn, NodeArrive(c) \/ NodeEnd(c)
  PROVE  OneMoves(c)
<1>. DEFINE k == conn[c]
            r == k.request
<1>1. Sound(k)
  BY DEF ServersInv
<1>2. CASE NodeArrive(c)
  <2>1. /\ k.answer = "none" /\ k.client # "none" /\ k.server = "idle" /\ r.to = "node"
        /\ asked' = asked /\ conn' = [conn EXCEPT ![c] = NodeRoute(@)]
    BY <1>1, <1>2 DEF NodeArrive, Sound, Consistent
  <2>2. CASE r.path \notin RoundPath
    <3>1. ~NeedsBody(r)
      BY <2>1, <2>2 DEF NeedsBody
    <3>2. CASE NodeRoute(k) = Done(k)
      BY <2>1, <3>1, <3>2, DoneMoves DEF Alive
    <3>3. CASE \E a \in {"not allowed", "not found"} : NodeRoute(k) = Answer(k, a)
      <4>1. PICK a \in {"not allowed", "not found"} : NodeRoute(k) = Answer(k, a)
        BY <3>3
      <4>. QED  BY <2>1, <3>1, <4>1, AnswerMoves
    <3>. QED  BY <2>2, <3>2, <3>3 DEF NodeRoute
  <2>3. CASE r.path \in RoundPath /\ r.method # "POST"
    <3>1. ~NeedsBody(r) /\ NodeRoute(k) = Answer(k, "not allowed")
      BY <2>1, <2>3 DEF NeedsBody, NodeRoute, RoundPath
    <3>. QED  BY <2>1, <3>1, AnswerMoves
  <2>4. CASE r.path \in RoundPath /\ r.method = "POST"
    <3>. DEFINE l == [k EXCEPT !.server = "reading"]
    <3>1. NeedsBody(r) /\ conn' = [conn EXCEPT ![c] = l]
      BY <2>1, <2>4 DEF NeedsBody, NodeRoute, RoundPath
    <3>2. Sound(l) /\ l.request = r /\ l.server = "reading" /\ l.did = k.did /\ l.client = k.client
      BY <1>1, <2>1, <3>1, ServerSound
    <3>. HIDE DEF l
    <3>. QED  BY <2>1, <3>1, <3>2 DEF OneMoves, Moves, Alive
  <2>. QED  BY <2>2, <2>3, <2>4
<1>3. CASE NodeEnd(c)
  <2>1. /\ k.server = "reading" /\ k.answer = "none" /\ k.client # "none"
        /\ r.to = "node" /\ asked' = asked
        /\ k.sent = r.length
        /\ k.kept = IF TooLarge(k) THEN 0 ELSE k.sent
    BY <1>1, <1>3, EndedWhole DEF NodeEnd
  <2>2. CASE TooLarge(k) /\ conn' = [conn EXCEPT ![c] = Answer(k, "too large")]
    BY <2>1, <2>2, AnswerMoves
  <2>3. ASSUME NEW a \in {"malformed", "refused"}, ~TooLarge(k),
               conn' = [conn EXCEPT ![c] = Answer(k, a)]
        PROVE  OneMoves(c)
    BY <2>1, <2>3, AnswerMoves
  <2>4. CASE ~TooLarge(k) /\ conn' = [conn EXCEPT ![c] = Done(k)]
    BY <2>1, <2>4, DoneMoves DEF Whole, Alive
  <2>. QED  BY <1>3, <2>2, <2>3, <2>4 DEF NodeEnd
<1>. QED  BY <1>2, <1>3

\* What the gateway's server does.
LEMMA GatewayMoves ==
  ASSUME ServersInv, GatewayArrive \/ GatewayEnd \/ GatewayProceeds
  PROVE  OneMoves(Browser) \/ \E nodes \in SUBSET Node : Called(nodes)
<1>. DEFINE k == gateway
            r == k.request
<1>1. Browser \in Conn /\ k = conn[Browser] /\ Sound(k) /\ k.client # "none"
  BY DEF ServersInv, Conn, gateway
<1>2. ASSUME NEW a, Reply(a), k.answer = "none", a # "none", r.to = "gateway",
             NeedsBody(r) =>
               k.sent = r.length /\ k.kept = IF a = "too large" THEN 0 ELSE k.sent
      PROVE  OneMoves(Browser)
  BY <1>1, <1>2, AnswerMoves DEF Reply
<1>3. CASE GatewayArrive
  <2>1. k.answer = "none" /\ k.server = "idle" /\ r.to = "gateway"
    BY <1>1, <1>3 DEF GatewayArrive, Sound, Consistent
  <2>2. \A n \in Node : conn[n].client = "none"
    BY <2>1 DEF ServersInv, NoneCalled
  <2>3. CASE r.path = "/health" /\ CallNodes(k, 1, Node)
    <3>1. ~NeedsBody(r)
      BY <2>1, <2>3 DEF NeedsBody
    <3>. QED  BY <2>1, <2>2, <2>3, <3>1 DEF Called
  <2>4. CASE NeedsBody(r) /\ asked' = asked /\ conn' = [conn EXCEPT ![Browser].server = "reading"]
    <3>. DEFINE l == [k EXCEPT !.server = "reading"]
    <3>1. Sound(l) /\ l.request = r /\ l.server = "reading" /\ l.did = k.did /\ l.client = k.client
      BY <1>1, <2>1, <2>4, ServerSound
    <3>2. conn' = [conn EXCEPT ![Browser] = l]
      BY <1>1, <2>4
    <3>. HIDE DEF l
    <3>. QED  BY <1>1, <2>1, <2>4, <3>1, <3>2 DEF OneMoves, Moves, Alive
  <2>5. CASE /\ ~NeedsBody(r) /\ asked' = asked
             /\ \E a \in PageAnswers(r) : conn' = [conn EXCEPT ![Browser] = Answer(@, a)]
    <3>1. PICK a \in PageAnswers(r) : conn' = [conn EXCEPT ![Browser] = Answer(@, a)]
      BY <2>5
    <3>2. a # "none"
      BY DEF PageAnswers
    <3>. QED  BY <1>1, <2>1, <2>5, <3>1, <3>2, AnswerMoves
  <2>. QED  BY <1>3, <2>3, <2>4, <2>5 DEF GatewayArrive
<1>4. CASE GatewayEnd
  <2>1. /\ k.answer = "none" /\ k.server = "reading" /\ r.to = "gateway"
        /\ k.sent = r.length
        /\ k.kept = IF TooLarge(k) THEN 0 ELSE k.sent
    BY <1>1, <1>4, EndedWhole DEF GatewayEnd
  <2>2. \A n \in Node : conn[n].client = "none"
    BY <2>1 DEF ServersInv, NoneCalled
  <2>3. CASE TooLarge(k) /\ Reply("too large")
    BY <1>2, <2>1, <2>3
  <2>4. ASSUME NEW a \in {"malformed", "refused"}, ~TooLarge(k), Reply(a)
        PROVE  OneMoves(Browser)
    BY <1>2, <2>1, <2>4
  <2>5. CASE ~TooLarge(k) /\ CallNodes(k, 1, Node)
    BY <2>1, <2>2, <2>5 DEF Called, Whole
  <2>. QED  BY <1>4, <2>3, <2>4, <2>5 DEF GatewayEnd
<1>5. CASE GatewayProceeds
  <2>1. k.answer = "none" /\ r.to = "gateway" /\ (NeedsBody(r) => Whole(k))
    BY <1>1, <1>5 DEF GatewayProceeds, Sound, Consistent
  <2>2. ASSUME NEW a \in {"ok", "degraded", "refused"}, Reply(a)
        PROVE  OneMoves(Browser)
    BY <1>2, <2>1, <2>2 DEF Whole
  <2>3. CASE CallNodes(k, round + 1, Answering)
    <3>1. Answering \in SUBSET Node /\ \A n \in Answering : conn[n].client = "ok"
      BY DEF Answering, ServersInv
    <3>. QED  BY <2>1, <2>3, <3>1 DEF Called
  <2>. QED  BY <1>5, <2>2, <2>3 DEF GatewayProceeds
<1>. QED  BY <1>3, <1>4, <1>5

-------------------------------------------------------------------------------
(***************************************************************************)
(* What follows for every behaviour.                                       *)
(***************************************************************************)

LEMMA StepMoves ==
  ASSUME ServersInv, ServersNext
  PROVE  (\E c \in Conn : OneMoves(c)) \/ \E nodes \in SUBSET Node : Called(nodes)
<1>1. Browser \in Conn
  BY DEF Conn
<1>. QED  BY <1>1, GatewayMoves, NodeMoves, ClientMoves DEF ServersNext

LEMMA StepInv == ServersInv /\ [ServersNext]_serverVars => ServersInv'
<1>. SUFFICES ASSUME ServersInv, [ServersNext]_serverVars
              PROVE  ServersInv'
  OBVIOUS
<1>1. CASE ServersNext
  BY <1>1, StepMoves, OneMovesInv, CallsInv
<1>2. CASE UNCHANGED serverVars
  BY <1>2 DEF serverVars, ServersInv, NoneCalled, gateway
<1>. QED  BY <1>1, <1>2

\* The invariant: what came of every body, where its handler is and what was answered go
\* together, and no node is called before the request was read.
THEOREM ServersInvariant == ServersSafe => []ServersInv
  BY InitInv, StepInv, PTL DEF ServersSafe

LEMMA InvAnswered == ServersInv => AnsweredAfterUpload
<1>. SUFFICES ASSUME ServersInv, NEW c \in Conn,
                     NeedsBody(conn[c].request), conn[c].answer # "none"
              PROVE  /\ conn[c].sent = conn[c].request.length
                     /\ conn[c].kept = IF conn[c].answer = "too large" THEN 0
                                       ELSE conn[c].request.length
  BY DEF AnsweredAfterUpload
<1>1. Consistent(conn[c])
  BY DEF ServersInv, Sound
<1>. QED  BY <1>1 DEF Consistent, Whole

\* readBody's promise, for any limits: in whatever order end, close and error come, an
\* upload is answered out of the whole body or, over-long, out of none of it.
THEOREM AnsweredAlways == ServersSafe => []AnsweredAfterUpload
<1>1. ServersInv => AnsweredAfterUpload
  BY InvAnswered
<1>. QED  BY <1>1, ServersInvariant, PTL

-------------------------------------------------------------------------------
(***************************************************************************)
(* What nodes sign for the gateway.                                        *)
(***************************************************************************)

HasNonce(body) == "nonce" \in DOMAIN body /\ body["nonce"] \in Text

\* A handler at its calls has passed the door, and what it sends to /sign-on is what it
\* let in.
PayloadInv ==
  /\ gateway.server = "working" =>
       /\ gateway.request.path \in {"/health", "/api/pasta/sign-on", "/token"}
       /\ round \in 1..Len(Calls(gateway.request.path))
       /\ gateway.request.path = "/api/pasta/sign-on" => HasNonce(gateway.request.body)
  /\ \A n \in Node : conn[n].client # "none" /\ conn[n].request.path = "/sign-on" =>
       HasNonce(conn[n].request.body)
  /\ SignedPayloadParses

LEMMA CallsAre ==
  /\ Calls("/health") = <<"/health">>
  /\ Calls("/api/pasta/sign-on") = <<"/commit", "/sign-on">>
  /\ Calls("/token") = <<"/commit", "/commit", "/sign">>
  BY DEF Calls

\* The gateway relays the nonce it was sent.
LEMMA NonceIsRelayed ==
  ASSUME NEW body, HasNonce(body)
  PROVE  HasNonce(SignOnRequestToWire(Admit(body)))
<1>. DEFINE b == Admit(body)
<1>1. "nonce" \in DOMAIN b /\ b["nonce"] = body["nonce"]
  BY DEF Admit, HasNonce
<1>. HIDE DEF b
<1>2. /\ "nonce" \in DOMAIN SignOnRequestToWire(b)
      /\ SignOnRequestToWire(b)["nonce"] = b["nonce"]
  BY <1>1 DEF SignOnRequestToWire
<1>. QED  BY <1>1, <1>2 DEF b, HasNonce

\* The door asks for a nonce.
LEMMA DoorAsksNonce ==
  ASSUME NEW body, Decodes(Door, body)
  PROVE  HasNonce(body)
<1>1. "nonce" \in DOMAIN Door /\ Door["nonce"] = Text /\ "absent" \notin Text
  BY DEF Door, Text
<1>. QED  BY <1>1 DEF Decodes, HasNonce

\* A sign-on request that a node takes has every claim, if it has a nonce.
LEMMA ClaimsParse ==
  ASSUME NEW body, Decodes(SignOnEnvelope, body), HasNonce(body)
  PROVE  Parses(Claims(body))
<1>1. /\ {"clientId", "scope", "cnfJkt", "iat", "exp"} \subseteq DOMAIN SignOnEnvelope
      /\ \A f \in {"clientId", "scope", "cnfJkt", "iat", "exp"} : "absent" \notin SignOnEnvelope[f]
  BY DEF SignOnEnvelope, Text, Str, Int
<1>2. \A f \in {"clientId", "scope", "cnfJkt", "iat", "exp"} :
        f \in DOMAIN body /\ body[f] # "absent"
  BY <1>1 DEF Decodes
<1>3. body["nonce"] # "absent"
  BY DEF HasNonce, Text
<1>. QED  BY <1>2, <1>3 DEF Claims, Parses

\* A connection that moves leaves the calls as they are.
LEMMA QuietPayload ==
  ASSUME ServersInv, PayloadInv, NEW c \in Conn, OneMoves(c), round' = round,
         SignedPayloadParses'
  PROVE  PayloadInv'
<1>1. PICK k : Moves(conn[c], k) /\ conn' = [conn EXCEPT ![c] = k]
  BY DEF OneMoves
<1>2. \A d \in Conn : conn'[d] = IF d = c THEN k ELSE conn[d]
  BY <1>1 DEF ServersInv
<1>3. Browser \in Conn /\ Node \subseteq Conn
  BY DEF Conn
<1>4. \A d \in Conn : /\ conn'[d].request = conn[d].request
                      /\ conn'[d].server = "working" => conn[d].server = "working"
                      /\ conn'[d].client = "none" <=> conn[d].client = "none"
  BY <1>1, <1>2 DEF Moves
<1>. QED  BY <1>3, <1>4 DEF PayloadInv, gateway

\* The gateway calls nodes with a request that passed the door.
LEMMA CallsPayload ==
  ASSUME ServersInv, PayloadInv, NEW i, NEW nodes \in SUBSET Node,
         CallNodes(gateway, i, nodes), signed' = signed,
         gateway.request.path \in {"/health", "/api/pasta/sign-on", "/token"},
         i \in 1..Len(Calls(gateway.request.path)),
         gateway.request.path = "/api/pasta/sign-on" => HasNonce(gateway.request.body)
  PROVE  PayloadInv'
<1>. DEFINE k == [gateway EXCEPT !.server = "working"]
            path == Calls(gateway.request.path)[i]
            body == CASE path = "/commit" -> CommitRequestToWire
                      [] path = "/sign-on" -> SignOnRequestToWire(Admit(gateway.request.body))
                      [] path = "/sign" -> SignRequestToWire
                      [] OTHER -> SdkBody
            new == Opened(NodeRequest(path, body))
<1>1. Browser \in Conn /\ Node \subseteq Conn /\ Sound(gateway)
  BY DEF Conn, ServersInv, gateway
<1>2. k.request = gateway.request /\ k.server = "working"
  BY <1>1 DEF Sound, Connection
<1>3. new.request.path = path /\ new.request.body = body
  BY DEF Opened, NodeRequest
<1>4. path = "/sign-on" => HasNonce(body)
  <2>. SUFFICES ASSUME path = "/sign-on" PROVE HasNonce(body)
    OBVIOUS
  <2>1. gateway.request.path = "/api/pasta/sign-on"
    BY CallsAre
  <2>2. body = SignOnRequestToWire(Admit(gateway.request.body))
    OBVIOUS
  <2>. QED  BY <2>1, <2>2, NonceIsRelayed
<1>5. /\ conn' = [c \in Conn |-> IF c = Browser THEN k ELSE IF c \in nodes THEN new ELSE conn[c]]
      /\ round' = i
  BY DEF CallNodes
<1>. HIDE DEF k, new, path, body
<1>6. conn'[Browser] = k /\ \A n \in Node : conn'[n] = IF n \in nodes THEN new ELSE conn[n]
  BY <1>1, <1>5, BrowserAssumption
<1>7. \A n \in Node : conn'[n].client # "none" /\ conn'[n].request.path = "/sign-on" =>
        HasNonce(conn'[n].request.body)
  BY <1>3, <1>4, <1>6 DEF PayloadInv
<1>8. SignedPayloadParses'
  BY DEF PayloadInv, SignedPayloadParses
<1>. QED  BY <1>2, <1>5, <1>6, <1>7, <1>8 DEF PayloadInv, gateway

\* A handler of the gateway that answers, or begins to read, calls nobody.
LEMMA ReplyPayload ==
  ASSUME ServersInv, PayloadInv, NEW k, round' = round, signed' = signed,
         conn' = [conn EXCEPT ![Browser] = k], k.server # "working"
  PROVE  PayloadInv'
<1>1. Browser \in Conn /\ Node \subseteq Conn
  BY DEF Conn
<1>2. conn'[Browser] = k /\ \A n \in Node : conn'[n] = conn[n]
  BY <1>1, BrowserAssumption DEF ServersInv
<1>. QED  BY <1>2 DEF PayloadInv, SignedPayloadParses, gateway

LEMMA GatewayPayload ==
  ASSUME ServersInv, PayloadInv, GatewayArrive \/ GatewayEnd \/ GatewayProceeds
  PROVE  PayloadInv'
<1>. DEFINE r == gateway.request
<1>1. Browser \in Conn /\ gateway = conn[Browser] /\ Sound(gateway)
  BY DEF ServersInv, Conn, gateway
<1>2. \A a : Answer(gateway, a).server # "working"
  BY <1>1, AnswerKeeps
<1>3. ASSUME NEW a, Reply(a), signed' = signed PROVE PayloadInv'
  <2>. DEFINE l == Answer(gateway, a)
  <2>1. conn' = [conn EXCEPT ![Browser] = l] /\ round' = round
    BY <1>1, <1>3 DEF Reply
  <2>2. l.server # "working"
    BY <1>2
  <2>. HIDE DEF l
  <2>. QED  BY <1>3, <2>1, <2>2, ReplyPayload
<1>4. CASE GatewayArrive
  <2>1. CASE r.path = "/health" /\ CallNodes(gateway, 1, Node)
    <3>1. 1 \in 1..Len(Calls(r.path))
      <4>1. Calls(r.path) = <<"/health">>
        BY <2>1, CallsAre, Zenon
      <4>. QED  BY <4>1
    <3>. QED  BY <1>4, <2>1, <3>1, CallsPayload DEF GatewayArrive
  <2>2. CASE conn' = [conn EXCEPT ![Browser].server = "reading"] /\ round' = round
    <3>. DEFINE l == [gateway EXCEPT !.server = "reading"]
    <3>1. l.server # "working"
      BY <1>1 DEF Sound, Connection
    <3>2. conn' = [conn EXCEPT ![Browser] = l]
      BY <1>1, <2>2
    <3>. HIDE DEF l
    <3>. QED  BY <1>4, <2>2, <3>1, <3>2, ReplyPayload DEF GatewayArrive
  <2>3. CASE /\ \E a \in PageAnswers(r) : conn' = [conn EXCEPT ![Browser] = Answer(@, a)]
             /\ round' = round
    <3>1. PICK a : conn' = [conn EXCEPT ![Browser] = Answer(gateway, a)]
      BY <1>1, <2>3
    <3>. QED  BY <1>2, <1>4, <2>3, <3>1, ReplyPayload DEF GatewayArrive
  <2>. QED  BY <1>4, <2>1, <2>2, <2>3 DEF GatewayArrive
<1>5. CASE GatewayEnd
  <2>1. CASE \E a : Reply(a)
    BY <1>3, <1>5, <2>1 DEF GatewayEnd
  <2>2. CASE r.path = "/api/pasta/sign-on" /\ Decodes(Door, r.body) /\ CallNodes(gateway, 1, Node)
    <3>1. 1 \in 1..Len(Calls(r.path)) /\ HasNonce(r.body)
      BY <2>2, CallsAre, DoorAsksNonce
    <3>. QED  BY <1>5, <2>2, <3>1, CallsPayload DEF GatewayEnd
  <2>3. CASE r.path = "/token" /\ CallNodes(gateway, 1, Node)
    <3>1. 1 \in 1..Len(Calls(r.path))
      BY <2>3, CallsAre
    <3>. QED  BY <1>5, <2>3, <3>1, CallsPayload DEF GatewayEnd
  <2>. QED  BY <1>5, <2>1, <2>2, <2>3 DEF GatewayEnd
<1>6. CASE GatewayProceeds
  <2>1. CASE \E a : Reply(a)
    BY <1>3, <1>6, <2>1 DEF GatewayProceeds
  <2>2. CASE ~LastCall /\ CallNodes(gateway, round + 1, Answering)
    <3>1. Answering \in SUBSET Node
      BY DEF Answering, ServersInv
    <3>2. /\ r.path \in {"/health", "/api/pasta/sign-on", "/token"}
          /\ round \in 1..Len(Calls(r.path))
          /\ r.path = "/api/pasta/sign-on" => HasNonce(r.body)
      BY <1>6 DEF GatewayProceeds, PayloadInv
    <3>3. Len(Calls(r.path)) \in Nat
      BY <3>2, CallsAre
    <3>4. round + 1 \in 1..Len(Calls(r.path))
      BY <2>2, <3>2, <3>3 DEF LastCall
    <3>. QED  BY <1>6, <2>2, <3>1, <3>2, <3>4, CallsPayload DEF GatewayProceeds
  <2>. QED  BY <1>6, <2>1, <2>2 DEF GatewayProceeds
<1>. QED  BY <1>4, <1>5, <1>6

\* A node signs claims that parse for the gateway: its request had a nonce.
LEMMA NodePayload ==
  ASSUME ServersInv, PayloadInv, NEW c \in Conn, NodeArrive(c) \/ NodeEnd(c)
  PROVE  PayloadInv'
<1>. DEFINE r == conn[c].request
<1>1. OneMoves(c) /\ round' = round
  BY NodeMoves DEF NodeArrive, NodeEnd
<1>2. CASE signed' = signed
  BY <1>1, <1>2, QuietPayload DEF PayloadInv, SignedPayloadParses
<1>3. CASE /\ NodeEnd(c) /\ WellFormed(r) /\ r.path = "/sign-on"
           /\ signed' = signed \cup {[caller |-> c, claims |-> Claims(r.body)]}
  <2>1. conn[c].client # "none"
    BY <1>3, EndedWhole DEF NodeEnd, ServersInv
  <2>2. c \in Node => Parses(Claims(r.body))
    <3>1. Decodes(SignOnEnvelope, r.body)
      BY <1>3 DEF WellFormed, Envelope
    <3>2. c \in Node => HasNonce(r.body)
      BY <1>3, <2>1 DEF PayloadInv
    <3>. QED  BY <3>1, <3>2, ClaimsParse
  <2>3. SignedPayloadParses'
    BY <1>3, <2>2 DEF PayloadInv, SignedPayloadParses
  <2>. QED  BY <1>1, <2>3, QuietPayload
<1>. QED  BY <1>2, <1>3 DEF NodeArrive, NodeEnd

LEMMA StepPayload == ServersInv /\ PayloadInv /\ [ServersNext]_serverVars => PayloadInv'
<1>. SUFFICES ASSUME ServersInv, PayloadInv, [ServersNext]_serverVars PROVE PayloadInv'
  OBVIOUS
<1>1. ASSUME NEW c \in Conn, Upload(c) \/ Closed(c) \/ Deliver(c) \/ Lose(c) PROVE PayloadInv'
  <2>1. OneMoves(c) /\ round' = round /\ signed' = signed
    BY <1>1, ClientMoves DEF Upload, Closed, Deliver, Lose
  <2>. QED  BY <2>1, QuietPayload DEF PayloadInv, SignedPayloadParses
<1>2. CASE ServersNext
  BY <1>1, <1>2, GatewayPayload, NodePayload DEF ServersNext
<1>3. CASE UNCHANGED serverVars
  BY <1>3 DEF serverVars, PayloadInv, SignedPayloadParses, gateway
<1>. QED  BY <1>2, <1>3

LEMMA InitPayload == ServersInit => PayloadInv
<1>. SUFFICES ASSUME ServersInit PROVE PayloadInv
  OBVIOUS
<1>1. \A n \in Node : conn[n].client = "none"
  BY BrowserAssumption DEF ServersInit, Conn, NotOpened, Opened
<1>2. gateway.server = "idle"
  BY DEF ServersInit, gateway, Conn, Opened
<1>. QED  BY <1>1, <1>2 DEF PayloadInv, SignedPayloadParses, ServersInit

\* Whatever body the gateway is asked with, no node signs a payload for it that no one can
\* parse: the door asks for a nonce, and what passes it is what is relayed.
THEOREM PayloadAlways == ServersSafe => []SignedPayloadParses
<1>1. PayloadInv => SignedPayloadParses
  BY DEF PayloadInv
<1>. QED  BY <1>1, InitInv, StepInv, InitPayload, StepPayload, PTL DEF ServersSafe

-------------------------------------------------------------------------------
(***************************************************************************)
(* What a connection holds, and that nobody takes an SDK's body, or what   *)
(* the gateway makes of it, for malformed.                                 *)
(***************************************************************************)

AnswerKind == {"none", "ok", "refused", "malformed", "too large", "not allowed", "not found",
               "degraded"}

ClaimsOfKind(claims) == \A f \in DOMAIN claims : claims[f] \in Kind

\* What a connection holds; a request for a signature has all the claims, of some kind.
Typed(k) ==
  /\ k.request.length \in Nat /\ k.sent \in 0..k.request.length
  /\ k.kept \in 0..MaxBody
  /\ k.server \in {"idle", "reading", "working", "done"}
  /\ k.answer \in AnswerKind
  /\ k.did \in 0..1
  /\ k.request.path = "/sign-on" => ClaimsOfKind(Claims(k.request.body))

\* What an SDK sends to the gateway.
PlainBody == {[SdkBody EXCEPT !.scope = k] : k \in {"absent", "empty", "text"}}
Plain(r) == r.to = "gateway" /\ r.json /\ r.body \in PlainBody

Misread(k) == k.answer = "malformed" \/ k.client = "garbled"

NodePath == RoundPath \cup {"/health"}

\* Out of a plain request only requests that nodes take for well-formed are made.
WireInv ==
  /\ \A c \in Conn : Typed(conn[c])
  /\ round \in 0..3
  /\ \A s \in signed : s.caller \in Conn /\ ClaimsOfKind(s.claims)
  /\ gateway.request \in BrowserRequest
  /\ \A n \in Node : conn[n].request.path \in NodePath
  /\ Plain(gateway.request) =>
       /\ \A c \in Conn : ~Misread(conn[c])
       /\ \A n \in Node : conn[n].client # "none" /\ conn[n].request.path \in RoundPath =>
            WellFormed(conn[n].request)

\* The body of a sign-on request as a caller may get it wrong has its members.
LEMMA BodyHasMembers ==
  ASSUME NEW b \in SignOnBodies
  PROVE  b = [f \in DOMAIN SdkBody |-> b[f]] /\ \A f \in DOMAIN SdkBody : b[f] \in Kind
<1>1. \A f \in DOMAIN SdkBody : SdkBody[f] \in Kind
  BY DEF SdkBody, Kind
<1>2. CASE b = SdkBody
  <2>1. SdkBody = [g \in DOMAIN SdkBody |-> SdkBody[g]]
    BY DEF SdkBody
  <2>. QED  BY <1>1, <1>2, <2>1
<1>3. CASE \E f \in Varied, k \in WrongKind : b = [SdkBody EXCEPT ![f] = k]
  <2>1. PICK f \in Varied, k \in WrongKind : b = [SdkBody EXCEPT ![f] = k]
    BY <1>3
  <2>2. k \in Kind
    BY WrongKindAssumption
  <2>3. SdkBody = [g \in DOMAIN SdkBody |-> SdkBody[g]]
    BY DEF SdkBody
  <2>. HIDE DEF SdkBody
  <2>. QED  BY <1>1, <2>1, <2>2, <2>3
<1>. QED  BY <1>2, <1>3 DEF SignOnBodies

ClaimMember == {"clientId", "scope", "cnfJkt", "nonce", "iat", "exp"}

LEMMA ClaimsOfBody ==
  ASSUME NEW body, \A f \in ClaimMember : body[f] \in Kind
  PROVE  ClaimsOfKind(Claims(body))
  BY DEF ClaimMember, ClaimsOfKind, Claims

LEMMA SdkMembers ==
  /\ ClaimMember \subseteq DOMAIN SdkBody
  /\ "scope" \in DOMAIN SdkBody
  /\ {"sessionId", "commitments", "allParticipants", "roundId"} \cap DOMAIN SdkBody = {}
  BY DEF ClaimMember, SdkBody

\* What is relayed of a body, but for what the gateway adds.
LEMMA RelayedMembers ==
  ASSUME NEW b, DOMAIN b = DOMAIN SdkBody
  PROVE  \A f \in DOMAIN SdkBody : f \in DOMAIN SignOnRequestToWire(b)
                                    /\ SignOnRequestToWire(b)[f] = b[f]
  BY SdkMembers DEF SignOnRequestToWire

LEMMA AdmittedMembers ==
  ASSUME NEW b, b = [f \in DOMAIN SdkBody |-> b[f]]
  PROVE  /\ DOMAIN Admit(b) = DOMAIN SdkBody
         /\ Admit(b)["scope"] = IF b["scope"] = "absent" THEN "empty" ELSE b["scope"]
         /\ \A f \in DOMAIN SdkBody \ {"scope"} : Admit(b)[f] = b[f]
  BY SdkMembers DEF Admit

LEMMA RelayedClaims ==
  ASSUME NEW b, DOMAIN b = DOMAIN SdkBody, \A f \in DOMAIN SdkBody : b[f] \in Kind
  PROVE  ClaimsOfKind(Claims(SignOnRequestToWire(b)))
<1>1. \A f \in ClaimMember : SignOnRequestToWire(b)[f] \in Kind
  BY RelayedMembers, SdkMembers
<1>. QED  BY <1>1, ClaimsOfBody

LEMMA RequestsMembers ==
  ASSUME NEW to, NEW methods, NEW paths, NEW lengths, NEW json, NEW bodies,
         NEW r \in Requests(to, methods, paths, lengths, json, bodies)
  PROVE  /\ r.to = to /\ r.method \in methods /\ r.path \in paths
         /\ r.length \in lengths /\ r.body \in bodies
  BY DEF Requests

LEMMA RequestsNoJson ==
  ASSUME NEW to, NEW methods, NEW paths, NEW lengths, NEW bodies,
         NEW r \in Requests(to, methods, paths, lengths, {FALSE}, bodies)
  PROVE  ~r.json
  BY Zenon DEF Requests

\* What a browser may ask: of the gateway, a body that is JSON only where one is expected.
LEMMA BrowserAsks ==
  ASSUME NEW r \in BrowserRequest
  PROVE  /\ r.length \in Nat
         /\ r.to = "node" => r.path \in NodePath \cup {"/demo"}
         /\ r.to = "gateway" /\ r.json => NeedsBody(r)
         /\ r.path = "/sign-on" => ClaimsOfKind(Claims(r.body))
         /\ r.path = "/api/pasta/sign-on" => r.body \in SignOnBodies
<1>0. MaxBody \in Nat /\ MaxDrain \in Nat /\ MaxDrain + 1 \in Nat
  BY SizeAssumption
<1>1. ClaimsOfKind(Claims(SdkBody)) /\ SdkBody \in SignOnBodies
  <2>1. SdkBody \in SignOnBodies
    BY DEF SignOnBodies
  <2>. QED  BY <2>1, BodyHasMembers, SdkMembers, ClaimsOfBody
<1>2. \A b \in SignOnBodies : ClaimsOfKind(Claims(SignOnRequestToWire(b)))
  BY BodyHasMembers, RelayedClaims
<1>. DEFINE get(to, methods, paths) == Requests(to, methods, paths, {0}, {FALSE}, {SdkBody})
            noJson(to, path) ==
              Requests(to, {"POST"}, {path}, 0..(MaxDrain + 1), {FALSE}, {SdkBody})
            json(to, path) ==
              Requests(to, {"POST"}, {path}, MaxBody..(MaxBody + 1), {TRUE}, BodiesAt(path))
<1>3. CASE r \in get("gateway", {"GET", "HEAD", "POST", "OPTIONS"},
                     {"/health", "/authorize", "/demo"})
  <2>1. /\ r.to = "gateway" /\ r.length = 0
        /\ r.path \in {"/health", "/authorize", "/demo"}
    BY <1>3, RequestsMembers
  <2>2. ~r.json
    BY <1>3, RequestsNoJson, Zenon
  <2>. QED  BY <2>1, <2>2
<1>4. CASE \/ r \in get("node", {"GET", "HEAD", "POST"}, {"/health", "/demo"})
           \/ r \in get("node", {"GET"}, RoundPath)
  <2>1. r.to = "node" /\ r.length = 0 /\ r.path \in {"/health", "/demo"} \cup RoundPath
          /\ r.body = SdkBody
    BY <1>4, RequestsMembers
  <2>. QED  BY <1>1, <2>1 DEF RoundPath, NodePath
<1>5. ASSUME NEW to, NEW p,
             \/ to = "gateway" /\ p \in {"/api/pasta/sign-on", "/token"}
             \/ to = "node" /\ p \in RoundPath
      PROVE  /\ r \in noJson(to, p) => r.length \in Nat /\ r.to = to /\ r.path = p
                                       /\ r.method = "POST" /\ r.body = SdkBody
             /\ r \in json(to, p) => r.length \in Nat /\ r.to = to /\ r.path = p
                                     /\ r.method = "POST" /\ r.body \in BodiesAt(p)
  <2>1. ASSUME r \in noJson(to, p)
        PROVE  r.length \in Nat /\ r.to = to /\ r.path = p
               /\ r.method = "POST" /\ r.body = SdkBody
    BY <1>0, <2>1, RequestsMembers
  <2>2. ASSUME r \in json(to, p)
        PROVE  r.length \in Nat /\ r.to = to /\ r.path = p /\ r.method = "POST"
               /\ r.body \in BodiesAt(p)
    BY <1>0, <2>2, RequestsMembers
  <2>. QED  BY <2>1, <2>2
<1>6. ASSUME NEW to, NEW p,
             \/ to = "gateway" /\ p \in {"/api/pasta/sign-on", "/token"}
             \/ to = "node" /\ p \in RoundPath,
             r \in noJson(to, p) \/ r \in json(to, p)
      PROVE  /\ r.length \in Nat
             /\ r.to = "node" => r.path \in NodePath
             /\ r.to = "gateway" /\ r.json => NeedsBody(r)
             /\ r.path = "/sign-on" => ClaimsOfKind(Claims(r.body))
             /\ r.path = "/api/pasta/sign-on" => r.body \in SignOnBodies
  <2>1. BodiesAt("/sign-on") = {SignOnRequestToWire(b) : b \in SignOnBodies}
    BY DEF BodiesAt
  <2>2. BodiesAt("/api/pasta/sign-on") = SignOnBodies
    BY DEF BodiesAt
  <2>3. CASE r \in noJson(to, p)
    <3>1. r.length \in Nat /\ r.to = to /\ r.path = p /\ r.method = "POST" /\ r.body = SdkBody
      BY <1>5, <1>6, <2>3
    <3>. HIDE DEF json, noJson, get
    <3>. QED  BY <1>1, <1>6, <3>1 DEF NodePath, RoundPath, NeedsBody
  <2>4. CASE r \in json(to, p)
    <3>1. r.length \in Nat /\ r.to = to /\ r.path = p /\ r.method = "POST"
            /\ r.body \in BodiesAt(p)
      BY <1>5, <1>6, <2>4
    <3>. HIDE DEF json, noJson, get
    <3>. QED  BY <1>2, <1>6, <2>1, <2>2, <3>1 DEF NodePath, RoundPath, NeedsBody
  <2>. QED  BY <1>6, <2>3, <2>4
<1>7. \/ r \in get("gateway", {"GET", "HEAD", "POST", "OPTIONS"},
                   {"/health", "/authorize", "/demo"})
      \/ r \in get("node", {"GET", "HEAD", "POST"}, {"/health", "/demo"})
      \/ r \in get("node", {"GET"}, RoundPath)
      \/ \E p \in {"/api/pasta/sign-on", "/token"} :
           r \in noJson("gateway", p) \/ r \in json("gateway", p)
      \/ \E p \in RoundPath : r \in noJson("node", p) \/ r \in json("node", p)
  <2>. DEFINE posts(to, paths) == UNION {noJson(to, p) \cup json(to, p) : p \in paths}
  <2>1. BrowserRequest =
          get("gateway", {"GET", "HEAD", "POST", "OPTIONS"}, {"/health", "/authorize", "/demo"})
            \cup get("node", {"GET", "HEAD", "POST"}, {"/health", "/demo"})
            \cup get("node", {"GET"}, RoundPath)
            \cup posts("gateway", {"/api/pasta/sign-on", "/token"})
            \cup posts("node", RoundPath)
    BY DEF BrowserRequest
  <2>. HIDE DEF get, json, noJson
  <2>. QED  BY <2>1
<1>. HIDE DEF get, json, noJson
<1>. QED  BY <1>3, <1>4, <1>6, <1>7

\* What the gateway makes of a plain body is well-formed to a node, and so is what it
\* asks for besides; what nodes answer is well-formed to the gateway.
LEMMA PlainDecodes ==
  ASSUME NEW body \in PlainBody
  PROVE  /\ Decodes(Door, body)
         /\ Decodes(SignOnEnvelope, SignOnRequestToWire(Admit(body)))
<1>1. PICK scope \in {"absent", "empty", "text"} : body = [SdkBody EXCEPT !.scope = scope]
  BY DEF PlainBody
<1>2. /\ body = [f \in DOMAIN SdkBody |-> body[f]]
      /\ body["scope"] = scope
      /\ \A f \in DOMAIN SdkBody \ {"scope"} : body[f] = SdkBody[f]
  BY <1>1 DEF SdkBody
<1>3. Decodes(Door, body)
  <2>1. DOMAIN Door = {"clientId", "nonce", "scope"}
    BY DEF Door
  <2>2. body["clientId"] = "text" /\ body["nonce"] = "text" /\ {"clientId", "nonce"} \subseteq DOMAIN body
    BY <1>2 DEF SdkBody
  <2>3. "scope" \in DOMAIN body
    BY <1>2, SdkMembers
  <2>4. "text" \in Door["clientId"] /\ "text" \in Door["nonce"]
          /\ scope \in Door["scope"]
    BY DEF Door, Text, Str, Optional
  <2>. QED  BY <1>2, <2>1, <2>2, <2>3, <2>4 DEF Decodes
<1>4. Decodes(SignOnEnvelope, SignOnRequestToWire(Admit(body)))
  <2>. DEFINE sent == SignOnRequestToWire(Admit(body))
              added == {"sessionId", "commitments", "allParticipants", "roundId"}
  <2>1. /\ DOMAIN Admit(body) = DOMAIN SdkBody
        /\ Admit(body)["scope"] \in {"empty", "text"}
        /\ \A f \in DOMAIN SdkBody \ {"scope"} : Admit(body)[f] = SdkBody[f]
    BY <1>2, AdmittedMembers
  <2>2. /\ \A f \in DOMAIN SdkBody : f \in DOMAIN sent /\ sent[f] = Admit(body)[f]
        /\ added \subseteq DOMAIN sent
        /\ sent["sessionId"] = "text" /\ sent["roundId"] = "text"
        /\ sent["commitments"] = "points" /\ sent["allParticipants"] = "integers"
    <3>1. \A f \in DOMAIN SdkBody : f \in DOMAIN sent /\ sent[f] = Admit(body)[f]
      BY <2>1, RelayedMembers
    <3>. QED  BY <3>1 DEF SignOnRequestToWire
  <2>. HIDE DEF sent
  <2>3. DOMAIN SignOnEnvelope = (DOMAIN SdkBody \cup added)
    BY DEF SignOnEnvelope, SdkBody
  <2>4. \A f \in added : sent[f] \in SignOnEnvelope[f]
    BY <2>2 DEF SignOnEnvelope, Text
  <2>5. {"empty", "text"} \subseteq SignOnEnvelope["scope"]
    BY DEF SignOnEnvelope, Text, Str
  <2>6. \A f \in DOMAIN SdkBody \ {"scope"} : SdkBody[f] \in SignOnEnvelope[f]
    BY DEF SdkBody, SignOnEnvelope, Text, Str, Int, Optional
  <2>7. \A f \in DOMAIN SdkBody : sent[f] \in SignOnEnvelope[f]
    BY <2>1, <2>2, <2>5, <2>6
  <2>. QED  BY <2>2, <2>3, <2>4, <2>7 DEF Decodes, sent
<1>. QED  BY <1>3, <1>4

LEMMA OthersDecode ==
  /\ Decodes(CommitEnvelope, CommitRequestToWire)
  /\ Decodes(SignEnvelope, SignRequestToWire)
  /\ \A p \in NodePath : Decodes(ResponseFromWire(p), AnswerToWire(p))
<1>1. Decodes(CommitEnvelope, CommitRequestToWire)
  BY DEF Decodes, CommitEnvelope, CommitRequestToWire, Text
<1>2. Decodes(SignEnvelope, SignRequestToWire)
  BY DEF Decodes, SignEnvelope, SignRequestToWire, Text, Int, Optional
<1>3. Decodes(ResponseFromWire("/health"), AnswerToWire("/health"))
  BY DEF Decodes, ResponseFromWire, AnswerToWire, HealthToWire, Text, Int
<1>4. Decodes(ResponseFromWire("/commit"), AnswerToWire("/commit"))
  BY DEF Decodes, ResponseFromWire, AnswerToWire, CommitToWire, Int
<1>5. Decodes(ResponseFromWire("/sign-on"), AnswerToWire("/sign-on"))
  BY DEF Decodes, ResponseFromWire, AnswerToWire, SignOnResponseToWire, Text, Int
<1>6. Decodes(ResponseFromWire("/sign"), AnswerToWire("/sign"))
  BY DEF Decodes, ResponseFromWire, AnswerToWire, SignResponseToWire, Int
<1>. QED  BY <1>1, <1>2, <1>3, <1>4, <1>5, <1>6 DEF NodePath, RoundPath


\* The types of a connection, whatever is done to it.
LEMMA PieceTyped ==
  ASSUME NEW k, Sound(k), Typed(k), k.server = "reading", k.sent < k.request.length
  PROVE  Typed(Piece(k)) /\ Piece(k).answer = k.answer
           /\ Piece(k).client \in {k.client, "failed"}
<1>. DEFINE n == k.sent + 1
            m == k.kept + 1
            client == IF n > MaxDrain THEN "failed" ELSE k.client
<1>1. Piece(k) = IF n <= MaxBody THEN [k EXCEPT !.sent = n, !.kept = m]
                 ELSE [k EXCEPT !.sent = n, !.kept = 0, !.client = client]
  BY DEF Piece
<1>2. /\ n \in 0..k.request.length /\ 0 \in 0..MaxBody
      /\ n <= MaxBody => m \in 0..MaxBody
      /\ client \in {k.client, "failed"}
  <2>1. k.kept = IF k.sent <= MaxBody THEN k.sent ELSE 0
    BY DEF Sound, Consistent
  <2>. QED  BY <2>1, SizeAssumption DEF Typed
<1>. HIDE DEF n, m, client
<1>3. CASE n <= MaxBody
  <2>1. /\ Piece(k).request = k.request /\ Piece(k).server = k.server
        /\ Piece(k).did = k.did /\ Piece(k).client = k.client
        /\ Piece(k).answer = k.answer /\ Piece(k).sent = n /\ Piece(k).kept = m
    BY <1>1, <1>3 DEF Sound, Connection
  <2>. QED  BY <1>2, <1>3, <2>1 DEF Typed
<1>4. CASE ~(n <= MaxBody)
  <2>1. /\ Piece(k).request = k.request /\ Piece(k).server = k.server
        /\ Piece(k).did = k.did /\ Piece(k).client = client
        /\ Piece(k).answer = k.answer /\ Piece(k).sent = n /\ Piece(k).kept = 0
    BY <1>1, <1>4 DEF Sound, Connection
  <2>. QED  BY <1>2, <2>1 DEF Typed
<1>. QED  BY <1>3, <1>4

LEMMA AnswerTyped ==
  ASSUME NEW k, NEW a \in AnswerKind, Sound(k), Typed(k)
  PROVE  /\ Typed(Answer(k, a)) /\ Answer(k, a).answer = a /\ Answer(k, a).client = k.client
         /\ Answer(k, a) \in [request : {k.request}, sent : Nat, kept : {k.kept},
                              client : {k.client}, server : {"done"}, answer : {a}, did : {k.did}]
<1>1. /\ Answer(k, a).request = k.request /\ Answer(k, a).server = "done"
      /\ Answer(k, a).did = k.did /\ Answer(k, a).client = k.client
      /\ Answer(k, a).answer = a /\ Answer(k, a).sent = k.sent /\ Answer(k, a).kept = k.kept
  BY DEF Sound, Connection, Answer
<1>2. Answer(k, a) \in [request : {k.request}, sent : Nat, kept : {k.kept},
                        client : {k.client}, server : {"done"}, answer : {a}, did : {k.did}]
  BY DEF Sound, Connection, Answer
<1>. QED  BY <1>1, <1>2 DEF Typed

LEMMA DoneTyped ==
  ASSUME NEW k, Sound(k), Typed(k), k.did = 0
  PROVE  Typed(Done(k)) /\ Done(k).answer = "ok" /\ Done(k).client = k.client
<1>. DEFINE answered == Answer(k, "ok")
<1>1. /\ Typed(answered) /\ answered.answer = "ok" /\ answered.client = k.client
      /\ answered \in [request : {k.request}, sent : Nat, kept : {k.kept},
                       client : {k.client}, server : {"done"}, answer : {"ok"}, did : {k.did}]
  BY AnswerTyped DEF AnswerKind
<1>2. Done(k) = [answered EXCEPT !.did = answered.did + 1]
  BY DEF Done
<1>. HIDE DEF answered
<1>3. /\ Done(k).request = answered.request /\ Done(k).server = answered.server
      /\ Done(k).did = 1 /\ Done(k).client = answered.client
      /\ Done(k).answer = answered.answer
      /\ Done(k).sent = answered.sent /\ Done(k).kept = answered.kept
  BY <1>1, <1>2
<1>. QED  BY <1>1, <1>3 DEF Typed

LEMMA ServerTyped ==
  ASSUME NEW k, NEW s \in {"reading", "working", "done"}, Sound(k), Typed(k)
  PROVE  LET new == [k EXCEPT !.server = s] IN
         Typed(new) /\ new.answer = k.answer /\ new.client = k.client
<1>. DEFINE new == [k EXCEPT !.server = s]
<1>1. /\ new.request = k.request /\ new.server = s
      /\ new.did = k.did /\ new.client = k.client
      /\ new.answer = k.answer /\ new.sent = k.sent /\ new.kept = k.kept
  BY DEF Sound, Connection
<1>. QED  BY <1>1 DEF Typed

LEMMA HeardTyped ==
  ASSUME NEW k, NEW h, Sound(k), Typed(k)
  PROVE  LET new == [k EXCEPT !.client = h] IN
         Typed(new) /\ new.answer = k.answer /\ new.client = h
<1>. DEFINE new == [k EXCEPT !.client = h]
<1>1. /\ new.request = k.request /\ new.server = k.server
      /\ new.did = k.did /\ new.client = h
      /\ new.answer = k.answer /\ new.sent = k.sent /\ new.kept = k.kept
  BY DEF Sound, Connection
<1>. QED  BY <1>1 DEF Typed

LEMMA OpenedTyped ==
  ASSUME NEW r, r.length \in Nat, r.path = "/sign-on" => ClaimsOfKind(Claims(r.body))
  PROVE  Typed(Opened(r)) /\ Opened(r).answer = "none" /\ Opened(r).client = "waiting"
           /\ Opened(r).request = r
<1>1. MaxBody \in Nat
  BY SizeAssumption
<1>. QED  BY <1>1 DEF Typed, Opened, AnswerKind


SignedOfKind == \A s \in signed : s.caller \in Conn /\ ClaimsOfKind(s.claims)

\* A connection that moves, whichever way, if it is typed and not misread afterwards.
LEMMA OneMovesWire ==
  ASSUME ServersInv, WireInv, NEW c \in Conn, OneMoves(c), round' = round, SignedOfKind',
         Typed(conn[c])', Plain(gateway.request) => ~Misread(conn[c])'
  PROVE  WireInv'
<1>1. PICK k : Moves(conn[c], k) /\ conn' = [conn EXCEPT ![c] = k]
  BY DEF OneMoves
<1>2. conn'[c] = k /\ \A d \in Conn : conn'[d] = IF d = c THEN k ELSE conn[d]
  BY <1>1 DEF ServersInv
<1>3. Browser \in Conn /\ Node \subseteq Conn
  BY DEF Conn
<1>4. \A d \in Conn : /\ conn'[d].request = conn[d].request
                      /\ conn'[d].client = "none" <=> conn[d].client = "none"
  BY <1>1, <1>2 DEF Moves
<1>5. gateway'.request = gateway.request
  BY <1>3, <1>4 DEF gateway
<1>6. Typed(k) /\ (Plain(gateway.request) => ~Misread(k))
  BY <1>2
<1>7. \A d \in Conn : Typed(conn'[d])
  BY <1>2, <1>6 DEF WireInv
<1>8. Plain(gateway.request) => \A d \in Conn : ~Misread(conn'[d])
  BY <1>2, <1>6 DEF WireInv
<1>9. \A n \in Node : conn'[n].request = conn[n].request
                      /\ (conn'[n].client = "none" <=> conn[n].client = "none")
  BY <1>3, <1>4
<1>. QED  BY <1>5, <1>7, <1>8, <1>9 DEF WireInv, SignedOfKind

LEMMA ClientWire ==
  ASSUME ServersInv, WireInv, NEW c \in Conn, Upload(c) \/ Closed(c) \/ Deliver(c) \/ Lose(c)
  PROVE  WireInv'
<1>. DEFINE k == conn[c]
            plain == Plain(gateway.request)
<1>1. OneMoves(c) /\ round' = round /\ SignedOfKind'
  BY ClientMoves DEF Upload, Closed, Deliver, Lose, WireInv, SignedOfKind
<1>2. Sound(k) /\ Typed(k) /\ (plain => ~Misread(k)) /\ conn = [d \in Conn |-> conn[d]]
  BY DEF ServersInv, WireInv
<1>. SUFFICES Typed(conn'[c]) /\ (plain => ~Misread(conn'[c]))
  BY <1>1, OneMovesWire
<1>. HIDE DEF plain
<1>3. CASE Upload(c)
  <2>1. conn'[c] = Piece(k)
    BY <1>2, <1>3 DEF Upload
  <2>2. k.server = "reading" /\ k.client = "waiting" /\ k.sent < k.request.length
    BY <1>3 DEF Upload
  <2>3. Typed(Piece(k)) /\ Piece(k).answer = k.answer /\ Piece(k).client \in {k.client, "failed"}
    BY <1>2, <2>2, PieceTyped
  <2>. QED  BY <1>2, <2>1, <2>2, <2>3 DEF Misread
<1>4. CASE Closed(c)
  <2>1. conn'[c] = [k EXCEPT !.server = "done"]
    BY <1>2, <1>4 DEF Closed, Aborted
  <2>. QED  BY <1>2, <2>1, ServerTyped DEF Misread
<1>5. CASE Deliver(c)
  <2>1. conn'[c] = [k EXCEPT !.client = Heard(c, k)]
    BY <1>2, <1>5 DEF Deliver
  <2>2. Heard(c, k) # "garbled"
    <3>1. c \in Node => Decodes(ResponseFromWire(k.request.path), AnswerToWire(k.request.path))
      BY OthersDecode DEF WireInv
    <3>. QED  BY <3>1 DEF Heard, Conn
  <2>. QED  BY <1>2, <2>1, <2>2, HeardTyped DEF Misread
<1>6. CASE Lose(c)
  <2>1. conn'[c] = [k EXCEPT !.client = "failed"]
    BY <1>2, <1>6 DEF Lose
  <2>. QED  BY <1>2, <2>1, HeardTyped DEF Misread
<1>. QED  BY <1>3, <1>4, <1>5, <1>6

\* A node that reads a request the gateway made out of a plain one takes it.
LEMMA NodeWire ==
  ASSUME ServersInv, WireInv, NEW c \in Conn, NodeArrive(c) \/ NodeEnd(c)
  PROVE  WireInv'
<1>. DEFINE k == conn[c]
            r == k.request
            plain == Plain(gateway.request)
<1>1. Sound(k) /\ Typed(k) /\ (plain => ~Misread(k)) /\ conn = [d \in Conn |-> conn[d]]
  BY DEF ServersInv, WireInv
<1>2. k.answer = "none" /\ k.did = 0 /\ r.to = "node" /\ k.client # "none"
  BY <1>1 DEF NodeArrive, NodeEnd, Ended, Sound, Consistent
<1>3. plain => c \in Node
  BY <1>2 DEF Plain, gateway, Conn
<1>4. OneMoves(c) /\ round' = round
  BY NodeMoves DEF NodeArrive, NodeEnd
<1>5. SignedOfKind'
  <2>1. CASE signed' = signed
    BY <2>1 DEF WireInv, SignedOfKind
  <2>2. CASE r.path = "/sign-on"
               /\ signed' = signed \cup {[caller |-> c, claims |-> Claims(r.body)]}
    BY <1>1, <2>2 DEF WireInv, SignedOfKind, Typed
  <2>. QED  BY <2>1, <2>2 DEF NodeArrive, NodeEnd
<1>. SUFFICES Typed(conn'[c]) /\ (plain => ~Misread(conn'[c]))
  BY <1>4, <1>5, OneMovesWire
<1>. HIDE DEF plain
<1>6. ASSUME NEW a \in AnswerKind, a # "malformed", conn'[c] = Answer(k, a)
      PROVE  Typed(conn'[c]) /\ (plain => ~Misread(conn'[c]))
  BY <1>1, <1>6, AnswerTyped DEF Misread
<1>7. CASE conn'[c] = Done(k)
  BY <1>1, <1>2, <1>7, DoneTyped DEF Misread
<1>8. CASE NodeArrive(c)
  <2>1. conn'[c] = NodeRoute(k)
    BY <1>1, <1>8 DEF NodeArrive
  <2>2. \/ NodeRoute(k) = Done(k)
        \/ NodeRoute(k) = [k EXCEPT !.server = "reading"]
        \/ \E a \in {"not allowed", "not found"} : NodeRoute(k) = Answer(k, a)
    <3>1. CASE r.path = "/health"
      BY <3>1 DEF NodeRoute, RoundPath
    <3>2. CASE r.path \in RoundPath
      BY <3>2 DEF NodeRoute, RoundPath
    <3>3. CASE r.path \notin RoundPath \cup {"/health"}
      BY <3>3 DEF NodeRoute
    <3>. QED  BY <3>1, <3>2, <3>3
  <2>3. CASE NodeRoute(k) = [k EXCEPT !.server = "reading"]
    <3>1. LET new == [k EXCEPT !.server = "reading"] IN
          Typed(new) /\ new.answer = k.answer /\ new.client = k.client
      BY <1>1, ServerTyped
    <3>. QED  BY <1>1, <2>1, <2>3, <3>1 DEF Misread
  <2>. QED  BY <1>6, <1>7, <2>1, <2>2, <2>3 DEF AnswerKind
<1>9. CASE NodeEnd(c)
  <2>1. CASE ~WellFormed(r) /\ conn' = [conn EXCEPT ![c] = Answer(@, "malformed")]
    <3>1. conn'[c] = Answer(k, "malformed")
      BY <1>1, <2>1
    <3>2. NeedsBody(r)
      BY <1>1, <1>9 DEF NodeEnd, Ended, Sound, Consistent
    <3>3. r.path \in RoundPath
      BY <1>2, <3>2 DEF NeedsBody
    <3>4. plain => WellFormed(r)
      BY <1>2, <1>3, <3>3 DEF WireInv, plain
    <3>. QED  BY <1>1, <2>1, <3>1, <3>4, AnswerTyped DEF AnswerKind
  <2>2. \/ \E a \in {"too large", "refused"} : conn' = [conn EXCEPT ![c] = Answer(@, a)]
        \/ conn' = [conn EXCEPT ![c] = Done(@)]
        \/ ~WellFormed(r) /\ conn' = [conn EXCEPT ![c] = Answer(@, "malformed")]
    BY <1>9 DEF NodeEnd
  <2>. QED  BY <1>1, <1>6, <1>7, <2>1, <2>2 DEF AnswerKind
<1>. QED  BY <1>8, <1>9


\* The gateway calls nodes; out of a plain request it makes what they take.
LEMMA CallsWire ==
  ASSUME ServersInv, WireInv, NEW i, NEW nodes \in SUBSET Node,
         CallNodes(gateway, i, nodes), signed' = signed, gateway.client # "none",
         gateway.request.path \in {"/health", "/api/pasta/sign-on", "/token"},
         i \in 1..Len(Calls(gateway.request.path))
  PROVE  WireInv'
<1>. DEFINE k == [gateway EXCEPT !.server = "working"]
            path == Calls(gateway.request.path)[i]
            body == CASE path = "/commit" -> CommitRequestToWire
                      [] path = "/sign-on" -> SignOnRequestToWire(Admit(gateway.request.body))
                      [] path = "/sign" -> SignRequestToWire
                      [] OTHER -> SdkBody
            r == NodeRequest(path, body)
            plain == Plain(gateway.request)
<1>1. Browser \in Conn /\ Node \subseteq Conn /\ Sound(gateway) /\ Typed(gateway)
  BY DEF Conn, ServersInv, WireInv, gateway
<1>2. Typed(k) /\ k.answer = gateway.answer /\ k.client = gateway.client
        /\ k.request = gateway.request
  <2>1. LET new == [gateway EXCEPT !.server = "working"] IN
        Typed(new) /\ new.answer = gateway.answer /\ new.client = gateway.client
    BY <1>1, ServerTyped
  <2>2. k.request = gateway.request
    BY <1>1 DEF Sound, Connection
  <2>. QED  BY <2>1, <2>2
<1>3. /\ path \in NodePath
      /\ path = "/sign-on" => gateway.request.path = "/api/pasta/sign-on"
      /\ i \in 0..3
  <2>. DEFINE p == gateway.request.path
  <2>1. CASE p = "/health"
    <3>1. Calls(p) = <<"/health">>
      BY <2>1, CallsAre, Zenon
    <3>2. i = 1 /\ path = "/health"
      BY <3>1
    <3>. QED  BY <3>2 DEF NodePath, RoundPath
  <2>2. CASE p = "/api/pasta/sign-on"
    <3>1. Calls(p) = <<"/commit", "/sign-on">>
      BY <2>2, CallsAre, Zenon
    <3>2. i \in 1..2 /\ path \in {"/commit", "/sign-on"}
      BY <3>1
    <3>. QED  BY <2>2, <3>2 DEF NodePath, RoundPath
  <2>3. CASE p = "/token"
    <3>1. Calls(p) = <<"/commit", "/commit", "/sign">>
      BY <2>3, CallsAre, Zenon
    <3>2. i \in 1..3 /\ path \in {"/commit", "/sign"}
      BY <3>1
    <3>. QED  BY <3>2 DEF NodePath, RoundPath
  <2>. QED  BY <2>1, <2>2, <2>3
<1>4. r.path = path /\ r.body = body /\ r.length \in Nat /\ r.json = TRUE /\ r.to = "node"
  BY DEF NodeRequest
<1>5. ASSUME path = "/sign-on" PROVE body = SignOnRequestToWire(Admit(gateway.request.body))
  BY <1>5
<1>6. path = "/sign-on" => ClaimsOfKind(Claims(body))
  <2>. SUFFICES ASSUME path = "/sign-on" PROVE ClaimsOfKind(Claims(body))
    OBVIOUS
  <2>. DEFINE b == gateway.request.body
  <2>1. b \in SignOnBodies
    BY <1>3, BrowserAsks DEF WireInv
  <2>2. b = [f \in DOMAIN SdkBody |-> b[f]] /\ \A f \in DOMAIN SdkBody : b[f] \in Kind
    BY <2>1, BodyHasMembers
  <2>3. /\ DOMAIN Admit(b) = DOMAIN SdkBody
        /\ Admit(b)["scope"] = IF b["scope"] = "absent" THEN "empty" ELSE b["scope"]
        /\ \A f \in DOMAIN SdkBody \ {"scope"} : Admit(b)[f] = b[f]
    BY <2>2, AdmittedMembers
  <2>4. \A f \in DOMAIN SdkBody : Admit(b)[f] \in Kind
    BY <2>2, <2>3, SdkMembers DEF Kind
  <2>. QED  BY <1>5, <2>3, <2>4, RelayedClaims
<1>7. plain /\ path \in RoundPath => WellFormed(r)
  <2>. SUFFICES ASSUME plain, path \in RoundPath PROVE Decodes(Envelope(path), body)
    BY <1>4 DEF WellFormed
  <2>1. CASE path = "/commit"
    <3>1. Envelope(path) = CommitEnvelope /\ body = CommitRequestToWire
      BY <2>1 DEF Envelope
    <3>. QED  BY <3>1, OthersDecode
  <2>2. CASE path = "/sign-on"
    <3>1. Envelope(path) = SignOnEnvelope
      BY <2>2 DEF Envelope
    <3>. QED  BY <1>5, <2>2, <3>1, PlainDecodes DEF Plain
  <2>3. CASE path = "/sign"
    <3>1. Envelope(path) = SignEnvelope /\ body = SignRequestToWire
      BY <2>3 DEF Envelope
    <3>. QED  BY <3>1, OthersDecode
  <2>. QED  BY <2>1, <2>2, <2>3 DEF RoundPath
<1>8. /\ conn' = [c \in Conn |-> IF c = Browser THEN k
                                 ELSE IF c \in nodes THEN Opened(r) ELSE conn[c]]
      /\ round' = i
  BY DEF CallNodes
<1>. HIDE DEF k, path, body, r, plain
<1>9. /\ Typed(Opened(r)) /\ Opened(r).answer = "none" /\ Opened(r).client = "waiting"
      /\ Opened(r).request = r
  BY <1>4, <1>6, OpenedTyped
<1>10. conn'[Browser] = k /\ \A n \in Node : conn'[n] = IF n \in nodes THEN Opened(r) ELSE conn[n]
  BY <1>1, <1>8, BrowserAssumption
<1>11. \A c \in Conn : conn'[c] \in {k, Opened(r), conn[c]}
  BY <1>8
<1>12. \A c \in Conn : Typed(conn'[c])
  BY <1>2, <1>9, <1>11 DEF WireInv
<1>13. gateway'.request = gateway.request
  BY <1>2, <1>10 DEF gateway
<1>14. plain => \A c \in Conn : ~Misread(conn'[c])
  <2>1. plain => ~Misread(gateway)
    BY <1>1 DEF WireInv, gateway, plain
  <2>. QED  BY <1>2, <1>9, <1>11, <2>1 DEF WireInv, Misread, plain
<1>15. plain => \A n \in Node : conn'[n].client # "none" /\ conn'[n].request.path \in RoundPath =>
                  WellFormed(conn'[n].request)
  BY <1>4, <1>7, <1>9, <1>10 DEF WireInv, plain
<1>16. \A n \in Node : conn'[n].request.path \in NodePath
  BY <1>3, <1>4, <1>9, <1>10 DEF WireInv
<1>. QED  BY <1>3, <1>8, <1>12, <1>13, <1>14, <1>15, <1>16 DEF WireInv, plain


\* The gateway answers, or begins to read.
LEMMA BrowserWire ==
  ASSUME ServersInv, WireInv, NEW k, conn' = [conn EXCEPT ![Browser] = k],
         k.request = gateway.request, Typed(k), Plain(gateway.request) => ~Misread(k),
         round' = round, signed' = signed
  PROVE  WireInv'
<1>1. Browser \in Conn /\ Node \subseteq Conn
  BY DEF Conn
<1>2. /\ \A c \in Conn : conn'[c] = IF c = Browser THEN k ELSE conn[c]
      /\ \A n \in Node : conn'[n] = conn[n]
  BY <1>1, BrowserAssumption DEF ServersInv
<1>3. gateway'.request = gateway.request
  BY <1>1, <1>2 DEF gateway
<1>. QED  BY <1>2, <1>3 DEF WireInv

LEMMA GatewayWire ==
  ASSUME ServersInv, PayloadInv, WireInv, GatewayArrive \/ GatewayEnd \/ GatewayProceeds
  PROVE  WireInv'
<1>. DEFINE r == gateway.request
            plain == Plain(r)
<1>1. /\ Browser \in Conn /\ gateway = conn[Browser] /\ gateway.client # "none"
      /\ Sound(gateway) /\ Typed(gateway)
      /\ plain => ~Misread(gateway)
  BY DEF ServersInv, WireInv, Conn, gateway
<1>2. plain => NeedsBody(r) /\ r.json /\ Decodes(Door, r.body)
  BY BrowserAsks, PlainDecodes DEF WireInv, Plain
<1>. HIDE DEF plain
<1>3. signed' = signed
  BY DEF GatewayArrive, GatewayEnd, GatewayProceeds
<1>4. ASSUME NEW a \in AnswerKind, conn' = [conn EXCEPT ![Browser] = Answer(@, a)],
             round' = round, plain => a # "malformed"
      PROVE  WireInv'
  <2>. DEFINE k == Answer(gateway, a)
  <2>1. Typed(k) /\ k.answer = a /\ k.client = gateway.client /\ k.request = r
    BY <1>1, AnswerTyped, AnswerKeeps
  <2>2. conn' = [conn EXCEPT ![Browser] = k]
    BY <1>1, <1>4
  <2>. HIDE DEF k
  <2>3. plain => ~Misread(k)
    BY <1>1, <1>4, <2>1 DEF Misread
  <2>. QED  BY <1>3, <1>4, <2>1, <2>2, <2>3, BrowserWire DEF plain
<1>5. CASE GatewayArrive
  <2>1. CASE r.path = "/health" /\ CallNodes(gateway, 1, Node)
    <3>1. 1 \in 1..Len(Calls(r.path))
      <4>1. Calls(r.path) = <<"/health">>
        BY <2>1, CallsAre, Zenon
      <4>. QED  BY <4>1
    <3>. QED  BY <1>1, <1>3, <2>1, <3>1, CallsWire
  <2>2. CASE conn' = [conn EXCEPT ![Browser].server = "reading"] /\ round' = round
    <3>. DEFINE k == [gateway EXCEPT !.server = "reading"]
    <3>1. Typed(k) /\ k.answer = gateway.answer /\ k.client = gateway.client /\ k.request = r
      <4>1. LET new == [gateway EXCEPT !.server = "reading"] IN
            Typed(new) /\ new.answer = gateway.answer /\ new.client = gateway.client
        BY <1>1, ServerTyped
      <4>2. k.request = r
        BY <1>1 DEF Sound, Connection
      <4>. QED  BY <4>1, <4>2
    <3>2. conn' = [conn EXCEPT ![Browser] = k]
      BY <1>1, <2>2
    <3>. HIDE DEF k
    <3>3. plain => ~Misread(k)
      BY <1>1, <3>1 DEF Misread
    <3>. QED  BY <1>3, <2>2, <3>1, <3>2, <3>3, BrowserWire DEF plain
  <2>3. CASE /\ ~NeedsBody(r)
             /\ \E a \in PageAnswers(r) : conn' = [conn EXCEPT ![Browser] = Answer(@, a)]
             /\ round' = round
    <3>1. PICK a \in PageAnswers(r) : conn' = [conn EXCEPT ![Browser] = Answer(@, a)]
      BY <2>3
    <3>2. a \in AnswerKind
      BY DEF PageAnswers, AnswerKind
    <3>. QED  BY <1>2, <1>4, <2>3, <3>1, <3>2
  <2>. QED  BY <1>5, <2>1, <2>2, <2>3 DEF GatewayArrive
<1>6. CASE GatewayEnd
  <2>1. CASE \E a \in {"too large", "refused"} : Reply(a)
    BY <1>4, <2>1 DEF Reply, AnswerKind
  <2>2. CASE ~(r.json /\ Decodes(Door, r.body)) /\ Reply("malformed")
    BY <1>2, <1>4, <2>2 DEF Reply, AnswerKind
  <2>3. CASE r.path \in {"/api/pasta/sign-on", "/token"} /\ CallNodes(gateway, 1, Node)
    <3>1. 1 \in 1..Len(Calls(r.path))
      BY <2>3, CallsAre
    <3>. QED  BY <1>1, <1>3, <2>3, <3>1, CallsWire
  <2>. QED  BY <1>6, <2>1, <2>2, <2>3 DEF GatewayEnd
<1>7. CASE GatewayProceeds
  <2>1. CASE \E a \in {"ok", "degraded", "refused"} : Reply(a)
    BY <1>4, <2>1 DEF Reply, AnswerKind
  <2>2. CASE ~LastCall /\ CallNodes(gateway, round + 1, Answering)
    <3>1. Answering \in SUBSET Node
      BY DEF Answering, ServersInv
    <3>2. /\ r.path \in {"/health", "/api/pasta/sign-on", "/token"}
          /\ round \in 1..Len(Calls(r.path))
      BY <1>7 DEF GatewayProceeds, PayloadInv
    <3>3. Len(Calls(r.path)) \in Nat
      BY <3>2, CallsAre
    <3>4. round + 1 \in 1..Len(Calls(r.path))
      BY <2>2, <3>2, <3>3 DEF LastCall
    <3>. QED  BY <1>1, <1>3, <2>2, <3>1, <3>2, <3>4, CallsWire
  <2>. QED  BY <1>7, <2>1, <2>2 DEF GatewayProceeds
<1>. QED  BY <1>5, <1>6, <1>7

LEMMA InitWire == ServersInit => WireInv
<1>. SUFFICES ASSUME ServersInit PROVE WireInv
  OBVIOUS
<1>1. PICK r \in BrowserRequest :
        conn = [c \in Conn |-> IF c = Browser THEN Opened(r) ELSE NotOpened]
  BY DEF ServersInit
<1>2. /\ Typed(Opened(r)) /\ Opened(r).answer = "none" /\ Opened(r).client = "waiting"
      /\ Opened(r).request = r
  BY BrowserAsks, OpenedTyped
<1>3. /\ Typed(NotOpened) /\ NotOpened.answer = "none" /\ NotOpened.client = "none"
      /\ NotOpened.request.path \in NodePath
  <2>1. MaxBody \in Nat
    BY SizeAssumption
  <2>. QED  BY <2>1 DEF NotOpened, Opened, NodeRequest, Typed, AnswerKind, NodePath
<1>4. /\ conn[Browser] = Opened(r)
      /\ \A n \in Node : conn[n] = NotOpened
      /\ \A c \in Conn : conn[c] \in {Opened(r), NotOpened}
  BY <1>1, BrowserAssumption DEF Conn
<1>. QED  BY <1>2, <1>3, <1>4 DEF ServersInit, WireInv, gateway, Misread

LEMMA StepWire ==
  ServersInv /\ PayloadInv /\ WireInv /\ [ServersNext]_serverVars => WireInv'
<1>. SUFFICES ASSUME ServersInv, PayloadInv, WireInv, [ServersNext]_serverVars PROVE WireInv'
  OBVIOUS
<1>1. CASE ServersNext
  BY <1>1, ClientWire, NodeWire, GatewayWire DEF ServersNext
<1>2. CASE UNCHANGED serverVars
  BY <1>2 DEF serverVars, WireInv, gateway
<1>. QED  BY <1>1, <1>2

\* What every connection holds; a server keeps no more of a body than its limit, a node
\* does what one request asks at most once, and what it signs is made of values a body may
\* hold (readBody in both server.ts; handle, node server.ts 159-267).
THEOREM ServersTypesKept == ServersSafe => []ServersTypeOK
<1>1. ServersInv /\ WireInv => ServersTypeOK
  <2>. SUFFICES ASSUME ServersInv, WireInv PROVE ServersTypeOK
    OBVIOUS
  <2>1. \A c \in Conn : Typed(conn[c]) /\ Connection(conn[c])
    BY DEF ServersInv, WireInv, Sound
  <2>2. \A c \in Conn :
          conn[c].client \in {"none", "waiting", "ok", "refused", "garbled", "failed"}
    BY <2>1 DEF Connection
  <2>. QED  BY <2>1, <2>2 DEF ServersInv, WireInv, ServersTypeOK, Typed, AnswerKind, ClaimsOfKind
<1>. QED  BY <1>1, InitInv, StepInv, InitPayload, StepPayload, InitWire, StepWire, PTL
          DEF ServersSafe

\* A body as an SDK sends it, with any scope or none, passes the gateway's door, the
\* decoders of the nodes and those of the gateway for what the nodes answer.
THEOREM PlainIsUnderstood == ServersSafe => []Understood
<1>1. WireInv => Understood
  BY DEF WireInv, Understood, Plain, PlainBody, Misread
<1>. QED  BY <1>1, InitInv, StepInv, InitPayload, StepPayload, InitWire, StepWire, PTL
          DEF ServersSafe


-------------------------------------------------------------------------------
(***************************************************************************)
(* The connections to the nodes are NodeCalls.                             *)
(***************************************************************************)

\* The connections to nodes start as no calls at all.
LEMMA InitCalls == ServersInit => NodeCalls!CallInit
<1>. SUFFICES ASSUME ServersInit PROVE NodeCalls!CallInit
  OBVIOUS
<1>1. \A n \in Node : conn[n] = NotOpened
  BY BrowserAssumption DEF ServersInit, Conn
<1>2. NotOpened.client = "none" /\ NotOpened.did = 0
  BY DEF NotOpened, Opened
<1>. QED  BY <1>1, <1>2 DEF NodeCalls!CallInit

\* How a connection stands as a call to a node.
CallOf(k) == IF k.client \in {"refused", "garbled"} THEN "failed" ELSE k.client

CallsNow == [n \in Node |-> CallOf(conn[n])]
DidNow == [n \in Node |-> conn[n].did]

\* A connection that moves is a call being done, answered or failed, or nothing to it.
LEMMA OneMovesIsCallStep ==
  ASSUME ServersInv, NEW c \in Conn, OneMoves(c)
  PROVE  [NodeCalls!CallNext]_(NodeCalls!callVars)
<1>1. PICK k : Moves(conn[c], k) /\ conn' = [conn EXCEPT ![c] = k]
  BY DEF OneMoves
<1>2. /\ \A n \in Node : conn'[n] = IF n = c THEN k ELSE conn[n]
      /\ conn'[Browser] = IF c = Browser THEN k ELSE conn[Browser]
  BY <1>1 DEF ServersInv, Conn
<1>3. CASE c = Browser
  <2>1. \A n \in Node : conn'[n] = conn[n]
    BY <1>2, <1>3, BrowserAssumption
  <2>. QED  BY <2>1 DEF NodeCalls!callVars
<1>4. CASE c \in Node
  <2>. DEFINE was == conn[c]
  <2>1. /\ CallsNow' = [CallsNow EXCEPT ![c] = CallOf(k)]
        /\ DidNow' = [DidNow EXCEPT ![c] = k.did]
        /\ CallsNow[c] = CallOf(was) /\ DidNow[c] = was.did
    BY <1>2, <1>4 DEF CallsNow, DidNow
  <2>2. was.request.to = "node"
    BY <1>4 DEF ServersInv
  <2>3. CASE k.client = was.client /\ k.did = was.did
    <3>1. CallsNow' = CallsNow /\ DidNow' = DidNow
      BY <1>2, <2>3 DEF CallsNow, DidNow, CallOf
    <3>. QED  BY <3>1 DEF NodeCalls!callVars, CallsNow, DidNow, CallOf
  <2>4. CASE was.client \in {"waiting", "failed"} /\ k.client = was.client
               /\ was.did = 0 /\ k.did = 1
    <3>1. CallsNow' = CallsNow /\ CallsNow[c] \in {"waiting", "failed"}
      BY <1>2, <1>4, <2>4 DEF CallsNow, CallOf
    <3>2. NodeCalls!Do(c)
      BY <2>1, <2>4, <3>1 DEF NodeCalls!Do, CallsNow, DidNow, CallOf
    <3>. QED  BY <1>4, <3>2 DEF NodeCalls!CallNext
  <2>5. CASE was.client = "waiting" /\ k.client = "ok" /\ k.did = was.did /\ was.did = 1
    <3>1. DidNow' = DidNow
      BY <1>2, <2>5 DEF DidNow
    <3>2. NodeCalls!Answered(c)
      BY <2>1, <2>5, <3>1 DEF NodeCalls!Answered, CallsNow, DidNow, CallOf
    <3>. QED  BY <1>4, <3>2 DEF NodeCalls!CallNext
  <2>6. CASE was.client = "waiting" /\ k.client \in {"refused", "garbled", "failed"}
               /\ k.did = was.did
    <3>1. DidNow' = DidNow
      BY <1>2, <2>6 DEF DidNow
    <3>2. NodeCalls!Failed(c)
      BY <2>1, <2>6, <3>1 DEF NodeCalls!Failed, CallsNow, DidNow, CallOf
    <3>. QED  BY <1>4, <3>2 DEF NodeCalls!CallNext
  <2>. QED  BY <1>1, <2>2, <2>3, <2>4, <2>5, <2>6 DEF Moves
<1>. QED  BY <1>3, <1>4 DEF Conn

\* Nodes the gateway calls, which it never called or which answered, are asked.
LEMMA CalledIsAsk ==
  ASSUME ServersInv, NEW nodes \in SUBSET Node, Called(nodes)
  PROVE  [NodeCalls!CallNext]_(NodeCalls!callVars)
<1>1. PICK p, b :
        conn' = [c \in Conn |-> IF c = Browser THEN [gateway EXCEPT !.server = "working"]
                                ELSE IF c \in nodes THEN Opened(NodeRequest(p, b))
                                ELSE conn[c]]
  BY DEF Called, CallNodes
<1>2. \A n \in Node : conn'[n] = IF n \in nodes THEN Opened(NodeRequest(p, b)) ELSE conn[n]
  BY <1>1, BrowserAssumption DEF Conn
<1>3. /\ CallsNow' = [n \in Node |-> IF n \in nodes THEN "waiting" ELSE CallsNow[n]]
      /\ DidNow' = [n \in Node |-> IF n \in nodes THEN 0 ELSE DidNow[n]]
  BY <1>2 DEF CallsNow, DidNow, CallOf, Opened
<1>4. \A n \in nodes : CallsNow[n] \in {"none", "ok"}
  BY DEF CallsNow, CallOf, Called
<1>5. CASE nodes = {}
  BY <1>2, <1>5 DEF NodeCalls!callVars
<1>6. CASE nodes # {}
  <2>1. NodeCalls!Ask(nodes)
    BY <1>3, <1>4, <1>6 DEF NodeCalls!Ask, CallsNow, DidNow, CallOf
  <2>. QED  BY <2>1 DEF NodeCalls!CallNext
<1>. QED  BY <1>5, <1>6

\* The connections of the gateway implement the calls the proxy relies on: each ends
\* answered or failed, and an answered one was done exactly once.
THEOREM CallsImplementNodeCall == ServersSafe => NodeCalls!CallSafe
<1>1. ServersInv /\ [ServersNext]_serverVars => [NodeCalls!CallNext]_(NodeCalls!callVars)
  <2>. SUFFICES ASSUME ServersInv, [ServersNext]_serverVars
                PROVE  [NodeCalls!CallNext]_(NodeCalls!callVars)
    OBVIOUS
  <2>1. CASE ServersNext
    BY <2>1, StepMoves, OneMovesIsCallStep, CalledIsAsk
  <2>2. CASE UNCHANGED serverVars
    BY <2>2 DEF serverVars, NodeCalls!callVars
  <2>. QED  BY <2>1, <2>2
<1>. QED  BY <1>1, InitCalls, ServersInvariant, PTL DEF ServersSafe, NodeCalls!CallSafe
===============================================================================
