------------------------------- MODULE Discovery -------------------------------
(***************************************************************************)
(* The gateway's start-up.  It reads the group key, then asks every URL of *)
(* NODE_URLS for its node id and group key, all at once, and again for     *)
(* those that have not answered, a bounded number of times.  It comes up   *)
(* with every node, or its process ends.                                   *)
(***************************************************************************)
EXTENDS Integers, Sequences, SequencesExt

CONSTANTS
  Url,                        \* where nodes may be reached
  UrlLists,                   \* the values NODE_URLS may have
  QuorumSize,                 \* THRESHOLD
  DISCOVERY_ATTEMPTS          \* 30

ASSUME DiscoveryAssumption ==
  /\ UrlLists \subseteq Seq(Url)
  /\ QuorumSize \in Nat \ {0}
  /\ DISCOVERY_ATTEMPTS \in Nat \ {0}

VARIABLES
  serving,   \* at each URL: the node process answering there, Nobody if none
  gateway,   \* down, probing or up
  group,     \* the group key the gateway read at its start
  urls,      \* its NODE_URLS
  attempt,   \* the current attempt
  pending,   \* which of the URLs' probes are under way
  resolved   \* the node id each URL answered with, NoId if it has not

gatewayVars == <<gateway, group, urls, attempt, pending, resolved>>

NoId == 0
Nobody == [id |-> NoId, key |-> 0]

Resolved == {u \in Url : resolved[u] # NoId}
Roster == {resolved[u] : u \in Resolved}

DiscoveryInit ==
  /\ gateway = "down"
  /\ group = 0
  /\ urls = << >>
  /\ attempt = 0
  /\ pending = {}
  /\ resolved = [u \in Url |-> NoId]

\* All is in memory: what a process knew is gone when it ends.
Exit ==
  /\ gateway' = "down"
  /\ group' = 0
  /\ urls' = << >>
  /\ attempt' = 0
  /\ pending' = {}
  /\ resolved' = [u \in Url |-> NoId]

\* The process starts on a readable group.json that holds key, with enough URLs.
StartGateway(key, list) ==
  /\ gateway = "down"
  /\ Len(list) >= QuorumSize
  /\ gateway' = "probing"
  /\ group' = key
  /\ urls' = list
  /\ attempt' = 1
  /\ pending' = DOMAIN list
  /\ UNCHANGED resolved

\* Too few URLs end it at once.
RejectUrls(list) ==
  /\ gateway = "down"
  /\ Len(list) < QuorumSize
  /\ UNCHANGED gatewayVars

ProbeAnswered(i) ==
  /\ gateway = "probing"
  /\ i \in pending
  /\ serving[urls[i]] # Nobody
  /\ serving[urls[i]].key = group
  /\ pending' = pending \ {i}
  /\ resolved' = [resolved EXCEPT ![urls[i]] = serving[urls[i]].id]
  /\ UNCHANGED <<gateway, group, urls, attempt>>

\* No answer, or none within the timeout.
ProbeFails(i) ==
  /\ gateway = "probing"
  /\ i \in pending
  /\ pending' = pending \ {i}
  /\ UNCHANGED <<gateway, group, urls, attempt, resolved>>

\* A node of another ceremony: the rejection ends the process, other probes with it.
ProbeMismatch(i) ==
  /\ gateway = "probing"
  /\ i \in pending
  /\ serving[urls[i]] # Nobody
  /\ serving[urls[i]].key # group
  /\ Exit

\* Faulty variants of AllResolved and NextAttempt: a quorum is enough; no attempt counts.
QuorumResolved == Cardinality(Resolved) >= QuorumSize
SameAttempt == attempt

\* Counted per URL on one side and per entry of the list on the other.
AllResolved == Cardinality(Resolved) = Len(urls)

NextAttempt == attempt + 1

Retry ==
  /\ gateway = "probing"
  /\ pending = {}
  /\ ~AllResolved
  /\ attempt < DISCOVERY_ATTEMPTS
  /\ attempt' = NextAttempt
  /\ pending' = {i \in DOMAIN urls : urls[i] \notin Resolved}
  /\ UNCHANGED <<gateway, group, urls, resolved>>

GiveUp ==
  /\ gateway = "probing"
  /\ pending = {}
  /\ ~AllResolved
  /\ attempt >= DISCOVERY_ATTEMPTS
  /\ Exit

\* Two URLs may still have answered with one node id.
DistinctNodes == \A u, v \in Resolved : resolved[u] = resolved[v] => u = v

ComeUp ==
  /\ gateway = "probing"
  /\ pending = {}
  /\ AllResolved
  /\ IF DistinctNodes /\ Cardinality(Resolved) >= QuorumSize
     THEN gateway' = "up" /\ UNCHANGED <<group, urls, attempt, pending, resolved>>
     ELSE Exit

StopGateway == gateway # "down" /\ Exit

ProbeSettles == \E i \in pending : ProbeAnswered(i) \/ ProbeFails(i) \/ ProbeMismatch(i)

EndAttempt == Retry \/ GiveUp \/ ComeUp

\* A gateway that is up has as many different nodes as NODE_URLS has entries, at least a
\* threshold: it neither starts half-configured nor counts a node twice, whatever probes
\* failed, in whatever order they settled (discovery.ts 48-54).
UpWithEveryNode ==
  gateway = "up" =>
    /\ Cardinality(Roster) = Len(urls)
    /\ Len(urls) >= QuorumSize

\* Discovery comes to an end, even if a node never answers or a URL is listed twice.
DiscoveryEnds == gateway = "probing" ~> gateway # "probing"
===============================================================================
