------------------------------ MODULE Deployment ------------------------------
(***************************************************************************)
(* The key files through their life: the dealer writes them, each node     *)
(* process loads the one file its container mounts, the gateway reads      *)
(* group.json and then finds the nodes.  Nothing but the files and the     *)
(* answers to /health ties the three together, and every process may stop  *)
(* and start again at any moment, also while the dealer writes.            *)
(***************************************************************************)
EXTENDS Dealer, Discovery

CONSTANT Mounts  \* which node's file the container behind each URL may mount

ASSUME MountsAssumption == Mounts \subseteq [Url -> File \ {GroupFile}]

VARIABLE mount   \* fixed when the system is set up

vars == <<dealerVars, serving, gatewayVars, mount>>

Init ==
  /\ DealerInit
  /\ DiscoveryInit
  /\ serving = [u \in Url |-> Nobody]
  /\ mount \in Mounts

\* A process starts only on a file that parses, and keeps what it read.
StartNode(u) ==
  /\ serving[u] = Nobody
  /\ files[mount[u]] \in Ceremony
  /\ serving' = [serving EXCEPT ![u] = [id |-> mount[u], key |-> files[mount[u]]]]
  /\ UNCHANGED <<dealerVars, gatewayVars, mount>>

StopNode(u) ==
  /\ serving[u] # Nobody
  /\ serving' = [serving EXCEPT ![u] = Nobody]
  /\ UNCHANGED <<dealerVars, gatewayVars, mount>>

DealerRuns == DealerNext /\ UNCHANGED <<serving, gatewayVars, mount>>

GatewayStarts ==
  /\ files[GroupFile] \in Ceremony
  /\ \E list \in UrlLists : StartGateway(files[GroupFile], list) \/ RejectUrls(list)
  /\ UNCHANGED <<dealerVars, serving, mount>>

GatewayMoves ==
  /\ ProbeSettles \/ EndAttempt \/ StopGateway
  /\ UNCHANGED <<dealerVars, serving, mount>>

\* `docker compose down' and `rm -rf secrets/', to have new keys.
Rekey ==
  /\ gateway = "down"
  /\ \A u \in Url : serving[u] = Nobody
  /\ RemoveFiles
  /\ UNCHANGED <<serving, gatewayVars, mount>>

Next ==
  \/ DealerRuns
  \/ \E u \in Url : StartNode(u) \/ StopNode(u)
  \/ GatewayStarts
  \/ GatewayMoves
  \/ Rekey

\* Probes settle, in five seconds at worst, and the loop that awaits them goes on.
Fairness ==
  /\ WF_vars(ProbeSettles /\ UNCHANGED <<dealerVars, serving, mount>>)
  /\ WF_vars(EndAttempt /\ UNCHANGED <<dealerVars, serving, mount>>)

Spec == Init /\ [][Next]_vars /\ Fairness

\* The ceremonies anyone holds: in a file, in a node process, in the gateway.
Held ==
  ({files[f] : f \in File} \cup {serving[u].key : u \in Url} \cup {group}) \cap Ceremony

\* As long as nobody overwrites files with --force, the files, the nodes and the gateway
\* are all of one ceremony: through runs that end early or are repeated, processes that
\* start while files are being written, and new keys made as the manual says.
OneCeremonyUnlessForced == ~forced => \A c, d \in Held : c = d
===============================================================================
