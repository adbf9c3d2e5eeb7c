-------------------------- MODULE Deployment_proofs ---------------------------
(***************************************************************************)
(* What holds of the key files, the nodes that load them and the gateway   *)
(* that finds the nodes, for any numbers of nodes, ceremonies, URLs and    *)
(* attempts.  Three invariants: what the dealer's files hold while a run   *)
(* writes them, whose ceremony every process has, and what the gateway     *)
(* knows of its URLs.                                                      *)
(***************************************************************************)
EXTENDS Deployment, FiniteSetTheorems, TLAPS

-------------------------------------------------------------------------------
(***************************************************************************)
(* The dealer's files.                                                     *)
(***************************************************************************)

\* Unless the files are spoilt, what is there and not about to be written is of the
\* ceremony held last.  It has to speak of a run in progress, too: a kept set was once one.
FilesOfLastRun == ~spoilt => \A f \in Present \ Range(todo) : files[f] = ceremony

\* group.json is written first, so none is there unless it is.
GroupFileFirst ==
  files[GroupFile] = Absent => Present = {} /\ (todo = << >> \/ Head(todo) = GroupFile)

DealerInv ==
  /\ files \in [File -> Ceremony \cup {Absent, Torn}]
  /\ todo \in Seq(File)
  /\ ceremony \in 0 .. MaxCeremony
  /\ forced \in BOOLEAN /\ spoilt \in BOOLEAN
  /\ todo # << >> \/ Present # {} => ceremony # 0
  /\ FilesOfLastRun
  /\ kept # {} => todo = << >> /\ kept \subseteq Present
  /\ GroupFileFirst

\* What a run writes: group.json and then the nodes' files.
LEMMA OutputsAreFiles ==
  ASSUME NEW total \in Total
  PROVE  /\ OutputFiles(total) \in Seq(File)
         /\ OutputFiles(total) # << >> /\ Head(OutputFiles(total)) = GroupFile
         /\ Range(OutputFiles(total)) \subseteq File
         /\ GroupFile \in Range(OutputFiles(total))
<1>1. total \in Nat \ {0}
  BY DealerAssumption
<1>2. Range(OutputFiles(total)) \subseteq File
  BY DEF File
<1>3. DOMAIN OutputFiles(total) = 1 .. total + 1
  BY DEF OutputFiles
<1>4. \A k \in 1 .. total + 1 : OutputFiles(total)[k] \in File
  BY <1>2, <1>3 DEF Range
<1>5. OutputFiles(total) \in [1 .. total + 1 -> File]
  BY <1>4 DEF OutputFiles
<1>6. OutputFiles(total) \in Seq(File) /\ Len(OutputFiles(total)) = total + 1
  BY <1>1, <1>5
<1>7. OutputFiles(total)[1] = GroupFile
  BY <1>1 DEF OutputFiles, GroupFile
<1>8. 1 \in DOMAIN OutputFiles(total)
  BY <1>1, <1>3
<1>9. GroupFile \in Range(OutputFiles(total))
  BY <1>7, <1>8 DEF Range
<1>. QED  BY <1>1, <1>2, <1>6, <1>7, <1>9

LEMMA GroupIsAFile == GroupFile \in File
<1>1. PICK total \in Total : TRUE
  BY DealerAssumption
<1>. QED  BY <1>1, OutputsAreFiles

\* One element of a sequence, and the rest.
LEMMA RangeOfTail ==
  ASSUME NEW S, NEW s \in Seq(S), s # << >>
  PROVE  /\ Head(s) \in S /\ Head(s) \in Range(s)
         /\ Tail(s) \in Seq(S)
         /\ Range(s) \subseteq {Head(s)} \cup Range(Tail(s))
<1>1. /\ Len(s) \in Nat \ {0} /\ DOMAIN s = 1 .. Len(s)
      /\ Head(s) = s[1] /\ Head(s) \in S
      /\ Tail(s) \in Seq(S) /\ Len(Tail(s)) = Len(s) - 1
  OBVIOUS
<1>2. Head(s) \in Range(s)
  BY <1>1 DEF Range
<1>3. ASSUME NEW k \in DOMAIN s, k # 1 PROVE s[k] \in Range(Tail(s))
  <2>1. k - 1 \in 1 .. Len(Tail(s)) /\ Tail(s)[k - 1] = s[k]
    BY <1>1, <1>3
  <2>2. DOMAIN Tail(s) = 1 .. Len(Tail(s))
    BY <1>1
  <2>. QED  BY <2>1, <2>2 DEF Range
<1>. QED  BY <1>1, <1>2, <1>3 DEF Range

\* A set, or all that could be overwritten: nothing is there at all unless group.json is.
LEMMA NoneMeansNone ==
  ASSUME DealerInv, NEW total \in Total, Existing(total) = {}
  PROVE  Present = {}
<1>1. GroupFile \in File /\ GroupFile \in Range(OutputFiles(total))
  BY OutputsAreFiles, GroupIsAFile
<1>2. files[GroupFile] = Absent
  BY <1>1 DEF Existing, Present
<1>. QED  BY <1>2 DEF DealerInv, GroupFileFirst

LEMMA GenerateKeepsDealerInv ==
  ASSUME DealerInv, NEW total \in Total, NEW ifMissing \in BOOLEAN, NEW force \in BOOLEAN,
         GenerateDealerOutput(total, ifMissing, force)
  PROVE  DealerInv'
<1>1. /\ todo' \in Seq(File) /\ todo' # << >> /\ Head(todo') = GroupFile
      /\ todo' = OutputFiles(total)
  BY OutputsAreFiles DEF GenerateDealerOutput
<1>2. ceremony' \in 0 .. MaxCeremony /\ ceremony' # 0
  BY DealerAssumption DEF DealerInv, GenerateDealerOutput
<1>3. Present' = Present /\ files' = files /\ kept' = {}
  BY DEF GenerateDealerOutput, Present
<1>4. FilesOfLastRun'
  <2>1. ~spoilt' => Present \subseteq Range(todo')
    BY <1>1 DEF GenerateDealerOutput
  <2>. QED  BY <1>3, <2>1 DEF FilesOfLastRun
<1>5. forced' \in BOOLEAN /\ spoilt' \in BOOLEAN
  BY DEF GenerateDealerOutput, DealerInv
<1>6. GroupFileFirst'
  BY <1>1, <1>3 DEF GroupFileFirst, DealerInv
<1>. QED  BY <1>1, <1>2, <1>3, <1>4, <1>5, <1>6 DEF DealerInv

\* A file is truncated, then filled: what a run has yet to write tells nothing.
LEMMA WriteKeepsDealerInv ==
  ASSUME DealerInv, OpenFile \/ FillFile
  PROVE  DealerInv' /\ Present' # {}
<1>. DEFINE f == Head(todo)
<1>1. /\ f \in File /\ f \in Range(todo) /\ todo # << >>
      /\ Range(todo) \subseteq {f} \cup Range(Tail(todo)) /\ Tail(todo) \in Seq(File)
  BY RangeOfTail DEF DealerInv, OpenFile, FillFile
<1>2. ceremony \in Ceremony /\ ceremony # Absent /\ Torn # Absent
  BY <1>1, DealerAssumption DEF DealerInv, Ceremony, Absent, Torn
<1>3. kept = {} /\ kept' = {}
  BY <1>1 DEF DealerInv, OpenFile, FillFile
<1>. HIDE DEF f
<1>4. PICK v \in {Torn, ceremony} : files' = [files EXCEPT ![f] = v]
  BY DEF OpenFile, FillFile, f
<1>5. /\ files' \in [File -> Ceremony \cup {Absent, Torn}]
      /\ \A g \in File : files'[g] = IF g = f THEN v ELSE files[g]
  BY <1>1, <1>2, <1>4 DEF DealerInv
<1>6. f \in Present' /\ Present' = Present \cup {f}
  BY <1>1, <1>2, <1>5 DEF Present
<1>7. FilesOfLastRun'
  <2>1. CASE OpenFile
    <3>1. todo' = todo /\ ceremony' = ceremony /\ spoilt' = spoilt
      BY <2>1 DEF OpenFile
    <3>. QED  BY <1>1, <1>5, <1>6, <3>1 DEF FilesOfLastRun, DealerInv, Present
  <2>2. CASE FillFile
    <3>1. /\ todo' = Tail(todo) /\ ceremony' = ceremony /\ spoilt' = spoilt
          /\ files' = [files EXCEPT ![f] = ceremony]
      BY <2>2 DEF FillFile, f
    <3>2. files'[f] = ceremony
      BY <1>1, <3>1 DEF DealerInv
    <3>3. ASSUME NEW g \in Present' \ Range(todo'), ~spoilt' PROVE files'[g] = ceremony'
      <4>1. CASE g = f
        BY <3>1, <3>2, <4>1
      <4>2. CASE g # f
        <5>1. g \in Present \ Range(todo) /\ files'[g] = files[g]
          BY <1>1, <1>5, <1>6, <3>1, <3>3, <4>2 DEF Present
        <5>. QED  BY <3>1, <3>3, <5>1 DEF FilesOfLastRun, DealerInv
      <4>. QED  BY <4>1, <4>2
    <3>. QED  BY <3>3 DEF FilesOfLastRun
  <2>. QED  BY <2>1, <2>2
<1>8. GroupFileFirst'
  <2>1. SUFFICES ASSUME files'[GroupFile] = Absent PROVE FALSE
    BY DEF GroupFileFirst
  <2>2. f # GroupFile /\ files[GroupFile] = Absent
    BY <1>2, <1>5, <2>1, GroupIsAFile
  <2>. QED  BY <1>1, <2>2 DEF DealerInv, GroupFileFirst, f
<1>9. /\ todo' \in Seq(File) /\ ceremony' = ceremony /\ forced' = forced /\ spoilt' = spoilt
  BY <1>1 DEF OpenFile, FillFile, f, DealerInv
<1>. QED  BY <1>2, <1>3, <1>5, <1>6, <1>7, <1>8, <1>9 DEF DealerInv, Absent

LEMMA DealerNextKeepsDealerInv ==
  ASSUME DealerInv, DealerNext
  PROVE  DealerInv' /\ (Present' = {} => Present = {} /\ files' = files)
<1>1. ASSUME NEW total \in Total, NEW ifMissing \in BOOLEAN, NEW force \in BOOLEAN,
             KeepFiles(total, ifMissing)
      PROVE  DealerInv' /\ files' = files
  <2>1. kept' \subseteq Present /\ todo = << >>
    BY <1>1 DEF KeepFiles, Keeps, Existing
  <2>. QED  BY <1>1, <2>1 DEF KeepFiles, DealerInv, FilesOfLastRun, GroupFileFirst, Present
<1>2. ASSUME NEW total \in Total, NEW ifMissing \in BOOLEAN, NEW force \in BOOLEAN,
             RefuseRun(total, ifMissing, force)
      PROVE  DealerInv' /\ files' = files
  BY <1>2 DEF RefuseRun, DealerInv, FilesOfLastRun, GroupFileFirst, Present
<1>3. CASE EndEarly
  <2>1. /\ todo' = << >> /\ todo' \in Seq(File) /\ spoilt' = TRUE /\ kept = {} /\ kept' = {}
        /\ Present' = Present /\ files' = files /\ ceremony' = ceremony /\ forced' = forced
    BY <1>3 DEF EndEarly, Present, DealerInv
  <2>2. DealerInv'
    BY <2>1 DEF DealerInv, FilesOfLastRun, GroupFileFirst
  <2>. QED  BY <2>1, <2>2
<1>4. files' = files => Present' = Present
  BY DEF Present
<1>5. ASSUME NEW total \in Total, NEW ifMissing \in BOOLEAN, NEW force \in BOOLEAN,
             GenerateDealerOutput(total, ifMissing, force)
      PROVE  DealerInv' /\ files' = files
  BY <1>5, GenerateKeepsDealerInv DEF GenerateDealerOutput
<1>. QED  BY <1>1, <1>2, <1>3, <1>4, <1>5, WriteKeepsDealerInv DEF DealerNext

-------------------------------------------------------------------------------
(***************************************************************************)
(* Whose ceremony everyone has.                                            *)
(***************************************************************************)

NodeProcess == {Nobody} \cup [id : File \ {GroupFile}, key : Ceremony]

\* Where no file is, no process runs: files are removed only when all are down, and read
\* only when there.  So a ceremony that is not forced starts with nobody holding another.
HoldersOfLastRun ==
  /\ serving \in [Url -> NodeProcess]
  /\ group \in {0} \cup Ceremony
  /\ mount \in [Url -> File \ {GroupFile}]
  /\ Present = {} => group = 0 /\ \A u \in Url : serving[u] = Nobody
  /\ ~forced => \A c \in Held : c = ceremony

LEMMA NobodyHolds ==
  ASSUME files = [f \in File |-> Absent], group = 0, \A u \in Url : serving[u] = Nobody
  PROVE  Held = {}
  BY DEF Held, Absent, Ceremony, Nobody

LEMMA DealerRunsKeepsHolders ==
  ASSUME DealerInv, HoldersOfLastRun, DealerRuns
  PROVE  HoldersOfLastRun'
<1>1. /\ serving' = serving /\ group' = group /\ mount' = mount
      /\ Present' = {} => Present = {}
  BY DealerNextKeepsDealerInv DEF DealerRuns, gatewayVars
<1>2. ASSUME ~forced' PROVE \A c \in Held' : c = ceremony'
  <2>1. CASE UNCHANGED <<files, ceremony, forced>>
    BY <1>1, <1>2, <2>1 DEF Held, HoldersOfLastRun
  <2>2. ASSUME NEW total \in Total, NEW ifMissing \in BOOLEAN, NEW force \in BOOLEAN,
               GenerateDealerOutput(total, ifMissing, force)
        PROVE  \A c \in Held' : c = ceremony'
    <3>1. Present = {}
      BY <1>2, <2>2, NoneMeansNone DEF GenerateDealerOutput, Overwrites
    <3>2. files' = files /\ \A f \in File : files[f] = Absent
      BY <2>2, <3>1 DEF GenerateDealerOutput, Present
    <3>3. group' = 0 /\ \A u \in Url : serving'[u] = Nobody
      BY <1>1, <3>1 DEF HoldersOfLastRun
    <3>. QED  BY <3>2, <3>3 DEF Held, Absent, Ceremony, Nobody
  <2>3. CASE OpenFile \/ FillFile
    <3>1. ceremony' = ceremony /\ forced' = forced
      BY <2>3 DEF OpenFile, FillFile
    <3>2. \A f \in File : files'[f] \in {files[f], Torn, ceremony}
      BY <2>3 DEF OpenFile, FillFile, DealerInv
    <3>3. Held' \subseteq Held \cup {ceremony}
      BY <1>1, <3>2 DEF Held, Torn, Ceremony
    <3>. QED  BY <1>2, <3>1, <3>3 DEF HoldersOfLastRun
  <2>. QED  BY <2>1, <2>2, <2>3 DEF DealerRuns, DealerNext, KeepFiles, RefuseRun, EndEarly
<1>. QED  BY <1>1, <1>2 DEF HoldersOfLastRun

\* A node process has what its file held, or is gone.
LEMMA NodesKeepHolders ==
  ASSUME DealerInv, HoldersOfLastRun, NEW u \in Url, StartNode(u) \/ StopNode(u)
  PROVE  HoldersOfLastRun'
<1>1. /\ files' = files /\ ceremony' = ceremony /\ forced' = forced
      /\ group' = group /\ mount' = mount /\ Present' = Present
  BY DEF StartNode, StopNode, dealerVars, gatewayVars, Present
<1>2. CASE StartNode(u)
  <2>. DEFINE new == [id |-> mount[u], key |-> files[mount[u]]]
  <2>1. /\ mount[u] \in File \ {GroupFile} /\ files[mount[u]] \in Ceremony
        /\ serving' = [serving EXCEPT ![u] = new]
    BY <1>2 DEF StartNode, HoldersOfLastRun
  <2>2. new \in NodeProcess /\ new.key \in {files[f] : f \in File} /\ mount[u] \in Present
    BY <2>1 DEF NodeProcess, Present, Ceremony, Absent
  <2>. HIDE DEF new
  <2>3. serving' \in [Url -> NodeProcess]
    BY <2>1, <2>2 DEF HoldersOfLastRun
  <2>4. \A v \in Url : serving'[v].key \in {serving[v].key} \cup {files[f] : f \in File}
    BY <2>1, <2>2 DEF HoldersOfLastRun
  <2>5. Held' \subseteq Held
    BY <1>1, <2>4 DEF Held
  <2>. QED  BY <1>1, <2>2, <2>3, <2>5 DEF HoldersOfLastRun
<1>3. CASE StopNode(u)
  <2>1. serving' \in [Url -> NodeProcess]
    BY <1>3 DEF StopNode, NodeProcess, HoldersOfLastRun
  <2>2. \A v \in Url : serving'[v] \in {serving[v], Nobody}
    BY <1>3 DEF StopNode, HoldersOfLastRun
  <2>3. Held' \subseteq Held
    BY <1>1, <2>2 DEF Held, Nobody, Ceremony
  <2>. QED  BY <1>1, <2>1, <2>2, <2>3 DEF HoldersOfLastRun
<1>. QED  BY <1>2, <1>3

LEMMA GatewayKeepsHolders ==
  ASSUME DealerInv, HoldersOfLastRun, GatewayStarts \/ GatewayMoves
  PROVE  HoldersOfLastRun'
<1>1. /\ files' = files /\ ceremony' = ceremony /\ forced' = forced
      /\ serving' = serving /\ mount' = mount /\ Present' = Present
  BY DEF GatewayStarts, GatewayMoves, dealerVars, Present
<1>2. CASE group' \in {group, 0}
  <2>1. Held' \subseteq Held
    BY <1>1, <1>2 DEF Held, Ceremony
  <2>. QED  BY <1>1, <1>2, <2>1 DEF HoldersOfLastRun
<1>3. CASE group' = files[GroupFile] /\ files[GroupFile] \in Ceremony
  <2>1. GroupFile \in Present /\ group' \in {files[f] : f \in File}
    BY <1>3, GroupIsAFile DEF Present, Ceremony, Absent
  <2>2. Held' \subseteq Held
    BY <1>1, <2>1 DEF Held
  <2>. QED  BY <1>1, <1>3, <2>1, <2>2 DEF HoldersOfLastRun
<1>. QED  BY <1>2, <1>3 DEF GatewayStarts, GatewayMoves, StartGateway, RejectUrls, gatewayVars,
                            ProbeSettles, ProbeAnswered, ProbeFails, ProbeMismatch,
                            EndAttempt, Retry, GiveUp, ComeUp, StopGateway, Exit

-------------------------------------------------------------------------------
(***************************************************************************)
(* What the gateway knows of its URLs.                                     *)
(***************************************************************************)

\* Only URLs of the list have answered; a gateway that is up heard from as many URLs as
\* the list has entries, each with a node id of its own.
ProbeInv ==
  /\ urls \in Seq(Url)
  /\ pending \subseteq DOMAIN urls
  /\ resolved = [u \in Url |-> resolved[u]]
  /\ Resolved \subseteq Range(urls)
  /\ gateway # "down" => Len(urls) >= QuorumSize
  /\ gateway = "down" => group = 0 /\ Resolved = {}
  /\ gateway = "up" => AllResolved /\ DistinctNodes

LEMMA ExitKeepsProbeInv == ASSUME Exit PROVE ProbeInv'
<1>1. Resolved' = {}
  BY DEF Exit, Resolved
<1>. QED  BY <1>1 DEF Exit, ProbeInv

LEMMA StartKeepsProbeInv ==
  ASSUME ProbeInv, NEW key, NEW list \in UrlLists, StartGateway(key, list)
  PROVE  ProbeInv'
<1>1. Resolved' = {} /\ urls' \in Seq(Url)
  BY DiscoveryAssumption DEF StartGateway, ProbeInv, Resolved
<1>. QED  BY <1>1 DEF StartGateway, ProbeInv

LEMMA AnsweredKeepsProbeInv ==
  ASSUME ProbeInv, NEW i, ProbeAnswered(i)
  PROVE  ProbeInv'
<1>1. urls[i] \in Range(urls) /\ gateway = "probing" /\ gateway' = gateway /\ urls' = urls
  BY DEF ProbeAnswered, ProbeInv, Range
<1>2. Resolved' \subseteq Resolved \cup {urls[i]}
  BY DEF ProbeAnswered, ProbeInv, Resolved
<1>3. pending' \subseteq DOMAIN urls
  BY DEF ProbeAnswered, ProbeInv
<1>4. resolved' = [u \in Url |-> resolved'[u]]
  BY DEF ProbeAnswered, ProbeInv
<1>. QED  BY <1>1, <1>2, <1>3, <1>4 DEF ProbeInv

LEMMA MovesKeepProbeInv ==
  ASSUME ProbeInv, GatewayMoves
  PROVE  ProbeInv'
<1>1. ASSUME NEW i, ProbeFails(i) PROVE ProbeInv'
  BY <1>1 DEF ProbeFails, ProbeInv, Resolved, AllResolved, DistinctNodes
<1>2. CASE ProbeSettles
  BY <1>1, <1>2, AnsweredKeepsProbeInv, ExitKeepsProbeInv DEF ProbeSettles, ProbeMismatch
<1>3. CASE Retry
  BY <1>3 DEF Retry, ProbeInv, Resolved, AllResolved, DistinctNodes
<1>4. CASE ComeUp /\ ~Exit
  <2>1. /\ gateway = "probing" /\ gateway' = "up"
        /\ UNCHANGED <<group, urls, attempt, pending, resolved>>
        /\ AllResolved /\ DistinctNodes
    BY <1>4 DEF ComeUp
  <2>. QED  BY <2>1 DEF ProbeInv, Resolved, AllResolved, DistinctNodes
<1>. QED  BY <1>2, <1>3, <1>4, ExitKeepsProbeInv
          DEF GatewayMoves, EndAttempt, GiveUp, StopGateway

\* Different URLs answered with different ids: there are as many nodes as URLs.
LEMMA RosterOfDistinct ==
  ASSUME urls \in Seq(Url), Resolved \subseteq Range(urls), DistinctNodes
  PROVE  Cardinality(Roster) = Cardinality(Resolved)
<1>1. IsFiniteSet(Range(urls))
  <2>1. DOMAIN urls = 1 .. Len(urls) /\ Len(urls) \in Nat
    OBVIOUS
  <2>2. IsFiniteSet(DOMAIN urls)
    BY <2>1, FS_Interval
  <2>3. urls \in Surjection(DOMAIN urls, Range(urls))
    BY DEF Range, Surjection
  <2>. QED  BY <2>2, <2>3, FS_Surjection
<1>2. IsFiniteSet(Resolved)
  BY <1>1, FS_Subset
<1>3. [u \in Resolved |-> resolved[u]] \in Bijection(Resolved, Roster)
  BY DEF DistinctNodes, Roster, Bijection, Injection, Surjection, IsInjective
<1>. QED  BY <1>2, <1>3, FS_Bijection DEF ExistsBijection

-------------------------------------------------------------------------------
(***************************************************************************)
(* The deployment.                                                         *)
(***************************************************************************)

DeploymentInv == DealerInv /\ HoldersOfLastRun /\ ProbeInv

LEMMA InitDeployment == Init => DeploymentInv
<1>. SUFFICES ASSUME Init PROVE DeploymentInv
  OBVIOUS
<1>1. Present = {} /\ Resolved = {}
  BY DEF Init, DealerInit, DiscoveryInit, Present, Resolved
<1>2. DealerInv
  <2>1. files \in [File -> Ceremony \cup {Absent, Torn}] /\ 0 \in 0 .. MaxCeremony
    BY DealerAssumption DEF Init, DealerInit
  <2>2. << >> \in Seq(File)
    OBVIOUS
  <2>. QED  BY <1>1, <2>1, <2>2
            DEF Init, DealerInit, DealerInv, FilesOfLastRun, GroupFileFirst
<1>3. HoldersOfLastRun
  BY <1>1, MountsAssumption, NobodyHolds
  DEF Init, DealerInit, DiscoveryInit, HoldersOfLastRun, NodeProcess
<1>4. ProbeInv
  BY <1>1 DEF Init, DiscoveryInit, ProbeInv
<1>. QED  BY <1>2, <1>3, <1>4 DEF DeploymentInv

LEMMA RekeyKeepsInv == ASSUME DeploymentInv, Rekey PROVE DeploymentInv'
<1>1. /\ files' = [f \in File |-> Absent] /\ Present' = {}
      /\ todo' = << >> /\ kept' = {} /\ forced' = FALSE /\ spoilt' = FALSE
      /\ ceremony' = ceremony /\ serving' = serving /\ mount' = mount
      /\ UNCHANGED gatewayVars
  BY DEF Rekey, RemoveFiles, Present
<1>2. DealerInv'
  <2>1. << >> \in Seq(File) /\ files' \in [File -> Ceremony \cup {Absent, Torn}]
    BY <1>1
  <2>. QED  BY <1>1, <2>1 DEF DeploymentInv, DealerInv, FilesOfLastRun, GroupFileFirst
<1>3. \A u \in Url : serving'[u] = Nobody
  BY <1>1 DEF Rekey
<1>4. gateway = "down" /\ group = 0 /\ group' = 0
  BY <1>1 DEF Rekey, DeploymentInv, ProbeInv, gatewayVars
<1>5. HoldersOfLastRun'
  <2>1. Held' = {}
    BY <1>1, <1>3, <1>4 DEF Held, Absent, Ceremony, Nobody
  <2>. QED  BY <1>1, <1>3, <1>4, <2>1 DEF HoldersOfLastRun, DeploymentInv
<1>6. ProbeInv'
  BY <1>1 DEF gatewayVars, DeploymentInv, ProbeInv, Resolved, AllResolved, DistinctNodes
<1>. QED  BY <1>2, <1>5, <1>6 DEF DeploymentInv

LEMMA QuietKeepsDealerInv == ASSUME DealerInv, UNCHANGED dealerVars PROVE DealerInv'
  BY DEF dealerVars, DealerInv, FilesOfLastRun, GroupFileFirst, Present

LEMMA QuietKeepsProbeInv == ASSUME ProbeInv, UNCHANGED gatewayVars PROVE ProbeInv'
  BY DEF gatewayVars, ProbeInv, Resolved, AllResolved, DistinctNodes

LEMMA StepKeepsInv == DeploymentInv /\ [Next]_vars => DeploymentInv'
<1>. SUFFICES ASSUME DeploymentInv, [Next]_vars PROVE DeploymentInv'
  OBVIOUS
<1>. USE DEF DeploymentInv
<1>1. CASE DealerRuns
  <2>1. DealerInv'
    BY <1>1, DealerNextKeepsDealerInv DEF DealerRuns
  <2>. QED  BY <1>1, <2>1, DealerRunsKeepsHolders, QuietKeepsProbeInv DEF DealerRuns
<1>2. ASSUME NEW u \in Url, StartNode(u) \/ StopNode(u) PROVE DeploymentInv'
  BY <1>2, NodesKeepHolders, QuietKeepsDealerInv, QuietKeepsProbeInv DEF StartNode, StopNode
<1>3. CASE GatewayStarts
  <2>1. ProbeInv'
    BY <1>3, StartKeepsProbeInv, QuietKeepsProbeInv DEF GatewayStarts, RejectUrls
  <2>. QED  BY <1>3, <2>1, GatewayKeepsHolders, QuietKeepsDealerInv DEF GatewayStarts
<1>4. CASE GatewayMoves
  BY <1>4, GatewayKeepsHolders, MovesKeepProbeInv, QuietKeepsDealerInv DEF GatewayMoves
<1>5. CASE UNCHANGED vars
  <2>1. UNCHANGED <<dealerVars, gatewayVars, serving, mount>>
    BY <1>5 DEF vars
  <2>2. HoldersOfLastRun'
    BY <2>1 DEF dealerVars, gatewayVars, HoldersOfLastRun, Held, Present
  <2>. QED  BY <2>1, <2>2, QuietKeepsDealerInv, QuietKeepsProbeInv
<1>. QED  BY <1>1, <1>2, <1>3, <1>4, <1>5, RekeyKeepsInv DEF Next

\* The invariant itself: what the theorems below are read off.
THEOREM DeploymentInvariant == Spec => []DeploymentInv
<1>. QED  BY InitDeployment, StepKeepsInv, PTL DEF Spec

\* As long as nobody overwrites files with --force, all that the files, the nodes and the
\* gateway hold is of one ceremony, the last: a new one is held only when no file of
\* another is left, and then neither a node nor the gateway runs (cli.ts 144-157).
THEOREM OneCeremony == Spec => []OneCeremonyUnlessForced
<1>1. HoldersOfLastRun => OneCeremonyUnlessForced
  BY DEF HoldersOfLastRun, OneCeremonyUnlessForced
<1>. QED  BY <1>1, DeploymentInvariant, PTL DEF DeploymentInv

\* A gateway that is up knows as many different nodes as NODE_URLS has entries, and at
\* least a threshold, whichever probes failed and in whatever order they settled
\* (discovery.ts 48-54).
THEOREM ComesUpWithEveryNode == Spec => []UpWithEveryNode
<1>1. ProbeInv => UpWithEveryNode
  <2>. SUFFICES ASSUME ProbeInv, gateway = "up"
                PROVE  Cardinality(Roster) = Len(urls) /\ Len(urls) >= QuorumSize
    BY DEF UpWithEveryNode
  <2>1. Cardinality(Roster) = Cardinality(Resolved)
    BY RosterOfDistinct DEF ProbeInv
  <2>. QED  BY <2>1 DEF ProbeInv, AllResolved
<1>. QED  BY <1>1, DeploymentInvariant, PTL DEF DeploymentInv
-------------------------------------------------------------------------------
(***************************************************************************)
(* What a file name tells.  A run writes its files in the order of their   *)
(* numbers, so what it leaves half written is the last file there is: as   *)
(* long as it writes where none was, which --force alone allows otherwise. *)
(***************************************************************************)

Ascending == \A i, j \in DOMAIN todo : i < j => todo[i] < todo[j]

\* No file is ahead of the one being written, and only that one or, once the run is over,
\* the last of all is torn.
TornIsLast == ~forced => \A f \in Present :
  /\ todo # << >> => f < Head(todo) \/ (opened /\ f = Head(todo))
  /\ files[f] = Torn => /\ \A g \in Present : g <= f
                        /\ todo # << >> => opened /\ f = Head(todo)

WritingInv ==
  /\ opened \in BOOLEAN
  /\ todo = << >> => ~opened
  /\ Ascending
  /\ TornIsLast

LEMMA FilesAreNumbers ==
  /\ File \subseteq Nat
  /\ \A total \in Total : \A i, j \in DOMAIN OutputFiles(total) :
       i < j => OutputFiles(total)[i] < OutputFiles(total)[j]
<1>1. ASSUME NEW total \in Total
      PROVE  /\ total \in Nat /\ DOMAIN OutputFiles(total) = 1 .. total + 1
             /\ \A k \in 1 .. total + 1 : OutputFiles(total)[k] = k - 1
  BY DealerAssumption DEF OutputFiles
<1>2. \A total \in Total : Range(OutputFiles(total)) \subseteq Nat
  BY <1>1 DEF Range
<1>3. File \subseteq Nat
  BY <1>2 DEF File
<1>4. ASSUME NEW total \in Total, NEW i \in DOMAIN OutputFiles(total),
             NEW j \in DOMAIN OutputFiles(total), i < j
      PROVE  OutputFiles(total)[i] < OutputFiles(total)[j]
  <2>1. i \in Int /\ j \in Int
    BY <1>1
  <2>. QED  BY <1>1, <1>4, <2>1
<1>. QED  BY <1>3, <1>4

LEMMA TailAscends ==
  ASSUME todo \in Seq(File), todo # << >>, Ascending
  PROVE  /\ \A i, j \in DOMAIN Tail(todo) : i < j => Tail(todo)[i] < Tail(todo)[j]
         /\ Tail(todo) # << >> => Head(todo) < Head(Tail(todo))
<1>1. /\ Len(todo) \in Nat \ {0} /\ DOMAIN todo = 1 .. Len(todo)
      /\ Tail(todo) \in Seq(File) /\ Len(Tail(todo)) = Len(todo) - 1
      /\ DOMAIN Tail(todo) = 1 .. Len(todo) - 1
      /\ \A i \in 1 .. Len(todo) - 1 : Tail(todo)[i] = todo[i + 1]
  OBVIOUS
<1>2. ASSUME NEW i \in DOMAIN Tail(todo), NEW j \in DOMAIN Tail(todo), i < j
      PROVE  Tail(todo)[i] < Tail(todo)[j]
  BY <1>1, <1>2 DEF Ascending
<1>3. ASSUME Tail(todo) # << >> PROVE Head(todo) < Head(Tail(todo))
  <2>1. Len(todo) - 1 >= 1
    BY <1>1, <1>3
  <2>2. Head(todo) = todo[1] /\ Head(Tail(todo)) = todo[2] /\ 1 \in DOMAIN todo /\ 2 \in DOMAIN todo
    BY <1>1, <2>1
  <2>. QED  BY <2>2 DEF Ascending
<1>. QED  BY <1>2, <1>3

\* A file is truncated, then filled.
LEMMA WriteKeepsWritingInv ==
  ASSUME DealerInv, WritingInv, OpenFile \/ FillFile
  PROVE  WritingInv'
<1>. DEFINE h == Head(todo)
<1>1. /\ h \in File /\ todo # << >> /\ todo \in Seq(File)
  BY RangeOfTail DEF DealerInv, OpenFile, FillFile
<1>2. ceremony \in Ceremony /\ ceremony # Absent /\ Torn # Absent /\ ceremony # Torn
  BY <1>1, DealerAssumption DEF DealerInv, Ceremony, Absent, Torn
<1>3. h \in Nat /\ \A g \in Present : g \in Nat
  BY <1>1, FilesAreNumbers DEF Present
<1>. HIDE DEF h
<1>4. PICK v \in {Torn, ceremony} :
        files' = [files EXCEPT ![h] = v] /\ (OpenFile => v = Torn) /\ (FillFile => v = ceremony)
  BY DEF OpenFile, FillFile, h
<1>5. /\ \A g \in File : files'[g] = IF g = h THEN v ELSE files[g]
      /\ Present' = Present \cup {h}
  BY <1>1, <1>2, <1>4 DEF DealerInv, Present
<1>6. CASE OpenFile
  <2>1. ~opened /\ opened' = TRUE /\ todo' = todo /\ forced' = forced
    BY <1>6 DEF OpenFile
  <2>2. ASSUME ~forced PROVE TornIsLast'
    <3>1. \A f \in Present : f < h /\ files[f] # Torn
      BY <1>1, <2>1, <2>2 DEF WritingInv, TornIsLast, h
    <3>2. \A f \in Present' : f <= h /\ (files'[f] = Torn => f = h)
      BY <1>3, <1>5, <3>1 DEF Present
    <3>3. \A f \in Present' : f < h \/ f = h
      BY <1>3, <1>5, <3>1
    <3>. QED  BY <2>1, <3>2, <3>3 DEF TornIsLast, h
  <2>. QED  BY <1>1, <2>1, <2>2 DEF WritingInv, Ascending, TornIsLast
<1>7. CASE FillFile
  <2>1. opened /\ opened' = FALSE /\ todo' = Tail(todo) /\ forced' = forced
    BY <1>7 DEF FillFile
  <2>2. Ascending' /\ (todo' # << >> => h < Head(todo'))
    BY <1>1, <2>1, TailAscends DEF WritingInv, Ascending, h
  <2>3. ASSUME ~forced PROVE TornIsLast'
    <3>1. \A f \in Present : f <= h /\ (files[f] = Torn => f = h)
      BY <1>1, <1>3, <2>3 DEF WritingInv, TornIsLast, h
    <3>2. \A f \in Present' : f <= h /\ files'[f] # Torn /\ f \in Nat
      BY <1>2, <1>3, <1>4, <1>5, <1>7, <3>1 DEF Present
    <3>3. todo' # << >> => Head(todo') \in Nat
      BY <1>1, <2>1, RangeOfTail, FilesAreNumbers
    <3>4. todo' # << >> => \A f \in Present' : f < Head(todo')
      BY <1>3, <2>2, <3>2, <3>3
    <3>. QED  BY <3>2, <3>4 DEF TornIsLast
  <2>. QED  BY <2>1, <2>2, <2>3 DEF WritingInv, TornIsLast
<1>. QED  BY <1>6, <1>7

LEMMA DealerNextKeepsWritingInv ==
  ASSUME DealerInv, WritingInv, DealerNext
  PROVE  WritingInv'
<1>1. ASSUME UNCHANGED <<files, todo, opened, forced>> PROVE WritingInv'
  BY <1>1 DEF WritingInv, Ascending, TornIsLast, Present
<1>2. ASSUME NEW total \in Total, NEW ifMissing \in BOOLEAN, NEW force \in BOOLEAN,
             GenerateDealerOutput(total, ifMissing, force)
      PROVE  WritingInv'
  <2>1. /\ todo = << >> /\ todo' = OutputFiles(total) /\ opened' = opened /\ Present' = Present
        /\ todo' # << >>
    BY <1>2, OutputsAreFiles DEF GenerateDealerOutput, Present
  <2>2. ~forced' => Present = {}
    BY <1>2, NoneMeansNone DEF GenerateDealerOutput, Overwrites
  <2>3. Ascending'
    BY <2>1, FilesAreNumbers DEF Ascending
  <2>. QED  BY <2>1, <2>2, <2>3 DEF WritingInv, TornIsLast
<1>3. CASE EndEarly
  <2>1. /\ todo' = << >> /\ opened' = FALSE /\ files' = files /\ forced' = forced
        /\ Present' = Present /\ DOMAIN todo' = {}
    BY <1>3 DEF EndEarly, Present
  <2>. QED  BY <2>1 DEF WritingInv, Ascending, TornIsLast
<1>. QED  BY <1>1, <1>2, <1>3, WriteKeepsWritingInv DEF DealerNext, KeepFiles, RefuseRun

\* A set that --if-missing finds complete and keeps is of one ceremony, unless a run ended
\* early or left files of another behind since they were removed.  After such a run, too,
\* all but a torn last file are of one ceremony, unless --force was given (cli.ts 144-157).
THEOREM KeptIsWhole == Spec => []KeptSetIsOneCeremony
<1>1. ASSUME DealerInv, kept # {}
      PROVE  kept \subseteq Present /\ Range(todo) = {} /\ ceremony \in Ceremony
  BY <1>1, DealerAssumption DEF DealerInv, Ceremony, Range
<1>2. ASSUME DealerInv, kept # {}, ~spoilt
      PROVE  \E c \in Ceremony : \A f \in kept : files[f] = c
  BY <1>1, <1>2 DEF DealerInv, FilesOfLastRun
<1>3. ASSUME DealerInv, WritingInv, HoldersOfLastRun, kept # {}, ~forced
      PROVE  \E c \in Ceremony : \A f \in kept :
               files[f] = c \/ (files[f] = Torn /\ \A g \in kept : g <= f)
  <2>1. \A f \in Present : f \in File /\ files[f] \in Ceremony \cup {Torn}
    BY <1>3 DEF DealerInv, Present
  <2>2. \A f \in Present : files[f] \in Ceremony => files[f] = ceremony
    BY <1>3, <2>1 DEF HoldersOfLastRun, Held
  <2>3. \A f \in Present : files[f] = Torn => \A g \in Present : g <= f
    BY <1>3 DEF WritingInv, TornIsLast
  <2>. QED  BY <1>1, <1>3, <2>1, <2>2, <2>3
<1>4. DeploymentInv /\ WritingInv => KeptSetIsOneCeremony
  BY <1>2, <1>3 DEF DeploymentInv, KeptSetIsOneCeremony
<1>5. Init => WritingInv
  <2>. SUFFICES ASSUME Init PROVE WritingInv
    OBVIOUS
  <2>1. todo = << >> /\ opened = FALSE /\ Present = {} /\ DOMAIN todo = {}
    BY DEF Init, DealerInit, Present
  <2>. QED  BY <2>1 DEF WritingInv, Ascending, TornIsLast
<1>6. DeploymentInv /\ WritingInv /\ [Next]_vars => WritingInv'
  <2>. SUFFICES ASSUME DeploymentInv, WritingInv, [Next]_vars PROVE WritingInv'
    OBVIOUS
  <2>1. ASSUME UNCHANGED dealerVars PROVE WritingInv'
    BY <2>1 DEF dealerVars, WritingInv, Ascending, TornIsLast, Present
  <2>2. CASE Rekey
    <3>1. /\ todo' = todo /\ opened' = opened /\ Present' = {}
      BY <2>2 DEF Rekey, RemoveFiles, Present
    <3>. QED  BY <3>1 DEF WritingInv, Ascending, TornIsLast
  <2>3. CASE DealerRuns
    BY <2>3, DealerNextKeepsWritingInv DEF DealerRuns, DeploymentInv
  <2>. QED  BY <2>1, <2>2, <2>3 DEF Next, StartNode, StopNode, GatewayStarts, GatewayMoves, vars
<1>. QED  BY <1>4, <1>5, <1>6, DeploymentInvariant, PTL DEF Spec
===============================================================================
