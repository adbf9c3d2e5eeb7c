-------------------------------- MODULE Dealer --------------------------------
(***************************************************************************)
(* The dealer's command line: one run generates the keys of a new ceremony *)
(* and writes group.json and node-1.json .. node-n.json one after the      *)
(* other, or keeps or refuses what it finds.  A run can be killed, or a    *)
(* write fail, between any two files and in the middle of one.  What a     *)
(* file holds is reduced to the number of the ceremony that wrote it.      *)
(***************************************************************************)
EXTENDS Integers, Sequences, SequencesExt

CONSTANTS
  Total,       \* the --total values runs are given
  Threshold,   \* --threshold
  MaxCeremony  \* bound on the ceremonies held

ASSUME DealerAssumption ==
  /\ Total \subseteq Nat \ {0} /\ Total # {}
  /\ Threshold \in Nat \ {0}
  /\ MaxCeremony \in Nat

VARIABLES
  files,      \* what each output file holds: a ceremony, Absent or Torn
  todo,       \* the files the current run has yet to write, none when none runs
  opened,     \* whether the first of them has been truncated
  ceremony,   \* the ceremonies held so far
  kept,       \* the files the last run found complete and kept, none if it did not
  forced,     \* whether files were overwritten since they were last removed
  spoilt      \* whether a run ended early, or overwrote fewer files than there were

dealerVars == <<files, todo, opened, ceremony, kept, forced, spoilt>>

GroupFile == 0       \* group.json; the file node-i.json is i
Absent == 0
Torn == -1
Ceremony == 1 .. MaxCeremony

OutputFiles(total) == [k \in 1 .. total + 1 |-> k - 1]

File == UNION {Range(OutputFiles(total)) : total \in Total}

Present == {f \in File : files[f] # Absent}
Existing(total) == Present \cap Range(OutputFiles(total))

DealerInit ==
  /\ files = [f \in File |-> Absent]
  /\ todo = << >>
  /\ opened = FALSE
  /\ ceremony = 0
  /\ kept = {}
  /\ forced = FALSE
  /\ spoilt = FALSE

\* Faulty variants of Keeps and Overwrites: a partial set is kept; --force is not asked.
KeepsSome(total, ifMissing) == ifMissing /\ Existing(total) # {}
OverwritesUnasked(total, ifMissing, force) ==
  ~(ifMissing /\ Existing(total) = Range(OutputFiles(total)))

\* --if-missing: every output file is there.
Keeps(total, ifMissing) == ifMissing /\ Existing(total) = Range(OutputFiles(total))

Overwrites(total, ifMissing, force) ==
  /\ ~Keeps(total, ifMissing)
  /\ force \/ Existing(total) = {}

KeepFiles(total, ifMissing) ==
  /\ todo = << >>
  /\ Keeps(total, ifMissing)
  /\ kept' = Range(OutputFiles(total))
  /\ UNCHANGED <<files, todo, opened, ceremony, forced, spoilt>>

\* Exit 1: files would be overwritten, or there would be fewer nodes than the threshold.
RefuseRun(total, ifMissing, force) ==
  /\ todo = << >>
  /\ ~Keeps(total, ifMissing)
  /\ ~Overwrites(total, ifMissing, force) \/ total < Threshold
  /\ kept' = {}
  /\ UNCHANGED <<files, todo, opened, ceremony, forced, spoilt>>

GenerateDealerOutput(total, ifMissing, force) ==
  /\ todo = << >>
  /\ Overwrites(total, ifMissing, force)
  /\ total >= Threshold
  /\ ceremony < MaxCeremony
  /\ ceremony' = ceremony + 1
  /\ todo' = OutputFiles(total)
  /\ kept' = {}
  /\ forced' = (forced \/ (force /\ Present # {}))
  /\ spoilt' = (spoilt \/ ~(Present \subseteq Range(OutputFiles(total))))
  /\ UNCHANGED <<files, opened>>

\* writeFileSync truncates the file, then fills it.
OpenFile ==
  /\ todo # << >> /\ ~opened
  /\ opened' = TRUE
  /\ files' = [files EXCEPT ![Head(todo)] = Torn]
  /\ UNCHANGED <<todo, ceremony, kept, forced, spoilt>>

FillFile ==
  /\ todo # << >> /\ opened
  /\ opened' = FALSE
  /\ files' = [files EXCEPT ![Head(todo)] = ceremony]
  /\ todo' = Tail(todo)
  /\ UNCHANGED <<ceremony, kept, forced, spoilt>>

\* The process is killed, or a write fails and the run exits 1.
EndEarly ==
  /\ todo # << >>
  /\ todo' = << >>
  /\ opened' = FALSE
  /\ spoilt' = TRUE
  /\ UNCHANGED <<files, ceremony, kept, forced>>

\* The operator removes the whole directory.
RemoveFiles ==
  /\ todo = << >>
  /\ Present # {}
  /\ files' = [f \in File |-> Absent]
  /\ forced' = FALSE
  /\ spoilt' = FALSE
  /\ kept' = {}
  /\ UNCHANGED <<todo, opened, ceremony>>

DealerNext ==
  \/ \E total \in Total, ifMissing, force \in BOOLEAN :
       \/ KeepFiles(total, ifMissing)
       \/ RefuseRun(total, ifMissing, force)
       \/ GenerateDealerOutput(total, ifMissing, force)
  \/ OpenFile
  \/ FillFile
  \/ EndEarly

\* A set that --if-missing keeps is one whole ceremony, so that a restart comes back with
\* the keys it had (cli.ts 144-157).  File names alone do not tell of a run that ended early
\* or wrote fewer files than there were: after one the set may lack what the run was writing,
\* its last file, and is of two ceremonies only if --force was given.
KeptSetIsOneCeremony == kept # {} =>
  /\ ~spoilt => \E c \in Ceremony : \A f \in kept : files[f] = c
  /\ ~forced => \E c \in Ceremony : \A f \in kept :
       files[f] = c \/ (files[f] = Torn /\ \A g \in kept : g <= f)
===============================================================================
