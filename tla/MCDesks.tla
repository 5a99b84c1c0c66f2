------------------------------ MODULE MCDesks ------------------------------
(***************************************************************************)
(* Desks that share nothing, in one state space: live orders, backups and  *)
(* the replay laboratory.  The initial state picks the one that works, and *)
(* the others rest.                                                        *)
(***************************************************************************)
EXTENDS OrderDesk, Sequences, TLC

CONSTANTS
  MaxRows, MaxStamp, MaxFaults,
  Slots, Payloads, Errors, Universes, MaxRevision, MaxDownloads

VARIABLES
  world,  \* the desk that works
  engine, source, second, artifact, manifest, job, accidents,
  registered, evidences, log, download, reports, downloads

backupVars == << engine, source, second, artifact, manifest, job, accidents >>
replayVars == << registered, evidences, log, download, reports, downloads >>

Backup == INSTANCE BackupDesk WITH Backups <- Desks, Overlap <- FALSE

ASSUME BackupAssumption == Backup!BackupAssumption

Bar(slot, bar) == [zoned |-> TRUE, slot |-> slot, bar |-> bar]

\* A session with a copy of a bar, one that contradicts itself, one with every defect.
MCPayloads == {
  << Bar(2, "a"), Bar(1, "a"), Bar(3, "a"), Bar(2, "a") >>,
  << Bar(1, "a"), Bar(2, "b"), Bar(3, "a"), Bar(2, "a") >>,
  << Bar(1, "negative"), Bar(2, "partial"), Bar(3, "invalid"), Bar(0, "a"),
     [Bar(1, "a") EXCEPT !.zoned = FALSE] >> }

MCUniverses == "one" :> {1} @@ "both" :> {1, 2}

Replay == INSTANCE ReplayLab WITH Downloaders <- Desks

ASSUME ReplayAssumption == Replay!ReplayAssumption

BackupAtRest ==
  /\ engine = 0 /\ source = 0 /\ second = 0 /\ artifact = 0 /\ manifest = 0
  /\ job = 0 /\ accidents = 0

ReplayAtRest ==
  /\ registered = 0 /\ evidences = 0 /\ log = 0 /\ download = 0 /\ reports = 0
  /\ downloads = 0

MCInit ==
  /\ Init
  /\ \/ world = "orders" /\ BackupAtRest /\ ReplayAtRest
     \/ world = "backups" /\ Backup!Init /\ ReplayAtRest
     \/ world = "replay" /\ BackupAtRest /\ Replay!Init

OrderStep == world = "orders" /\ Next /\ UNCHANGED << world, backupVars, replayVars >>
BackupStep == world = "backups" /\ Backup!Next /\ UNCHANGED << world, vars, replayVars >>
ReplayStep == world = "replay" /\ Replay!Next /\ UNCHANGED << world, vars, backupVars >>

MCSpec ==
  MCInit /\ [][OrderStep \/ BackupStep \/ ReplayStep]_<< world, vars, backupVars, replayVars >>

\* BackupDesk: a manifest tells the truth about its backup.
ManifestSpeaksTrue == world = "backups" => Backup!ManifestSpeaksTrue

\* ReplayLab: the log of replay evidence is sound.
ResearchIsSound == world = "replay" => Replay!ResearchIsSound

\* The same two processes work at every desk.
Symmetry == Permutations(Desks) \union Permutations(Invocations)

=============================================================================
