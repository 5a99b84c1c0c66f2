----------------------------- MODULE BackupDesk -----------------------------
(***************************************************************************)
(* "storage backup" and "storage verify-backup" (storage/backup.py): a     *)
(* backup plans, produces an artifact named after the second it started    *)
(* in, verifies it and writes a manifest, while the application writes to  *)
(* the source and other backups run.  A step is one tool run or one file   *)
(* operation; a process may die between any two.                           *)
(*                                                                         *)
(* The application adds rows to the source and removes some: a settled     *)
(* payment, a position that is sold, a sleeve.  A moment of the source is  *)
(* how many rows had been added and how many removed by then; what a count *)
(* sees of it is the difference.  A file is "empty" before its table of    *)
(* contents is there, "torn" while data blocks are missing, and "whole".   *)
(***************************************************************************)
EXTENDS Naturals

CONSTANTS
  Backups,   \* processes that make a backup
  MaxRows,   \* bound: rows added to the source
  MaxStamp,  \* bound: seconds in which a backup may start
  MaxFaults, \* bound: failures, deaths and damage in a behaviour
  Overlap    \* TRUE: two backups may start in one second

BackupAssumption ==
  MaxRows \in Nat /\ MaxStamp \in Nat \ {0} /\ MaxFaults \in Nat /\ Overlap \in BOOLEAN

VARIABLES
  engine,    \* the configured backend
  source,    \* the moment of the source database
  second,    \* the clock, to the precision of artifact_names
  artifact,  \* per second: the file of that name
  manifest,  \* per second: the manifest beside it
  job,       \* per process: where its backup stands, and its locals
  accidents  \* faults so far

vars == << engine, source, second, artifact, manifest, job, accidents >>

Stamps == 1..MaxStamp

Dawn == [added |-> 0, removed |-> 0]

\* What a count of the rows sees of a moment
Rows(moment) == moment.added - moment.removed

\* The source was at a before it was at b, or is there still.
Before(a, b) == a.added <= b.added /\ a.removed <= b.removed

\* The moment of a file is the one whose rows it holds.
NoFile == [state |-> "none", moment |-> Dawn, writer |-> "none"]

\* counted: the moment whose rows the manifest, or the plan, states
NoManifest == [state |-> "none", counted |-> Dawn, digest |-> NoFile, level |-> "not-run"]

NoJob == [at |-> "idle", stamp |-> 1, counted |-> Dawn, level |-> "not-run", digest |-> NoFile]

Init ==
  /\ engine \in {"sqlite", "postgresql"}
  /\ source = Dawn
  /\ second = 1
  /\ artifact = [n \in Stamps |-> NoFile]
  /\ manifest = [n \in Stamps |-> NoManifest]
  /\ job = [p \in Backups |-> NoJob]
  /\ accidents = 0

-----------------------------------------------------------------------------
(* The surroundings *)

Accident == accidents < MaxFaults /\ accidents' = accidents + 1

RowAdded ==
  /\ source.added < MaxRows
  /\ source' = [source EXCEPT !.added = @ + 1]
  /\ UNCHANGED << engine, second, artifact, manifest, job, accidents >>

\* session.delete of a row that is counted
RowRemoved ==
  /\ Rows(source) > 0
  /\ source' = [source EXCEPT !.removed = @ + 1]
  /\ UNCHANGED << engine, second, artifact, manifest, job, accidents >>

Tick ==
  /\ second < MaxStamp
  /\ second' = second + 1
  /\ UNCHANGED << engine, source, artifact, manifest, job, accidents >>

InUse(n) == \E p \in Backups : job[p].at # "idle" /\ job[p].stamp = n

\* A file that nobody is working on loses its tail.
Damage(n) ==
  /\ artifact[n].state = "whole" /\ ~InUse(n)
  /\ Accident
  /\ artifact' = [artifact EXCEPT ![n].state = "torn"]
  /\ UNCHANGED << engine, source, second, manifest, job >>

-----------------------------------------------------------------------------
(* Plan and production *)

File(p) == artifact[job[p].stamp]
Store(p, file) == artifact' = [artifact EXCEPT ![job[p].stamp] = file]
Move(p, label) == job' = [job EXCEPT ![p].at = label]

NameIsFree(n) == artifact[n].state = "none" /\ manifest[n].state = "none"

\* plan_backup: this name is free now, and these are the rows now.
Plan(p) ==
  /\ job[p].at = "idle"
  /\ NameIsFree(second)
  /\ Overlap \/ ~InUse(second)
  /\ job' = [job EXCEPT ![p] = [NoJob EXCEPT !.at = "produce", !.stamp = second,
                                             !.counted = source]]
  /\ UNCHANGED << engine, source, second, artifact, manifest, accidents >>

\* pg_dump fixes its snapshot and truncates whatever file has the name.
OpenDump(p) ==
  /\ job[p].at = "produce" /\ engine = "postgresql"
  /\ Store(p, [state |-> "empty", moment |-> source, writer |-> p])
  /\ Move(p, "blocks")
  /\ UNCHANGED << engine, source, second, manifest, accidents >>

\* It writes on where it is; what two dumps have written to is no archive.
WriteDump(p) ==
  /\ job[p].at = "blocks"
  /\ IF File(p).state = "none" THEN UNCHANGED artifact
     ELSE Store(p, [File(p) EXCEPT !.state = "torn",
                                   !.writer = IF @ = p THEN p ELSE "several"])
  /\ Move(p, "seal")
  /\ UNCHANGED << engine, source, second, manifest, accidents >>

SealDump(p) ==
  /\ job[p].at = "seal"
  /\ IF File(p).writer = p THEN Store(p, [File(p) EXCEPT !.state = "whole"])
                           ELSE UNCHANGED artifact
  /\ Move(p, "list")
  /\ UNCHANGED << engine, source, second, manifest, accidents >>

\* The target of the online backup exists, empty, from the connection on ...
OpenCopy(p) ==
  /\ job[p].at = "produce" /\ engine = "sqlite"
  /\ IF File(p).state = "none"
     THEN Store(p, [state |-> "empty", moment |-> Dawn, writer |-> p])
     ELSE UNCHANGED artifact
  /\ Move(p, "copy")
  /\ UNCHANGED << engine, source, second, manifest, accidents >>

\* ... and changes in one commit to the rows of that moment: the copy restarts
\* whenever the source is written meanwhile.
Copy(p) ==
  /\ job[p].at = "copy"
  /\ Store(p, [state |-> "whole", moment |-> source, writer |-> p])
  /\ Move(p, "compare")
  /\ UNCHANGED << engine, source, second, manifest, accidents >>

\* _reject: renamed aside, unless that fails too.
Reject(p) ==
  /\ Store(p, NoFile) \/ UNCHANGED artifact
  /\ job' = [job EXCEPT ![p] = NoJob]

DumpFails(p) ==
  /\ job[p].at \in {"blocks", "seal"}
  /\ Accident
  /\ Reject(p)
  /\ UNCHANGED << engine, source, second, manifest >>

\* A death, and every exception that leaves execute_backup with the file in place:
\* a tool's timeout, an error of the online backup, an error of the disk.
Stop(p) ==
  /\ job[p].at # "idle"
  /\ Accident
  /\ job' = [job EXCEPT ![p] = NoJob]
  /\ UNCHANGED << engine, source, second, artifact, manifest >>

-----------------------------------------------------------------------------
(* Verification and manifest *)

\* _verify_sqlite_artifact: every page, and as many rows as were counted.
SqlitePasses(file, counted) == file.state = "whole" /\ Rows(file.moment) = Rows(counted)

\* pg_restore --list, and pg_restore --file; neither counts rows.
ListPasses(file) == file.state \in {"torn", "whole"}

ReadPasses(file) == file.state = "whole"

Verdict(p, passes, label, level) ==
  /\ IF passes
     THEN /\ job' = [job EXCEPT ![p].at = label, ![p].level = level]
          /\ UNCHANGED artifact
     ELSE Reject(p)
  /\ UNCHANGED << engine, source, second, manifest >>

CompareCopy(p) ==
  /\ job[p].at = "compare"
  /\ Verdict(p, SqlitePasses(File(p), job[p].counted), "hash", "sqlite-full-read")
  /\ UNCHANGED accidents

ListDump(p) ==
  /\ job[p].at = "list"
  /\ Verdict(p, ListPasses(File(p)), "read", "archive-toc")
  /\ UNCHANGED accidents

ReadDump(p) ==
  /\ job[p].at = "read"
  /\ Verdict(p, ReadPasses(File(p)), "hash", "archive-full-read")
  /\ UNCHANGED accidents

\* No scratch directory: the weaker level is recorded for what it is.
ReadSkipped(p) ==
  /\ job[p].at = "read"
  /\ Accident
  /\ Verdict(p, TRUE, "hash", "archive-toc")

\* stat and file_sha256, which raise when the file is gone
Hash(p) ==
  /\ job[p].at = "hash"
  /\ job' = IF File(p).state = "none" THEN [job EXCEPT ![p] = NoJob]
            ELSE [job EXCEPT ![p].at = "write", ![p].digest = File(p)]
  /\ UNCHANGED << engine, source, second, artifact, manifest, accidents >>

\* Mutation of Described: the rows the source has when the manifest is written.
DescribedNow(p) ==
  [state |-> "written", counted |-> source, digest |-> job[p].digest, level |-> job[p].level]

\* What the manifest says: the counts are those of the plan.
Described(p) ==
  [state |-> "written", counted |-> job[p].counted,
   digest |-> job[p].digest, level |-> job[p].level]

WriteManifest(p) ==
  /\ job[p].at = "write"
  /\ \/ /\ manifest' = [manifest EXCEPT ![job[p].stamp] = Described(p)]
        /\ UNCHANGED accidents
     \/ /\ manifest' = [manifest EXCEPT ![job[p].stamp] = [NoManifest EXCEPT !.state = "torn"]]
        /\ Accident
  /\ job' = [job EXCEPT ![p] = NoJob]
  /\ UNCHANGED << engine, source, second, artifact >>

\* verify_artifact: the artifact is the one described, and passes again.
Passes(n) ==
  /\ manifest[n].state = "written"
  /\ artifact[n] = manifest[n].digest
  /\ IF engine = "sqlite" THEN SqlitePasses(artifact[n], manifest[n].counted)
                          ELSE ListPasses(artifact[n]) /\ ReadPasses(artifact[n])

Next ==
  \/ RowAdded \/ RowRemoved \/ Tick
  \/ \E n \in Stamps : Damage(n)
  \/ \E p \in Backups :
       \/ Plan(p) \/ OpenDump(p) \/ WriteDump(p) \/ SealDump(p) \/ OpenCopy(p) \/ Copy(p)
       \/ DumpFails(p) \/ Stop(p) \/ CompareCopy(p) \/ ListDump(p) \/ ReadDump(p)
       \/ ReadSkipped(p) \/ Hash(p) \/ WriteManifest(p)

Spec == Init /\ [][Next]_vars

-----------------------------------------------------------------------------
(* What must hold *)

\* Whoever wrote, died or failed meanwhile, a manifest speaks of bytes that were
\* whole if it says that they were read in full, and that nothing but damage has
\* changed since ("unverified means failed", "nothing is overwritten", backup.py).
\* On SQLite the bytes hold as many rows as it counts.  On PostgreSQL nothing
\* compares the two, and they may differ either way; but only by what was added
\* and removed after the plan ("exactly the rows written after created_at",
\* storage-backup-restore.md): the bytes are never older than the counts.  And what
\* passes a later verification is a backup of that source since the counts.
ManifestSpeaksTrue ==
  \A n \in Stamps :
    LET told == manifest[n] IN
    /\ told.state = "written" =>
         /\ told.level # "archive-toc" => told.digest.state = "whole"
         /\ engine = "sqlite" => Rows(told.counted) = Rows(told.digest.moment)
         /\ Before(told.counted, told.digest.moment)
         /\ artifact[n] \in { told.digest, [told.digest EXCEPT !.state = "torn"] }
    /\ Passes(n) => Before(told.counted, artifact[n].moment) /\ Before(artifact[n].moment, source)

=============================================================================
