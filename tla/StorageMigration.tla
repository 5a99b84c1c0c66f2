-------------------------- MODULE StorageMigration --------------------------
(***************************************************************************)
(* "storage migrate --execute" and "storage verify": the SQLite databases  *)
(* and manifests of one source set are copied to immutable snapshots,      *)
(* imported into the shared database one transaction per source, and       *)
(* verified.  Several operators may run the commands at once, a process    *)
(* may die at any step, and a connection may break before, or just after,  *)
(* a transaction commits.                                                  *)
(*                                                                         *)
(* The import is about one cohort; a source's rows are one unit, except    *)
(* those that several sources share: the cohort, the sleeves, and the runs *)
(* of its sessions with their members.                                     *)
(***************************************************************************)
EXTENDS Naturals, FiniteSets

CONSTANTS
  Operators,   \* processes
  Sources,     \* the eligible sources of the inventory
  Kind,        \* source -> SourceInventory.kind
  Rank,        \* source -> its place in the order of the relative paths
  Names,       \* sleeves
  Owner,       \* paper or evaluation source -> the sleeve it belongs to
  Registered,  \* the sleeves of the registry
  Sessions,    \* sessions of the cohort
  Expected,    \* session -> members of its run in runs.sqlite3; {}: no run there
  Observed,    \* evaluation source -> sessions it has official observations of
  Faulty,      \* sources at which a fault may strike
  MaxFaults,   \* bound
  NoSource

Priority == [cohort_manifest |-> 0, registry |-> 1, paper |-> 2, runs |-> 3,
             evaluation |-> 4, research |-> 5, promotion |-> 6, usage |-> 7, prices |-> 8]

ASSUME SourceAssumption ==
  /\ NoSource \notin Sources
  /\ Kind \in [Sources -> DOMAIN Priority]
  /\ Rank \in [Sources -> Nat]
  /\ \A s, t \in Sources : Rank[s] = Rank[t] => s = t
  /\ DOMAIN Owner = { s \in Sources : Kind[s] \in {"paper", "evaluation"} }
  /\ \A s \in DOMAIN Owner : Owner[s] \in Names
  /\ Registered \subseteq Names
  /\ Registered # {} => \E s \in Sources : Kind[s] = "registry"
  /\ Expected \in [Sessions -> SUBSET Names]
  /\ Observed \in [{ s \in Sources : Kind[s] = "evaluation" } -> SUBSET Sessions]
  /\ Faulty \subseteq Sources
  /\ MaxFaults \in Nat

VARIABLES
  copy,      \* snapshot of each source under the backup directory
  snapshot,  \* snapshot.json has been written
  mig,       \* migration_runs: [status, verified]
  src,       \* migration_sources.status
  results,   \* sources with migration_table_results
  rows,      \* copies of a source's own rows at the destination
  cohort,    \* the cohort row: absent, _ensure_cohort's placeholder, manifest
  sleeve,    \* the sleeve rows: absent, from the registry, or legacy
  run,       \* cohort_runs row of each session and its members
  desk,      \* per process: [at, left, s, closing, verdict]
  faults

vars == << copy, snapshot, mig, src, results, rows, cohort, sleeve, run, desk, faults >>

database == << mig, src, results, rows, cohort, sleeve, run >>
imported == << results, rows, cohort, sleeve, run >>

Labels == {"idle", "copy", "initialize", "insert", "loop", "import", "failed", "verify", "stamp",
           "close"}
Idle   == [at |-> "idle", left |-> {}, s |-> NoSource, closing |-> FALSE, verdict |-> "none"]

TypeOK ==
  /\ copy \in [Sources -> {"none", "torn", "whole"}]
  /\ snapshot \in BOOLEAN
  /\ mig \in [status   : {"none", "running", "failed", "verification-failed", "completed"},
              verified : {"none", "passed", "failed"}]
  /\ src \in [Sources -> {"none", "pending", "failed", "completed"}]
  /\ results \in SUBSET Sources
  /\ rows \in [Sources -> {0, 1}]
  /\ cohort \in {"none", "placeholder", "manifest"}
  /\ sleeve \in [Names -> {"none", "registry", "legacy"}]
  /\ run \in [Sessions -> [key : {"none", "durable", "legacy"},
                           expected : SUBSET Names, members : SUBSET Names]]
  /\ desk \in [Operators -> [at : Labels, left : SUBSET Sources, s : Sources \union {NoSource},
                             closing : BOOLEAN, verdict : {"none", "passed", "failed"}]]
  /\ faults \in 0..MaxFaults

Init ==
  /\ copy = [s \in Sources |-> "none"]
  /\ snapshot = FALSE
  /\ mig = [status |-> "none", verified |-> "none"]
  /\ src = [s \in Sources |-> "none"]
  /\ results = {}
  /\ rows = [s \in Sources |-> 0]
  /\ cohort = "none"
  /\ sleeve = [n \in Names |-> "none"]
  /\ run = [d \in Sessions |-> [key |-> "none", expected |-> {}, members |-> {}]]
  /\ desk = [p \in Operators |-> Idle]
  /\ faults = 0

At(p, label)   == desk[p].at = label
Goto(p, label) == desk' = [desk EXCEPT ![p].at = label]
Leave(p)       == desk' = [desk EXCEPT ![p] = Idle]

\* Mutation of Before: the sources in the order of their paths alone.
BeforeByPath(s, t) == Rank[s] <= Rank[t]

\* sorted(sources, key = (_priority(kind), relative_path))
Before(s, t) ==
  \/ Priority[Kind[s]] < Priority[Kind[t]]
  \/ Priority[Kind[s]] = Priority[Kind[t]] /\ Rank[s] <= Rank[t]

First(S) == CHOOSE s \in S : \A t \in S : Before(s, t)

\* SELECT ... FOR UPDATE on the row of a source that is being imported.
Locked(s) == \E p \in Operators : At(p, "import") /\ desk[p].s = s

-----------------------------------------------------------------------------
(* The snapshot and the registration of the attempt.                       *)

\* preflight_migration: rows under a source's path need a migration row.
Preflight == mig.status # "none" \/ \A s \in Sources : rows[s] = 0

StartMigrate(p) ==
  /\ At(p, "idle")
  /\ Preflight
  /\ desk' = [desk EXCEPT ![p].at = "copy", ![p].left = Sources]
  /\ UNCHANGED << copy, snapshot, database, faults >>

\* create_snapshot_set, one source: an existing copy is verified, not redone.
CopySource(p) ==
  /\ At(p, "copy") /\ desk[p].left # {}
  /\ LET s == First(desk[p].left) IN
     IF copy[s] = "torn"
     THEN Leave(p) /\ UNCHANGED copy
     ELSE /\ desk' = [desk EXCEPT ![p].left = @ \ {s}]
          /\ copy' = [copy EXCEPT ![s] = "whole"]
  /\ UNCHANGED << snapshot, database, faults >>

WriteSnapshot(p) ==
  /\ At(p, "copy") /\ desk[p].left = {}
  /\ snapshot' = TRUE
  /\ Goto(p, "initialize")
  /\ UNCHANGED << copy, database, faults >>

\* _initialize_migration looks for the rows of an earlier attempt; a completed
\* migration returns early.
Initialize(p) ==
  /\ At(p, "initialize")
  /\ desk' = [desk EXCEPT ![p] = IF mig.status = "completed" THEN Idle
                                 ELSE IF mig.status = "none" THEN [@ EXCEPT !.at = "insert"]
                                 ELSE [@ EXCEPT !.at = "loop", !.left = Sources]]
  /\ UNCHANGED << copy, snapshot, database, faults >>

\* The rows of a first attempt, in one transaction; to insert rows that have appeared
\* meanwhile raises.
Register(p) ==
  /\ At(p, "insert")
  /\ IF mig.status = "none"
     THEN /\ mig' = [mig EXCEPT !.status = "running"]
          /\ src' = [s \in Sources |-> "pending"]
          /\ desk' = [desk EXCEPT ![p].at = "loop", ![p].left = Sources]
     ELSE Leave(p) /\ UNCHANGED << mig, src >>
  /\ UNCHANGED << copy, snapshot, imported, faults >>

-----------------------------------------------------------------------------
(* The transactions that import one source.                                *)

AddRows(s) == rows' = [rows EXCEPT ![s] = 1]

\* The row-by-row import: an identical row is left as it is.
KeepRows(s) == AddRows(s)

\* _import_manifest
ImportManifest(s) ==
  /\ KeepRows(s)
  /\ cohort' = "manifest"
  /\ UNCHANGED << sleeve, run >>

\* _ensure_cohort
WithCohort == IF cohort = "none" THEN "placeholder" ELSE cohort

\* _import_registry
ImportRegistry(s) ==
  /\ KeepRows(s)
  /\ cohort' = WithCohort
  /\ sleeve' = [n \in Names |-> IF n \in Registered THEN "registry" ELSE sleeve[n]]
  /\ UNCHANGED run

\* _source_sleeve: the registry's sleeve of that directory, or a legacy one.
WithSleeve(n) == [sleeve EXCEPT ![n] = IF @ = "none" THEN "legacy" ELSE @]

\* _import_paper
ImportPaper(s) ==
  /\ KeepRows(s)
  /\ sleeve' = WithSleeve(Owner[s])
  /\ UNCHANGED << cohort, run >>

\* _import_runs
ImportRuns(s) ==
  /\ KeepRows(s)
  /\ cohort' = WithCohort
  /\ run' = [d \in Sessions |->
               IF Expected[d] = {} THEN run[d]
               ELSE [key |-> "durable", expected |-> Expected[d], members |-> Expected[d]]]
  /\ UNCHANGED sleeve

\* Mutation of ObservationRun: a later observation only adds its member row.
ObservationRunKept(d, n) ==
  IF run[d].key = "none" THEN [key |-> "legacy", expected |-> {n}, members |-> {n}]
  ELSE [run[d] EXCEPT !.members = @ \union {n}]

\* _ensure_observation_run: an observation without a durable run makes one,
\* and later observations of the same run join it.
ObservationRun(d, n) ==
  CASE run[d].key = "none"    -> [key |-> "legacy", expected |-> {n}, members |-> {n}]
    [] run[d].key = "legacy"  -> [run[d] EXCEPT !.expected = @ \union {n}, !.members = @ \union {n}]
    [] run[d].key = "durable" -> [run[d] EXCEPT !.members = @ \union {n}]

\* _import_evaluation
ImportEvaluation(s) ==
  /\ KeepRows(s)
  /\ sleeve' = WithSleeve(Owner[s])
  /\ cohort' = IF Observed[s] # {} THEN WithCohort ELSE cohort
  /\ run' = [d \in Sessions |-> IF d \in Observed[s] THEN ObservationRun(d, Owner[s]) ELSE run[d]]

\* _import_json_history and _import_dataset: plain inserts under a unique key.
ImportPlain(s) ==
  /\ AddRows(s)
  /\ UNCHANGED << cohort, sleeve, run >>

\* _import_source and the results of its tables
Import(s) ==
  /\ results' = results \union {s}
  /\ CASE Kind[s] = "cohort_manifest" -> ImportManifest(s)
       [] Kind[s] = "registry"        -> ImportRegistry(s)
       [] Kind[s] = "paper"           -> ImportPaper(s)
       [] Kind[s] = "runs"            -> ImportRuns(s)
       [] Kind[s] = "evaluation"      -> ImportEvaluation(s)
       [] OTHER                       -> ImportPlain(s)

\* The import raises and is rolled back: the registry meets a sleeve another
\* source has made up, a member of a run resolves to no sleeve, a run or an
\* observation meets a run it does not belong to, a plain row is there already.
Conflicts(s) ==
  CASE Kind[s] = "registry"   -> \E n \in Registered : sleeve[n] = "legacy"
    [] Kind[s] = "runs"       -> \E d \in Sessions : /\ Expected[d] # {}
                                                     /\ \/ run[d].key = "legacy"
                                                        \/ \E n \in Expected[d] : sleeve[n] = "none"
    [] Kind[s] = "evaluation" -> \E d \in Observed[s] : /\ run[d].key = "durable"
                                                        /\ Owner[s] \notin run[d].expected
    [] Kind[s] \in {"cohort_manifest", "paper"} -> FALSE
    [] OTHER                  -> rows[s] = 1

-----------------------------------------------------------------------------
(* The loop over the sources.                                              *)

\* Mutation of Settled: the row is set to completed when it is taken.
TakenAsCompleted(s) == [src EXCEPT ![s] = "completed"]

\* The status the row keeps until the import commits.
Taken(s) == src

\* The row lock, and the skip of a source that is done.
TakeSource(p) ==
  /\ At(p, "loop") /\ desk[p].left # {}
  /\ LET s == First(desk[p].left) IN
     /\ ~Locked(s)
     /\ IF src[s] = "completed"
        THEN desk' = [desk EXCEPT ![p].left = @ \ {s}] /\ UNCHANGED src
        ELSE desk' = [desk EXCEPT ![p].at = "import", ![p].s = s] /\ src' = Taken(s)
  /\ UNCHANGED << copy, snapshot, mig, imported, faults >>

\* The rows, the results and the status in one transaction.
CommitSource(p) ==
  /\ At(p, "import") /\ ~Conflicts(desk[p].s)
  /\ Import(desk[p].s)
  /\ src' = [src EXCEPT ![desk[p].s] = "completed"]
  /\ desk' = [desk EXCEPT ![p].at = "loop", ![p].left = @ \ {desk[p].s}, ![p].s = NoSource]
  /\ UNCHANGED << copy, snapshot, mig, faults >>

RejectSource(p) ==
  /\ At(p, "import") /\ Conflicts(desk[p].s)
  /\ Goto(p, "failed")
  /\ UNCHANGED << copy, snapshot, database, faults >>

\* The handler: it writes over whatever status the source has by then.
MarkFailed(p) ==
  /\ At(p, "failed") /\ ~Locked(desk[p].s)
  /\ src' = [src EXCEPT ![desk[p].s] = "failed"]
  /\ mig' = [mig EXCEPT !.status = "failed"]
  /\ Leave(p)
  /\ UNCHANGED << copy, snapshot, imported, faults >>

EndLoop(p) ==
  /\ At(p, "loop") /\ desk[p].left = {}
  /\ desk' = [desk EXCEPT ![p].at = "verify", ![p].closing = TRUE]
  /\ UNCHANGED << copy, snapshot, database, faults >>

-----------------------------------------------------------------------------
(* Verification, on its own or at the end of a migration.                  *)

StartVerify(p) ==
  /\ At(p, "idle")
  /\ mig.status # "none" /\ snapshot
  /\ Goto(p, "verify")
  /\ UNCHANGED << copy, snapshot, database, faults >>

\* Mutation of Verified: only the recorded results are compared.
VerifiedResults ==
  /\ \A s \in results : rows[s] = 1
  /\ \A d \in Sessions : run[d].members = run[d].expected

\* verify_migration's failures: none.
Verified ==
  /\ \A s \in Sources : src[s] = "completed" /\ s \in results
  /\ \A s \in results : rows[s] = 1
  /\ \A d \in Sessions : run[d].members = run[d].expected

Verify(p) ==
  /\ At(p, "verify")
  /\ desk' = [desk EXCEPT ![p].at = "stamp", ![p].verdict = IF Verified THEN "passed" ELSE "failed"]
  /\ UNCHANGED << copy, snapshot, database, faults >>

Stamp(p) ==
  /\ At(p, "stamp")
  /\ mig' = [mig EXCEPT !.verified = desk[p].verdict]
  /\ IF desk[p].closing THEN Goto(p, "close") ELSE Leave(p)
  /\ UNCHANGED << copy, snapshot, src, imported, faults >>

Close(p) ==
  /\ At(p, "close")
  /\ mig' = [verified |-> desk[p].verdict,
             status   |-> IF desk[p].verdict = "passed" THEN "completed" ELSE "verification-failed"]
  /\ Leave(p)
  /\ UNCHANGED << copy, snapshot, src, imported, faults >>

-----------------------------------------------------------------------------
(* Faults.                                                                 *)

Strikes(s) == s \in Faulty /\ faults < MaxFaults /\ faults' = faults + 1

\* The process dies.  A manifest is copied in place, a database is not.
Crash(p) ==
  /\ ~At(p, "idle")
  /\ LET copying == At(p, "copy") /\ desk[p].left # {}
         s == IF copying THEN First(desk[p].left) ELSE desk[p].s
         torn == copying /\ Kind[s] = "cohort_manifest" /\ copy[s] = "none"
     IN /\ IF s = NoSource THEN faults < MaxFaults /\ faults' = faults + 1 ELSE Strikes(s)
        /\ copy' = IF torn THEN [copy EXCEPT ![s] = "torn"] ELSE copy
  /\ Leave(p)
  /\ UNCHANGED << snapshot, database >>

\* The connection breaks while waiting for the row or while importing.
Fail(p) ==
  /\ \/ At(p, "loop") /\ desk[p].left # {}
     \/ At(p, "import")
  /\ LET s == IF At(p, "import") THEN desk[p].s ELSE First(desk[p].left) IN
     /\ Strikes(s)
     /\ desk' = [desk EXCEPT ![p].at = "failed", ![p].s = s]
  /\ UNCHANGED << copy, snapshot, database >>

\* The import is committed and the answer to the commit is lost.
LoseAnswer(p) ==
  /\ At(p, "import") /\ ~Conflicts(desk[p].s)
  /\ Strikes(desk[p].s)
  /\ Import(desk[p].s)
  /\ src' = [src EXCEPT ![desk[p].s] = "completed"]
  /\ Goto(p, "failed")
  /\ UNCHANGED << copy, snapshot, mig >>

Migrate(p) ==
  \/ StartMigrate(p) \/ CopySource(p) \/ WriteSnapshot(p) \/ Initialize(p) \/ Register(p)
  \/ TakeSource(p) \/ CommitSource(p) \/ RejectSource(p) \/ MarkFailed(p) \/ EndLoop(p)
  \/ Verify(p) \/ Stamp(p) \/ Close(p)

Next == \E p \in Operators :
  \/ Migrate(p) \/ StartVerify(p)
  \/ Crash(p) \/ Fail(p) \/ LoseAnswer(p)

\* A running command goes on, and operators do not verify for ever instead of
\* rerunning the migration.
Fairness == \A p \in Operators : WF_vars(Migrate(p)) /\ SF_vars(StartMigrate(p))

Spec == Init /\ [][Next]_vars /\ Fairness

-----------------------------------------------------------------------------
(* Properties.                                                             *)

\* A source that says completed has its rows and its results: neither a
\* crash nor a connection that breaks leaves a source that the next attempt
\* would skip without having been imported.
ImportedWhole ==
  \A s \in Sources : src[s] = "completed" => rows[s] = 1 /\ s \in results

\* A migration whose verification passed holds every source, even when
\* "storage verify" runs beside an import, and every session's run has
\* exactly the members it expects.
PassedMeansWhole ==
  mig.verified = "passed" =>
    /\ \A s \in Sources : rows[s] = 1
    /\ \A s \in DOMAIN Observed : \A d \in Observed[s] : Owner[s] \in run[d].members
    /\ \A d \in Sessions : run[d].members = run[d].expected

\* Registering order: a sleeve the registry describes is never one that a
\* paper or evaluation source has made up.
RegistryComesFirst ==
  \A n \in Registered : sleeve[n] # "legacy"

\* A plain source that is imported and yet said to have failed: its answer was
\* lost, or a second operator gave up waiting while it was imported.
Disowned == \E s \in Sources :
  Priority[Kind[s]] >= Priority["research"] /\ rows[s] = 1 /\ src[s] # "completed"

\* A manifest of which a process that died has copied a part: it is verified
\* as it stands, never copied again.
Torn == \E s \in Sources : copy[s] = "torn"

\* The operation is resumable (postgresql-runbook.md:175): whatever interrupts
\* it, operators who rerun the command complete it, and it stays completed.
\* The exceptions: a plain source that is imported and marked failed, and a
\* manifest half copied, are rejected by every rerun.
Resumes == <>[](mig.status = "completed") \/ <>[]Disowned \/ <>[]Torn

=============================================================================
