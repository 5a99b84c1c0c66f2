---------------------- MODULE StorageMigration_proofs -----------------------
(***************************************************************************)
(* For any sources, sleeves, sessions, operators and number of faults: a   *)
(* source that says completed is imported, a passed verification is whole, *)
(* and no other source makes up a sleeve of the registry.                  *)
(***************************************************************************)
EXTENDS StorageMigration, WellFoundedInduction, TLAPS

\* A source has results once its rows are there.
ResultsHaveRows == \A s \in results : rows[s] = 1

\* A run, durable or made up for an observation, expects the members it has.
RunsAgree ==
  \A d \in Sessions :
    /\ run[d].members = run[d].expected
    /\ run[d].key = "none" => run[d].members = {}
    /\ run[d].key = "durable" => run[d].expected = Expected[d]

\* An imported observation has its member row.
ObservationsHaveMembers ==
  \A s \in DOMAIN Observed : rows[s] = 1 => \A d \in Observed[s] : Owner[s] \in run[d].members

\* Once the registry is imported its sleeves are there, and are the registry's.
RegistryHolds ==
  /\ \A s \in results : Kind[s] = "registry" => \A n \in Registered : sleeve[n] # "none"
  /\ RegistryComesFirst

\* What the import of a source keeps.
Data == ResultsHaveRows /\ RunsAgree /\ ObservationsHaveMembers /\ RegistryHolds

\* Verdicts on their way to the migration row
Passed ==
  \/ mig.verified = "passed"
  \/ \E p \in Operators : desk[p].verdict = "passed"

PassedIsWhole == Passed => \A s \in Sources : rows[s] = 1

\* The loop leaves a source behind only once it is imported.
Working ==
  \A p \in Operators :
    /\ desk[p].at \in {"loop", "import"} => \A s \in Sources \ desk[p].left : s \in results
    /\ desk[p].at = "import" => desk[p].left # {} /\ desk[p].s = First(desk[p].left)
    /\ desk[p].at = "failed" => desk[p].s \in Sources

IInv == TypeOK /\ ImportedWhole /\ Data /\ PassedIsWhole /\ Working

-----------------------------------------------------------------------------
(* The order of the sources                                                *)

\* Every nonempty set of naturals has a least element.
LEMMA LeastNatural ==
  ASSUME NEW S \in SUBSET Nat, S # {}
  PROVE  \E n \in S : \A e \in S : n <= e
<1> DEFINE R == OpToRel(<, Nat)
<1>1. \A e, d \in Nat : e < d => << e, d >> \in R
  BY DEF OpToRel
<1>2. IsWellFoundedOn(R, Nat)
  BY NatLessThanWellFounded
<1> HIDE DEF R
<1>3. PICK d \in S : \A e \in S : ~ (<< e, d >> \in R)
  BY <1>2, WFMin
<1>4. S \subseteq Nat
  OBVIOUS
<1>5. \A e \in S : ~ (e < d)
  BY <1>1, <1>3, <1>4, Zenon
<1> QED BY <1>4, <1>5

LEMMA PriorityIsNat == \A s \in Sources : Priority[Kind[s]] \in Nat /\ Rank[s] \in Nat
<1>1. \A k \in DOMAIN Priority : Priority[k] \in Nat
  BY DEF Priority
<1> QED BY <1>1, SourceAssumption

\* Of sources that are left, one comes before the others, and First names it.
LEMMA FirstIsFirst ==
  ASSUME NEW S \in SUBSET Sources, S # {}
  PROVE  First(S) \in S /\ \A t \in S : Before(First(S), t)
<1> DEFINE kinds == { Priority[Kind[s]] : s \in S }
<1>1. PICK k \in kinds : \A e \in kinds : k <= e
  <2>1. kinds \in SUBSET Nat /\ kinds # {}
    BY PriorityIsNat
  <2> HIDE DEF kinds
  <2> QED BY <2>1, LeastNatural
<1> DEFINE ranks == { Rank[s] : s \in { t \in S : Priority[Kind[t]] = k } }
<1>2. PICK r \in ranks : \A e \in ranks : r <= e
  <2>1. ranks \in SUBSET Nat /\ ranks # {}
    BY <1>1, PriorityIsNat
  <2> HIDE DEF ranks
  <2> QED BY <2>1, LeastNatural
<1>3. PICK s \in S : Priority[Kind[s]] = k /\ Rank[s] = r
  BY <1>2
<1>4. \A t \in S : Before(s, t)
  <2> TAKE t \in S
  <2> DEFINE m == Priority[Kind[t]]
  <2>0. m \in Nat /\ k \in Nat
    BY PriorityIsNat, <1>3
  <2>1. CASE m = k
    BY <1>2, <1>3, <2>1 DEF Before
  <2>2. CASE m # k
    <3>1. k <= m
      <4>1. m \in kinds
        OBVIOUS
      <4> HIDE DEF m, kinds
      <4> QED BY <1>1, <4>1
    <3>2. k < m
      <4> HIDE DEF m, kinds
      <4> QED BY <2>0, <2>2, <3>1
    <3> QED BY <1>3, <3>2 DEF Before
  <2> QED BY <2>1, <2>2
<1> QED BY <1>4 DEF First

\* When a paper or evaluation source is taken, the registry is done.
LEMMA RegistryIsDone ==
  ASSUME IInv, NEW p \in Operators, desk[p].at = "import",
         Kind[desk[p].s] \in {"paper", "evaluation"},
         NEW t \in Sources, Kind[t] = "registry"
  PROVE  t \in results
<1>1. desk[p].left \in SUBSET Sources /\ desk[p].left # {} /\ desk[p].s = First(desk[p].left)
  BY DEF IInv, TypeOK, Working
<1>2. \A u \in desk[p].left : Before(desk[p].s, u)
  BY <1>1, FirstIsFirst
<1>3. ~Before(desk[p].s, t)
  BY DEF Before, Priority
<1> QED BY <1>2, <1>3 DEF IInv, Working

-----------------------------------------------------------------------------
(* What the import of a source keeps                                       *)

LEMMA InitInv == Init => IInv
<1> SUFFICES ASSUME Init PROVE IInv
  OBVIOUS
<1> USE DEF Init
<1>1. TypeOK
  <2>1. faults \in 0..MaxFaults
    BY SourceAssumption
  <2>2. run \in [Sessions -> [key : {"none", "durable", "legacy"},
                             expected : SUBSET Names, members : SUBSET Names]]
    OBVIOUS
  <2> QED BY <2>1, <2>2 DEF TypeOK, Idle, Labels
<1>2. ImportedWhole /\ ResultsHaveRows /\ RegistryHolds
  BY SourceAssumption DEF ImportedWhole, ResultsHaveRows, RegistryHolds, RegistryComesFirst
<1>4. RunsAgree
  BY DEF RunsAgree
<1>5. ObservationsHaveMembers
  BY SourceAssumption DEF ObservationsHaveMembers
<1>3. PassedIsWhole /\ Working
  BY DEF PassedIsWhole, Passed, Working, Idle
<1> QED BY <1>1, <1>2, <1>3, <1>4, <1>5 DEF IInv, Data

\* Every import adds the rows and results of its source and no others.
LEMMA ImportAdds ==
  ASSUME NEW s \in Sources, Import(s)
  PROVE  rows' = [rows EXCEPT ![s] = 1] /\ results' = results \union {s}
BY DEF Import, ImportManifest, ImportRegistry, ImportPaper, ImportRuns, ImportEvaluation,
       ImportPlain, KeepRows, AddRows

\* What becomes of the sleeves
LEMMA ImportSleeves ==
  ASSUME NEW s \in Sources, Import(s)
  PROVE  \/ Kind[s] \notin {"registry", "paper", "evaluation"} /\ UNCHANGED sleeve
         \/ /\ Kind[s] = "registry"
            /\ sleeve' = [n \in Names |-> IF n \in Registered THEN "registry" ELSE sleeve[n]]
         \/ Kind[s] \in {"paper", "evaluation"} /\ sleeve' = WithSleeve(Owner[s])
BY DEF Import, ImportManifest, ImportRegistry, ImportPaper, ImportRuns, ImportEvaluation, ImportPlain

\* What becomes of the runs
LEMMA ImportSessions ==
  ASSUME NEW s \in Sources, Import(s)
  PROVE  \/ Kind[s] \notin {"runs", "evaluation"} /\ UNCHANGED run
         \/ /\ Kind[s] = "runs"
            /\ run' = [d \in Sessions |->
                         IF Expected[d] = {} THEN run[d]
                         ELSE [key |-> "durable", expected |-> Expected[d], members |-> Expected[d]]]
         \/ /\ Kind[s] = "evaluation"
            /\ run' = [d \in Sessions |-> IF d \in Observed[s] THEN ObservationRun(d, Owner[s]) ELSE run[d]]
BY DEF Import, ImportManifest, ImportRegistry, ImportPaper, ImportRuns, ImportEvaluation, ImportPlain

LEMMA ImportTyped ==
  ASSUME TypeOK, NEW s \in Sources, Import(s)
  PROVE  /\ results' \in SUBSET Sources
         /\ rows' \in [Sources -> {0, 1}]
         /\ cohort' \in {"none", "placeholder", "manifest"}
         /\ sleeve' \in [Names -> {"none", "registry", "legacy"}]
         /\ run' \in [Sessions -> [key : {"none", "durable", "legacy"},
                                  expected : SUBSET Names, members : SUBSET Names]]
<1>1. results' \in SUBSET Sources /\ rows' \in [Sources -> {0, 1}]
  BY ImportAdds DEF TypeOK
<1>2. cohort' \in {"none", "placeholder", "manifest"}
  BY DEF TypeOK, WithCohort, Import, ImportManifest, ImportRegistry, ImportPaper, ImportRuns,
         ImportEvaluation, ImportPlain
<1>3. sleeve' \in [Names -> {"none", "registry", "legacy"}]
  BY ImportSleeves DEF TypeOK, WithSleeve
<1>4. run' \in [Sessions -> [key : {"none", "durable", "legacy"},
                           expected : SUBSET Names, members : SUBSET Names]]
  <2>1. CASE Kind[s] # "evaluation"
    BY <2>1, ImportSessions, SourceAssumption DEF TypeOK
  <2>2. CASE Kind[s] = "evaluation"
    <3>1. Owner[s] \in Names
      BY <2>2, SourceAssumption
    <3>2. \A d \in Sessions : ObservationRun(d, Owner[s]) \in
            [key : {"none", "durable", "legacy"}, expected : SUBSET Names, members : SUBSET Names]
      <4>1. run \in [Sessions -> [key : {"none", "durable", "legacy"},
                                  expected : SUBSET Names, members : SUBSET Names]]
        BY DEF TypeOK
      <4> QED BY ONLY <3>1, <4>1 DEF ObservationRun
    <3> QED BY <2>2, <3>2, ImportSessions DEF TypeOK
  <2> QED BY <2>1, <2>2
<1> QED BY <1>1, <1>2, <1>3, <1>4

\* A run that does not conflict keeps the members it has and stays in agreement.
LEMMA ImportKeepsRuns ==
  ASSUME TypeOK, RunsAgree, NEW s \in Sources, Import(s), ~Conflicts(s)
  PROVE  /\ RunsAgree'
         /\ \A d \in Sessions : run[d].members \subseteq run'[d].members
         /\ Kind[s] = "evaluation" => \A d \in Observed[s] : Owner[s] \in run'[d].members
<1>1. CASE Kind[s] \notin {"runs", "evaluation"}
  BY <1>1, ImportSessions DEF RunsAgree
<1>2. CASE Kind[s] = "runs"
  <2>1. \A d \in Sessions : Expected[d] # {} => run[d].key # "legacy"
    BY <1>2 DEF Conflicts
  <2>2. \A d \in Sessions : Expected[d] # {} => run[d].members \subseteq Expected[d]
    BY <2>1 DEF RunsAgree, TypeOK
  <2>3. \A d \in Sessions :
          run'[d] = IF Expected[d] = {} THEN run[d]
                    ELSE [key |-> "durable", expected |-> Expected[d], members |-> Expected[d]]
    BY <1>2, ImportSessions
  <2>4. \A d \in Sessions :
          /\ run'[d].members = run'[d].expected
          /\ run'[d].key = "none" => run'[d].members = {}
          /\ run'[d].key = "durable" => run'[d].expected = Expected[d]
          /\ run[d].members \subseteq run'[d].members
    <3> TAKE d \in Sessions
    <3>1. CASE Expected[d] = {}
      BY <2>3, <3>1 DEF RunsAgree
    <3>2. CASE Expected[d] # {}
      <4>1. run'[d] = [key |-> "durable", expected |-> Expected[d], members |-> Expected[d]]
        BY <2>3, <3>2
      <4>2. /\ run'[d].key = "durable"
            /\ run'[d].expected = Expected[d]
            /\ run'[d].members = Expected[d]
        BY <4>1
      <4> QED BY <2>2, <3>2, <4>2
    <3> QED BY <3>1, <3>2
  <2> QED BY <1>2, <2>4 DEF RunsAgree
<1>3. CASE Kind[s] = "evaluation"
  <2>1. \A d \in Observed[s] : run[d].key = "durable" => Owner[s] \in run[d].expected
    BY <1>3 DEF Conflicts
  <2>2. Observed[s] \subseteq Sessions
    BY <1>3, SourceAssumption
  <2>3. \A d \in Observed[s] :
          /\ run[d].members \subseteq ObservationRun(d, Owner[s]).members
          /\ Owner[s] \in ObservationRun(d, Owner[s]).members
          /\ ObservationRun(d, Owner[s]).members = ObservationRun(d, Owner[s]).expected
          /\ ObservationRun(d, Owner[s]).key # "none"
          /\ ObservationRun(d, Owner[s]).key = "durable" =>
               ObservationRun(d, Owner[s]).expected = Expected[d]
    <3> TAKE d \in Observed[s]
    <3>1. /\ run[d] \in [key : {"none", "durable", "legacy"},
                        expected : SUBSET Names, members : SUBSET Names]
          /\ run[d].members = run[d].expected
          /\ run[d].key = "none" => run[d].members = {}
          /\ run[d].key = "durable" => run[d].expected = Expected[d]
      BY <2>2 DEF RunsAgree, TypeOK
    <3>2. CASE run[d].key = "none"
      BY <3>1, <3>2 DEF ObservationRun
    <3>3. CASE run[d].key = "legacy"
      BY <3>1, <3>3 DEF ObservationRun
    <3>4. CASE run[d].key = "durable"
      BY <2>1, <3>1, <3>4 DEF ObservationRun
    <3> QED BY <3>1, <3>2, <3>3, <3>4
  <2>4. \A d \in Sessions : run'[d] = IF d \in Observed[s] THEN ObservationRun(d, Owner[s]) ELSE run[d]
    BY <1>3, ImportSessions
  <2> QED BY <2>2, <2>3, <2>4 DEF RunsAgree
<1> QED BY <1>1, <1>2, <1>3

LEMMA ImportKeepsData ==
  ASSUME TypeOK, Data, NEW s \in Sources, Import(s), ~Conflicts(s),
         Kind[s] \in {"paper", "evaluation"} =>
           \A t \in Sources : Kind[t] = "registry" => t \in results
  PROVE  Data'
<1>1. rows' = [rows EXCEPT ![s] = 1] /\ results' = results \union {s}
  BY ImportAdds
<1>2. ResultsHaveRows'
  BY <1>1 DEF TypeOK, Data, ResultsHaveRows
<1>3. RunsAgree'
  BY ImportKeepsRuns DEF Data
<1>4. ObservationsHaveMembers'
  <2> SUFFICES ASSUME NEW t \in DOMAIN Observed, rows'[t] = 1, NEW d \in Observed[t]
               PROVE  Owner[t] \in run'[d].members
    BY DEF ObservationsHaveMembers
  <2>1. t \in Sources /\ Kind[t] = "evaluation" /\ d \in Sessions
    BY SourceAssumption
  <2>2. CASE t = s
    BY <2>1, <2>2, ImportKeepsRuns DEF Data
  <2>3. CASE t # s
    <3>1. rows[t] = 1
      BY <1>1, <2>1, <2>3 DEF TypeOK
    <3> QED BY <2>1, <3>1, ImportKeepsRuns DEF Data, ObservationsHaveMembers
  <2> QED BY <2>2, <2>3
<1>5. RegistryHolds'
  <2>1. CASE Kind[s] \notin {"registry", "paper", "evaluation"}
    BY <1>1, <2>1, ImportSleeves DEF Data, RegistryHolds, RegistryComesFirst
  <2>2. CASE Kind[s] = "registry"
    <3>1. \A n \in Registered : sleeve'[n] = "registry"
      BY <2>2, ImportSleeves, SourceAssumption
    <3> QED BY <3>1 DEF RegistryHolds, RegistryComesFirst
  <2>3. CASE Kind[s] \in {"paper", "evaluation"}
    <3>1. \A n \in Registered : sleeve[n] # "none" /\ sleeve[n] # "legacy"
      BY <2>3, SourceAssumption DEF Data, RegistryHolds, RegistryComesFirst
    <3>2. \A n \in Registered : sleeve'[n] = sleeve[n]
      BY <2>3, <3>1, ImportSleeves, SourceAssumption DEF TypeOK, WithSleeve
    <3> QED BY <3>1, <3>2 DEF RegistryHolds, RegistryComesFirst
  <2> QED BY <2>1, <2>2, <2>3
<1> QED BY <1>2, <1>3, <1>4, <1>5 DEF Data

-----------------------------------------------------------------------------
(* One lemma per action                                                    *)

DeskStates == [at : Labels, left : SUBSET Sources, s : Sources \union {NoSource},
               closing : BOOLEAN, verdict : {"none", "passed", "failed"}]

\* What the steps that import nothing have in common
LEMMA QuietInv ==
  ASSUME IInv, NEW p \in Operators, UNCHANGED imported,
         NEW d \in DeskStates, desk' = [desk EXCEPT ![p] = d],
         d.verdict = "passed" => Passed \/ \A s \in Sources : rows[s] = 1,
         mig'.verified = "passed" => Passed,
         \A s \in Sources : src'[s] = "completed" => src[s] = "completed",
         d.at \in {"loop", "import"} => \A s \in Sources \ d.left : s \in results,
         d.at = "import" => d.left # {} /\ d.s = First(d.left),
         d.at = "failed" => d.s \in Sources
  PROVE  /\ desk' \in [Operators -> DeskStates]
         /\ ImportedWhole' /\ Data' /\ PassedIsWhole' /\ Working'
<1> USE DEF imported
<1>1. desk \in [Operators -> DeskStates]
  BY DEF IInv, TypeOK, DeskStates
<1>2. desk' \in [Operators -> DeskStates]
  BY <1>1
<1>3. ImportedWhole'
  BY DEF IInv, ImportedWhole
<1>4. Data'
  BY DEF IInv, Data, ResultsHaveRows, RunsAgree, ObservationsHaveMembers, RegistryHolds, RegistryComesFirst
<1>5. PassedIsWhole'
  <2> SUFFICES ASSUME Passed', NEW s \in Sources PROVE rows[s] = 1
    BY DEF PassedIsWhole
  <2>1. Passed => rows[s] = 1
    BY DEF IInv, PassedIsWhole
  <2>2. CASE mig'.verified = "passed"
    BY <2>1, <2>2
  <2>3. CASE \E q \in Operators : desk'[q].verdict = "passed"
    <3>1. PICK q \in Operators : desk'[q].verdict = "passed"
      BY <2>3
    <3>2. CASE q = p
      BY <1>1, <2>1, <3>1, <3>2
    <3>3. CASE q # p
      BY <1>1, <2>1, <3>1, <3>3 DEF Passed
    <3> QED BY <3>2, <3>3
  <2> QED BY <2>2, <2>3 DEF Passed
<1>6. Working'
  <2> SUFFICES ASSUME NEW q \in Operators
               PROVE  /\ desk'[q].at \in {"loop", "import"} =>
                           \A s \in Sources \ desk'[q].left : s \in results
                      /\ desk'[q].at = "import" => desk'[q].left # {} /\ desk'[q].s = First(desk'[q].left)
                      /\ desk'[q].at = "failed" => desk'[q].s \in Sources
    BY DEF Working
  <2>1. CASE q = p
    BY <1>1, <2>1
  <2>2. CASE q # p
    BY <1>1, <2>2 DEF IInv, Working
  <2> QED BY <2>1, <2>2
<1> QED BY <1>2, <1>3, <1>4, <1>5, <1>6

LEMMA IdleTyped == Idle \in DeskStates
BY DEF Idle, DeskStates, Labels

\* A process that leaves
LEMMA LeaveInv ==
  ASSUME IInv, NEW p \in Operators, Leave(p), UNCHANGED imported,
         mig'.verified = "passed" => Passed,
         \A s \in Sources : src'[s] = "completed" => src[s] = "completed"
  PROVE  /\ desk' \in [Operators -> DeskStates]
         /\ ImportedWhole' /\ Data' /\ PassedIsWhole' /\ Working'
BY IdleTyped, QuietInv DEF Leave, Idle

\* A process that goes on to a label that promises nothing
LEMMA GotoInv ==
  ASSUME IInv, NEW p \in Operators, NEW l \in Labels \ {"loop", "import", "failed"},
         Goto(p, l), UNCHANGED imported,
         mig'.verified = "passed" => Passed,
         \A s \in Sources : src'[s] = "completed" => src[s] = "completed"
  PROVE  /\ desk' \in [Operators -> DeskStates]
         /\ ImportedWhole' /\ Data' /\ PassedIsWhole' /\ Working'
<1> DEFINE d == [desk[p] EXCEPT !.at = l]
<1>1. desk[p] \in DeskStates
  BY DEF IInv, TypeOK, DeskStates
<1>2. /\ d \in DeskStates
      /\ desk' = [desk EXCEPT ![p] = d]
      /\ d.at = l
      /\ d.verdict = desk[p].verdict
  BY <1>1 DEF Goto, DeskStates
<1>3. d.verdict = "passed" => Passed
  BY <1>2 DEF Passed
<1> HIDE DEF d
<1> QED BY <1>2, <1>3, QuietInv

LEMMA StartMigrateInv ==
  ASSUME IInv, NEW p \in Operators, StartMigrate(p)
  PROVE  IInv'
<1> DEFINE d == [desk[p] EXCEPT !.at = "copy", !.left = Sources]
<1>1. desk[p] \in DeskStates
  BY DEF IInv, TypeOK, DeskStates
<1>2. d \in DeskStates /\ desk' = [desk EXCEPT ![p] = d] /\ d.at = "copy" /\ d.verdict = desk[p].verdict
  BY <1>1 DEF StartMigrate, DeskStates, Labels
<1>3. d.verdict = "passed" => Passed
  BY <1>2 DEF Passed
<1>4. UNCHANGED << copy, snapshot, database, faults >> /\ UNCHANGED imported
  BY DEF StartMigrate, database, imported
<1> HIDE DEF d
<1>5. /\ desk' \in [Operators -> DeskStates]
      /\ ImportedWhole' /\ Data' /\ PassedIsWhole' /\ Working'
  BY <1>2, <1>3, <1>4, QuietInv DEF database, Passed
<1> QED BY <1>4, <1>5 DEF IInv, TypeOK, DeskStates, database

LEMMA CopySourceInv ==
  ASSUME IInv, NEW p \in Operators, CopySource(p)
  PROVE  IInv'
<1> DEFINE s == First(desk[p].left)
<1> DEFINE d == [desk[p] EXCEPT !.left = @ \ {s}]
<1>1. desk[p] \in DeskStates
  BY DEF IInv, TypeOK, DeskStates
<1>2. s \in Sources
  BY <1>1, FirstIsFirst DEF CopySource, DeskStates
<1>3. UNCHANGED << snapshot, database, faults >> /\ UNCHANGED imported
  BY DEF CopySource, database, imported
<1>4. copy' \in [Sources -> {"none", "torn", "whole"}]
  BY <1>2 DEF CopySource, IInv, TypeOK
<1>5. /\ desk' \in [Operators -> DeskStates]
      /\ ImportedWhole' /\ Data' /\ PassedIsWhole' /\ Working'
  <2>1. CASE Leave(p)
    BY <1>3, <2>1, LeaveInv DEF database, Passed
  <2>2. CASE desk' = [desk EXCEPT ![p].left = @ \ {s}]
    <3>1. d \in DeskStates /\ desk' = [desk EXCEPT ![p] = d] /\ d.at = "copy" /\ d.verdict = desk[p].verdict
      BY <1>1, <2>2 DEF CopySource, At, DeskStates
    <3>2. d.verdict = "passed" => Passed
      BY <3>1 DEF Passed
    <3> HIDE DEF d
    <3> QED BY <1>3, <3>1, <3>2, QuietInv DEF database, Passed
  <2> QED BY <2>1, <2>2 DEF CopySource
<1> QED BY <1>3, <1>4, <1>5 DEF IInv, TypeOK, DeskStates, database

LEMMA WriteSnapshotInv ==
  ASSUME IInv, NEW p \in Operators, WriteSnapshot(p)
  PROVE  IInv'
<1>1. UNCHANGED << copy, database, faults >> /\ UNCHANGED imported /\ snapshot' = TRUE
  BY DEF WriteSnapshot, database, imported
<1>2. /\ desk' \in [Operators -> DeskStates]
      /\ ImportedWhole' /\ Data' /\ PassedIsWhole' /\ Working'
  BY <1>1, GotoInv DEF WriteSnapshot, database, Passed, Labels
<1> QED BY <1>1, <1>2 DEF IInv, TypeOK, DeskStates, database

LEMMA InitializeInv ==
  ASSUME IInv, NEW p \in Operators, Initialize(p) \/ Register(p)
  PROVE  IInv'
<1> DEFINE i == [desk[p] EXCEPT !.at = "insert"]
           d == [desk[p] EXCEPT !.at = "loop", !.left = Sources]
<1>1. desk[p] \in DeskStates
  BY DEF IInv, TypeOK, DeskStates
<1>2. UNCHANGED << copy, snapshot, faults >> /\ UNCHANGED imported
  BY DEF Initialize, Register, imported, database
<1>3. /\ mig' \in [status   : {"none", "running", "failed", "verification-failed", "completed"},
                   verified : {"none", "passed", "failed"}]
      /\ mig'.verified = mig.verified
  BY DEF Initialize, Register, database, IInv, TypeOK
<1>4. /\ src' \in [Sources -> {"none", "pending", "failed", "completed"}]
      /\ \A s \in Sources : src'[s] = "completed" => src[s] = "completed"
  BY DEF Initialize, Register, database, IInv, TypeOK
<1>5. /\ desk' \in [Operators -> DeskStates]
      /\ ImportedWhole' /\ Data' /\ PassedIsWhole' /\ Working'
  <2>1. CASE Leave(p)
    BY <1>2, <1>3, <1>4, <2>1, LeaveInv DEF Passed
  <2>2. CASE desk' = [desk EXCEPT ![p] = d]
    <3>1. d \in DeskStates /\ d.at = "loop" /\ d.left = Sources /\ d.verdict = desk[p].verdict
      BY <1>1 DEF DeskStates, Labels
    <3>2. d.verdict = "passed" => Passed
      BY <3>1 DEF Passed
    <3> HIDE DEF d
    <3> QED BY <1>2, <1>3, <1>4, <2>2, <3>1, <3>2, QuietInv DEF Passed
  <2>3. CASE desk' = [desk EXCEPT ![p] = i]
    <3>1. i \in DeskStates /\ i.at = "insert" /\ i.verdict = desk[p].verdict
      BY <1>1 DEF DeskStates, Labels
    <3>2. i.verdict = "passed" => Passed
      BY <3>1 DEF Passed
    <3> HIDE DEF i
    <3> QED BY <1>2, <1>3, <1>4, <2>3, <3>1, <3>2, QuietInv DEF Passed
  <2> QED BY <2>1, <2>2, <2>3 DEF Initialize, Register, Leave
<1> QED BY <1>2, <1>3, <1>4, <1>5 DEF IInv, TypeOK, DeskStates, imported

LEMMA TakeSourceInv ==
  ASSUME IInv, NEW p \in Operators, TakeSource(p)
  PROVE  IInv'
<1> DEFINE s == First(desk[p].left)
<1>1. desk[p] \in DeskStates /\ desk[p].at = "loop"
  BY DEF IInv, TypeOK, DeskStates, TakeSource, At
<1>2. s \in Sources /\ s \in desk[p].left
  BY <1>1, FirstIsFirst DEF TakeSource, DeskStates
<1>3. UNCHANGED << copy, snapshot, mig, faults >> /\ UNCHANGED imported /\ UNCHANGED src
  BY DEF TakeSource, Taken, imported
<1>4. /\ desk' \in [Operators -> DeskStates]
      /\ ImportedWhole' /\ Data' /\ PassedIsWhole' /\ Working'
  <2>1. CASE src[s] = "completed"
    <3> DEFINE d == [desk[p] EXCEPT !.left = @ \ {s}]
    <3>1. /\ d \in DeskStates /\ desk' = [desk EXCEPT ![p] = d]
          /\ d.at = "loop" /\ d.left = desk[p].left \ {s} /\ d.verdict = desk[p].verdict
      BY <1>1, <2>1 DEF TakeSource, DeskStates
    <3>2. d.verdict = "passed" => Passed
      BY <3>1 DEF Passed
    <3>3. \A t \in Sources \ d.left : t \in results
      BY <1>1, <1>2, <2>1, <3>1 DEF IInv, Working, ImportedWhole
    <3> HIDE DEF d
    <3> QED BY <1>3, <3>1, <3>2, <3>3, QuietInv DEF Passed
  <2>2. CASE src[s] # "completed"
    <3> DEFINE d == [desk[p] EXCEPT !.at = "import", !.s = s]
    <3>1. /\ d \in DeskStates /\ desk' = [desk EXCEPT ![p] = d]
          /\ d.at = "import" /\ d.s = s /\ d.left = desk[p].left /\ d.verdict = desk[p].verdict
      BY <1>1, <1>2, <2>2 DEF TakeSource, DeskStates, Labels
    <3>2. d.verdict = "passed" => Passed
      BY <3>1 DEF Passed
    <3>3. \A t \in Sources \ d.left : t \in results
      BY <1>1, <3>1 DEF IInv, Working
    <3>4. d.left # {} /\ d.s = First(d.left)
      BY <1>2, <3>1
    <3> HIDE DEF d
    <3> QED BY <1>3, <3>1, <3>2, <3>3, <3>4, QuietInv DEF Passed
  <2> QED BY <2>1, <2>2
<1> QED BY <1>3, <1>4 DEF IInv, TypeOK, DeskStates, imported

\* The transaction of an import, whether or not its answer arrives
LEMMA ImportInv ==
  ASSUME IInv, NEW p \in Operators, At(p, "import"), ~Conflicts(desk[p].s), Import(desk[p].s),
         src' = [src EXCEPT ![desk[p].s] = "completed"],
         UNCHANGED << copy, snapshot, mig >>, faults' \in 0..MaxFaults,
         NEW d \in DeskStates, desk' = [desk EXCEPT ![p] = d], d.verdict = desk[p].verdict,
         d.at \in {"loop", "failed"},
         d.at = "loop" => d.left = desk[p].left \ {desk[p].s},
         d.at = "failed" => d.s = desk[p].s
  PROVE  IInv'
<1> DEFINE s == desk[p].s
<1>1. desk \in [Operators -> DeskStates]
  BY DEF IInv, TypeOK, DeskStates
<1>2. desk[p].left # {} /\ s = First(desk[p].left) /\ \A t \in Sources \ desk[p].left : t \in results
  BY DEF IInv, Working, At
<1>3. s \in Sources
  BY <1>1, <1>2, FirstIsFirst DEF DeskStates
<1>4. TypeOK'
  BY <1>1, <1>3, ImportTyped DEF IInv, TypeOK, DeskStates
<1>5. rows' = [rows EXCEPT ![s] = 1] /\ results' = results \union {s}
  BY <1>3, ImportAdds
<1>6. Data'
  <2>1. Kind[s] \in {"paper", "evaluation"} => \A t \in Sources : Kind[t] = "registry" => t \in results
    BY RegistryIsDone DEF At
  <2> QED BY <1>3, <2>1, ImportKeepsData DEF IInv
<1>7. ImportedWhole'
  BY <1>3, <1>5 DEF IInv, TypeOK, ImportedWhole
<1>8. PassedIsWhole'
  <2>1. Passed' => Passed
    BY <1>1 DEF Passed
  <2> QED BY <1>3, <1>5, <2>1 DEF IInv, TypeOK, PassedIsWhole
<1>9. Working'
  <2> SUFFICES ASSUME NEW q \in Operators
               PROVE  /\ desk'[q].at \in {"loop", "import"} =>
                           \A t \in Sources \ desk'[q].left : t \in results'
                      /\ desk'[q].at = "import" => desk'[q].left # {} /\ desk'[q].s = First(desk'[q].left)
                      /\ desk'[q].at = "failed" => desk'[q].s \in Sources
    BY DEF Working
  <2>1. CASE q = p
    BY <1>1, <1>2, <1>3, <1>5, <2>1
  <2>2. CASE q # p
    BY <1>1, <1>5, <2>2 DEF IInv, Working
  <2> QED BY <2>1, <2>2
<1> QED BY <1>4, <1>6, <1>7, <1>8, <1>9 DEF IInv

LEMMA CommitSourceInv ==
  ASSUME IInv, NEW p \in Operators, CommitSource(p)
  PROVE  IInv'
<1> DEFINE d == [desk[p] EXCEPT !.at = "loop", !.left = @ \ {desk[p].s}, !.s = NoSource]
<1>1. desk[p] \in DeskStates
  BY DEF IInv, TypeOK, DeskStates
<1>2. /\ d \in DeskStates /\ desk' = [desk EXCEPT ![p] = d]
      /\ d.at = "loop" /\ d.left = desk[p].left \ {desk[p].s} /\ d.verdict = desk[p].verdict
  BY <1>1 DEF CommitSource, DeskStates, Labels
<1>3. faults' \in 0..MaxFaults
  BY DEF CommitSource, IInv, TypeOK
<1> HIDE DEF d
<1> QED BY <1>2, <1>3, ImportInv DEF CommitSource

LEMMA LoseAnswerInv ==
  ASSUME IInv, NEW p \in Operators, LoseAnswer(p)
  PROVE  IInv'
<1> DEFINE d == [desk[p] EXCEPT !.at = "failed"]
<1>1. desk[p] \in DeskStates
  BY DEF IInv, TypeOK, DeskStates
<1>2. /\ d \in DeskStates /\ desk' = [desk EXCEPT ![p] = d]
      /\ d.at = "failed" /\ d.s = desk[p].s /\ d.verdict = desk[p].verdict
  BY <1>1 DEF LoseAnswer, Goto, DeskStates, Labels
<1>3. faults' \in 0..MaxFaults
  BY SourceAssumption DEF LoseAnswer, Strikes, IInv, TypeOK
<1> HIDE DEF d
<1> QED BY <1>2, <1>3, ImportInv DEF LoseAnswer

\* A process that meets a failure at a source
LEMMA ToFailedInv ==
  ASSUME IInv, NEW p \in Operators, NEW s \in Sources,
         desk' = [desk EXCEPT ![p].at = "failed", ![p].s = s],
         UNCHANGED << copy, snapshot, database >>, faults' \in 0..MaxFaults
  PROVE  IInv'
<1> DEFINE d == [desk[p] EXCEPT !.at = "failed", !.s = s]
<1>1. desk[p] \in DeskStates
  BY DEF IInv, TypeOK, DeskStates
<1>2. /\ d \in DeskStates /\ desk' = [desk EXCEPT ![p] = d]
      /\ d.at = "failed" /\ d.s = s /\ d.verdict = desk[p].verdict
  BY <1>1 DEF DeskStates, Labels
<1>3. d.verdict = "passed" => Passed
  BY <1>2 DEF Passed
<1>4. UNCHANGED imported
  BY DEF database, imported
<1> HIDE DEF d
<1>5. /\ desk' \in [Operators -> DeskStates]
      /\ ImportedWhole' /\ Data' /\ PassedIsWhole' /\ Working'
  BY <1>2, <1>3, <1>4, QuietInv DEF database, Passed
<1> QED BY <1>5 DEF IInv, TypeOK, DeskStates, database

LEMMA RejectSourceInv ==
  ASSUME IInv, NEW p \in Operators, RejectSource(p)
  PROVE  IInv'
<1>1. desk[p] \in DeskStates
  BY DEF IInv, TypeOK, DeskStates
<1>2. desk[p].s \in Sources
  BY <1>1, FirstIsFirst DEF IInv, Working, RejectSource, At, DeskStates
<1>3. desk' = [desk EXCEPT ![p].at = "failed", ![p].s = desk[p].s]
  BY <1>1 DEF RejectSource, Goto, IInv, TypeOK, DeskStates
<1>4. faults' \in 0..MaxFaults /\ UNCHANGED << copy, snapshot, database >>
  BY DEF RejectSource, IInv, TypeOK
<1> QED BY <1>2, <1>3, <1>4, ToFailedInv

LEMMA FailInv ==
  ASSUME IInv, NEW p \in Operators, Fail(p)
  PROVE  IInv'
<1>1. PICK s \in Sources : desk' = [desk EXCEPT ![p].at = "failed", ![p].s = s] /\ Strikes(s)
  BY SourceAssumption DEF Fail, Strikes
<1>2. faults' \in 0..MaxFaults
  BY <1>1, SourceAssumption DEF Strikes, IInv, TypeOK
<1> QED BY <1>1, <1>2, ToFailedInv DEF Fail

LEMMA MarkFailedInv ==
  ASSUME IInv, NEW p \in Operators, MarkFailed(p)
  PROVE  IInv'
<1>1. /\ UNCHANGED << copy, snapshot, faults >> /\ UNCHANGED imported
      /\ mig'.verified = mig.verified
      /\ mig' \in [status   : {"none", "running", "failed", "verification-failed", "completed"},
                   verified : {"none", "passed", "failed"}]
  BY DEF MarkFailed, IInv, TypeOK, imported
<1>2. /\ src' \in [Sources -> {"none", "pending", "failed", "completed"}]
      /\ \A s \in Sources : src'[s] = "completed" => src[s] = "completed"
  BY DEF MarkFailed, IInv, TypeOK
<1>3. /\ desk' \in [Operators -> DeskStates]
      /\ ImportedWhole' /\ Data' /\ PassedIsWhole' /\ Working'
  BY <1>1, <1>2, LeaveInv DEF MarkFailed, Passed
<1> QED BY <1>1, <1>2, <1>3 DEF IInv, TypeOK, DeskStates, imported

LEMMA EndLoopInv ==
  ASSUME IInv, NEW p \in Operators, EndLoop(p)
  PROVE  IInv'
<1> DEFINE d == [desk[p] EXCEPT !.at = "verify", !.closing = TRUE]
<1>1. desk[p] \in DeskStates
  BY DEF IInv, TypeOK, DeskStates
<1>2. /\ d \in DeskStates /\ desk' = [desk EXCEPT ![p] = d]
      /\ d.at = "verify" /\ d.verdict = desk[p].verdict
  BY <1>1 DEF EndLoop, DeskStates, Labels
<1>3. d.verdict = "passed" => Passed
  BY <1>2 DEF Passed
<1>4. UNCHANGED << copy, snapshot, database, faults >> /\ UNCHANGED imported
  BY DEF EndLoop, database, imported
<1> HIDE DEF d
<1>5. /\ desk' \in [Operators -> DeskStates]
      /\ ImportedWhole' /\ Data' /\ PassedIsWhole' /\ Working'
  BY <1>2, <1>3, <1>4, QuietInv DEF database, Passed
<1> QED BY <1>4, <1>5 DEF IInv, TypeOK, DeskStates, database

LEMMA StartVerifyInv ==
  ASSUME IInv, NEW p \in Operators, StartVerify(p)
  PROVE  IInv'
<1>1. UNCHANGED << copy, snapshot, database, faults >> /\ UNCHANGED imported
  BY DEF StartVerify, database, imported
<1>2. /\ desk' \in [Operators -> DeskStates]
      /\ ImportedWhole' /\ Data' /\ PassedIsWhole' /\ Working'
  BY <1>1, GotoInv DEF StartVerify, database, Passed, Labels
<1> QED BY <1>1, <1>2 DEF IInv, TypeOK, DeskStates, database

\* The verdict is about rows that stay.
LEMMA VerifyInv ==
  ASSUME IInv, NEW p \in Operators, Verify(p)
  PROVE  IInv'
<1> DEFINE d == [desk[p] EXCEPT !.at = "stamp", !.verdict = IF Verified THEN "passed" ELSE "failed"]
<1>1. desk[p] \in DeskStates
  BY DEF IInv, TypeOK, DeskStates
<1>2. /\ d \in DeskStates /\ desk' = [desk EXCEPT ![p] = d]
      /\ d.at = "stamp" /\ (d.verdict = "passed" => Verified)
  BY <1>1 DEF Verify, DeskStates, Labels
<1>3. d.verdict = "passed" => \A s \in Sources : rows[s] = 1
  BY <1>2 DEF Verified
<1>4. UNCHANGED << copy, snapshot, database, faults >> /\ UNCHANGED imported
  BY DEF Verify, database, imported
<1> HIDE DEF d
<1>5. /\ desk' \in [Operators -> DeskStates]
      /\ ImportedWhole' /\ Data' /\ PassedIsWhole' /\ Working'
  BY <1>2, <1>3, <1>4, QuietInv DEF database, Passed
<1> QED BY <1>4, <1>5 DEF IInv, TypeOK, DeskStates, database

LEMMA StampInv ==
  ASSUME IInv, NEW p \in Operators, Stamp(p)
  PROVE  IInv'
<1>1. desk[p] \in DeskStates
  BY DEF IInv, TypeOK, DeskStates
<1>2. /\ UNCHANGED << copy, snapshot, src, faults >> /\ UNCHANGED imported
      /\ mig'.verified = "passed" => Passed
      /\ mig' \in [status   : {"none", "running", "failed", "verification-failed", "completed"},
                   verified : {"none", "passed", "failed"}]
  BY <1>1 DEF Stamp, IInv, TypeOK, Passed, imported, DeskStates
<1>3. /\ desk' \in [Operators -> DeskStates]
      /\ ImportedWhole' /\ Data' /\ PassedIsWhole' /\ Working'
  <2>1. CASE Goto(p, "close")
    BY <1>2, <2>1, GotoInv DEF Labels
  <2>2. CASE Leave(p)
    BY <1>2, <2>2, LeaveInv
  <2> QED BY <2>1, <2>2 DEF Stamp
<1> QED BY <1>2, <1>3 DEF IInv, TypeOK, DeskStates, imported

LEMMA CloseInv ==
  ASSUME IInv, NEW p \in Operators, Close(p)
  PROVE  IInv'
<1>1. desk[p] \in DeskStates
  BY DEF IInv, TypeOK, DeskStates
<1>2. /\ UNCHANGED << copy, snapshot, src, faults >> /\ UNCHANGED imported
      /\ mig'.verified = "passed" => Passed
      /\ mig' \in [status   : {"none", "running", "failed", "verification-failed", "completed"},
                   verified : {"none", "passed", "failed"}]
  BY <1>1 DEF Close, Passed, imported, DeskStates
<1>3. /\ desk' \in [Operators -> DeskStates]
      /\ ImportedWhole' /\ Data' /\ PassedIsWhole' /\ Working'
  BY <1>2, LeaveInv DEF Close
<1> QED BY <1>2, <1>3 DEF IInv, TypeOK, DeskStates, imported

LEMMA CrashInv ==
  ASSUME IInv, NEW p \in Operators, Crash(p)
  PROVE  IInv'
<1>1. UNCHANGED << snapshot, database >> /\ UNCHANGED imported
  BY DEF Crash, database, imported
<1>2. copy' \in [Sources -> {"none", "torn", "whole"}]
  BY DEF Crash, IInv, TypeOK
<1>3. faults' \in 0..MaxFaults
  BY SourceAssumption DEF Crash, Strikes, IInv, TypeOK
<1>4. /\ desk' \in [Operators -> DeskStates]
      /\ ImportedWhole' /\ Data' /\ PassedIsWhole' /\ Working'
  BY <1>1, LeaveInv DEF Crash, database, Passed
<1> QED BY <1>1, <1>2, <1>3, <1>4 DEF IInv, TypeOK, DeskStates, database

LEMMA StepInv == IInv /\ [Next]_vars => IInv'
<1> SUFFICES ASSUME IInv, [Next]_vars PROVE IInv'
  OBVIOUS
<1>1. CASE UNCHANGED vars
  <2> USE <1>1 DEF vars
  <2>1. TypeOK' /\ ImportedWhole'
    BY DEF IInv, TypeOK, ImportedWhole
  <2>2. Data'
    BY DEF IInv, Data, ResultsHaveRows, RunsAgree, ObservationsHaveMembers, RegistryHolds, RegistryComesFirst
  <2>3. PassedIsWhole' /\ Working'
    BY DEF IInv, PassedIsWhole, Passed, Working
  <2> QED BY <2>1, <2>2, <2>3 DEF IInv
<1>2. ASSUME NEW p \in Operators, Migrate(p) PROVE IInv'
  BY <1>2, StartMigrateInv, CopySourceInv, WriteSnapshotInv, InitializeInv, TakeSourceInv,
     CommitSourceInv, RejectSourceInv, MarkFailedInv, EndLoopInv, VerifyInv, StampInv, CloseInv
     DEF Migrate
<1>3. ASSUME NEW p \in Operators, StartVerify(p) \/ Crash(p) \/ Fail(p) \/ LoseAnswer(p) PROVE IInv'
  BY <1>3, StartVerifyInv, CrashInv, FailInv, LoseAnswerInv
<1> QED BY <1>1, <1>2, <1>3 DEF Next

-----------------------------------------------------------------------------
(* Theorems                                                                *)

\* The invariant behind the theorems below: what is imported agrees with
\* itself, verdicts on their way are true, and the loop is where it should be.
THEOREM Invariance == Spec => []IInv
BY InitInv, StepInv, PTL DEF Spec

\* The tables, the operators' places and their verdicts keep their types.
THEOREM TypeCorrect == Spec => []TypeOK
<1>1. IInv => TypeOK
  BY DEF IInv
<1> QED BY Invariance, <1>1, PTL

\* Whatever crashes or breaks, a source that a later attempt would skip has
\* been imported (storage/migration.py, execute_migration).
THEOREM CompletedIsImported == Spec => []ImportedWhole
<1>1. IInv => ImportedWhole
  BY DEF IInv
<1> QED BY Invariance, <1>1, PTL

\* A passed verification is whole, although its verdict is recorded after the
\* rows were looked at and others import meanwhile (verify_migration).
THEOREM PassedIsComplete == Spec => []PassedMeansWhole
<1>1. IInv => PassedMeansWhole
  <2> SUFFICES ASSUME IInv, mig.verified = "passed" PROVE PassedMeansWhole
    BY DEF PassedMeansWhole
  <2>1. \A s \in Sources : rows[s] = 1
    BY DEF IInv, PassedIsWhole, Passed
  <2>2. \A s \in DOMAIN Observed : \A d \in Observed[s] : Owner[s] \in run[d].members
    BY <2>1, SourceAssumption DEF IInv, Data, ObservationsHaveMembers
  <2>3. \A d \in Sessions : run[d].members = run[d].expected
    BY DEF IInv, Data, RunsAgree
  <2> QED BY <2>1, <2>2, <2>3 DEF PassedMeansWhole
<1> QED BY Invariance, <1>1, PTL

\* No paper or evaluation source makes up a sleeve the registry describes,
\* whatever order the paths are in (storage/migration.py, _priority).
THEOREM RegistryFirst == Spec => []RegistryComesFirst
<1>1. IInv => RegistryComesFirst
  BY DEF IInv, Data, RegistryHolds
<1> QED BY Invariance, <1>1, PTL

=============================================================================
