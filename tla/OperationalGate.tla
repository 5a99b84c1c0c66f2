--------------------------- MODULE OperationalGate ---------------------------
(***************************************************************************)
(* The read-only assessments of a cohort's evidence: which sessions are    *)
(* evidence at an instant (evidence_timing.py), the rules of the           *)
(* operational gate (operational_gate.py) and the phase the operator is    *)
(* shown (cohort_phase.py), as operators over the recorded rows.           *)
(*                                                                         *)
(* runs[d] is the status of day d's run or "absent", slot[d][m] what is    *)
(* recorded of member m in it, bound the days whose run has a snapshot.    *)
(***************************************************************************)
EXTENDS Scheduling

CONSTANTS
  Members,        \* the cohort's sleeves
  NonControl,     \* those that are neither a control nor the benchmark
  Areas,          \* REQUIRED_AREAS of an accounting review
  MinSessions,    \* OperationalGateConfig.min_scheduled_sessions
  MinPercent,     \* min_completion_rate
  MinOverlap,     \* min_behavior_overlap_sessions
  MinDecisions,   \* min_operator_decisions
  ReviewTarget    \* DEFAULT_REVIEW_TARGET

ASSUME GateAssumption ==
  /\ IsFiniteSet(Members) /\ Members # {} /\ NonControl \subseteq Members
  /\ IsFiniteSet(Areas) /\ Areas # {}
  /\ MinPercent \in 0..100
  /\ MinSessions \in Nat \ {0} /\ MinOverlap \in 1..MinSessions
  /\ MinDecisions \in Nat \ {0} /\ ReviewTarget \in Nat \ {0}

\* A member has no row, an observation (MISSING, PARTIAL or OFFICIAL), or only
\* an error on its checkpoint.
Slots == {"none", "missing", "partial", "official", "error"}

-----------------------------------------------------------------------------
(* When a session is evidence *)

Unexecuted == {"pending", "running", "awaiting-data", "skipped-closed-session"}

\* classify_run: a recorded outcome counts whatever the clock says, the others
\* are judged by it.
Timing(d, now, status) ==
  LET verdict == Evaluate(d, now, {}) IN
  IF status \notin Unexecuted THEN "executed"
  ELSE IF "skipped-closed-session" \in {verdict, status} THEN "closed-session"
  ELSE IF verdict = "pending" THEN "upcoming"
  ELSE IF status = "awaiting-data" /\ ShouldRun(verdict) THEN "awaiting-provider-data"
  ELSE IF verdict = "due" THEN "awaiting-execution"
  ELSE "overdue"

\* Only persisted runs are classified.
Timed(now, runs, timings) ==
  { d \in DOMAIN runs : runs[d] # "absent" /\ Timing(d, now, runs[d]) \in timings }

Evidence(now, runs) == Timed(now, runs, {"executed", "overdue"})

\* pending_session_dates
Outstanding(now, runs) ==
  Timed(now, runs, {"upcoming", "awaiting-execution", "awaiting-provider-data", "closed-session"})

\* counts_evidence_observation: the sessions whose observations count.
Counting(now, runs) ==
  LET cutoff  == MostRecentDue(now)
      waiting == Outstanding(now, runs)
  IN  { d \in DOMAIN runs : cutoff # NoDay /\ d <= cutoff /\ d \notin waiting }

\* The observations of the cohort with one of the given statuses.
Observed(slot, statuses) ==
  { o \in (DOMAIN slot) \X Members : slot[o[1]][o[2]] \in statuses }

Judged(observations, now, runs) ==
  LET counting == Counting(now, runs) IN { o \in observations : o[1] \in counting }

\* The official observations an operator may review and the gate judges.
Reviewable(now, runs, slot) == Judged(Observed(slot, {"official"}), now, runs)

-----------------------------------------------------------------------------
(* The rules.  A rule passes, fails, or has no evidence to judge yet:          *)
(* "unrecorded" is a failure and "insufficient" an insufficient history that   *)
(* are marked awaiting_evidence.                                               *)

Failures == {"fail", "unrecorded"}

SessionHistory(E) == IF Cardinality(E) < MinSessions THEN "insufficient" ELSE "pass"

\* A slot is accounted for when it has an official observation, or a reason.
CompletionRate(E, slot) ==
  LET expected  == E \X Members
      accounted == { s \in expected : slot[s[1]][s[2]] # "none" }
  IN  IF expected = {} THEN "insufficient"
      ELSE IF Cardinality(accounted) * 100 < MinPercent * Cardinality(expected) THEN "fail"
      ELSE "pass"

\* Mutation of AccountingStates: what nobody reviewed is not missed.
AccountingStatesOfReviewed(official, anyCheck, covered, open) ==
  IF ~anyCheck \/ official = {} THEN "unrecorded"
  ELSE IF open # {} THEN "fail"
  ELSE "pass"

\* covered: the observations with a current check in every area, open: those
\* with an unexplained difference.  A review of nothing is no evidence.
AccountingStates(official, anyCheck, covered, open) ==
  IF ~anyCheck \/ official = {} THEN "unrecorded"
  ELSE IF covered # official \/ open # {} THEN "fail"
  ELSE "pass"

\* An execution that failed keeps the readiness that let it start, and that is
\* ambiguous.
DataReadiness(observations, slot) ==
  IF observations = {} THEN "unrecorded"
  ELSE IF \E o \in observations : slot[o[1]][o[2]] = "partial" THEN "fail"
  ELSE "pass"

\* Every judged run has its snapshots, and the comparison, made of all the
\* observations there are, is what the judged ones give.
Reproducibility(E, all, observations, bound) ==
  IF E = {} /\ all = {} THEN "unrecorded"
  ELSE IF ~(E \subseteq bound) \/ all = {} \/ all # observations THEN "fail"
  ELSE "pass"

\* The signals of a pair are there once it shares enough sessions.
DistinctBehavior(E, slot) ==
  LET shared(a, b) == { d \in DOMAIN slot : d \in E /\ {slot[d][a], slot[d][b]} = {"official"} }
      enough(a, b) == Cardinality(shared(a, b)) >= MinOverlap
  IN  IF Cardinality(NonControl) < 2 THEN "fail"
      ELSE IF Cardinality(E) < MinSessions THEN "insufficient"
      ELSE IF \E a, b \in NonControl : a # b /\ enough(a, b) THEN "pass"
      ELSE "fail"

OperatorDecisions(decided) ==
  IF decided = {} THEN "unrecorded"
  ELSE IF Cardinality(decided) < MinDecisions THEN "fail"
  ELSE "pass"

GateRules == {"operatorDecisions", "accountingStates", "sessionHistory", "completionRate",
              "dataReadiness", "reproducibility", "distinctBehavior"}

\* assess_operational_usefulness; observations cannot be duplicate, their
\* identity is the key they are stored under.
Assess(now, runs, slot, bound, anyCheck, covered, open, decided) ==
  LET E        == Evidence(now, runs)
      all      == Observed(slot, {"missing", "partial", "official"})
      judged   == Judged(all, now, runs)
      official == { o \in judged : slot[o[1]][o[2]] = "official" }
  IN  [ rule \in GateRules |->
        CASE rule = "operatorDecisions" -> OperatorDecisions(decided)
          [] rule = "accountingStates"  -> AccountingStates(official, anyCheck, covered, open)
          [] rule = "sessionHistory"    -> SessionHistory(E)
          [] rule = "completionRate"    -> CompletionRate(E, slot)
          [] rule = "dataReadiness"     -> DataReadiness(judged, slot)
          [] rule = "reproducibility"   -> Reproducibility(E, all, judged, bound)
          [] rule = "distinctBehavior"  -> DistinctBehavior(E, slot) ]

Some(gate, outcomes) == \E rule \in GateRules : gate[rule] \in outcomes

GateStatus(gate) ==
  IF Some(gate, Failures) THEN "fail"
  ELSE IF Some(gate, {"insufficient"}) THEN "insufficient-history"
  ELSE "pass"

-----------------------------------------------------------------------------
(* The phase *)

\* Mutation of CompletedDue: every session that is evidence.
EverySessionDue(now, runs) == Evidence(now, runs)

CompletedDue(now, runs) == { d \in Evidence(now, runs) : runs[d] = "completed" }

\* _integrity_alerts; the accounting review is an integrity rule as well.
IntegrityRules == {"accountingStates", "dataReadiness", "reproducibility"}

Alerts(now, runs, gate) ==
  \/ Timed(now, runs, {"overdue"}) # {}
  \/ \E rule \in IntegrityRules : gate[rule] = "fail"
  \/ \E d \in Evidence(now, runs) : runs[d] \in {"partial", "failed", "missed"}

\* Mutation of Phase: alerts first.
PhaseAlertsFirst(now, runs, gate) ==
  IF Alerts(now, runs, gate) THEN "attention-needed"
  ELSE IF Cardinality(CompletedDue(now, runs)) >= ReviewTarget THEN "review-ready"
  ELSE "collecting"

\* assess_cohort_phase: past the review target the review decides, before it the
\* alerts do.
Phase(now, runs, gate) ==
  IF Cardinality(CompletedDue(now, runs)) >= ReviewTarget
  THEN IF GateStatus(gate) = "pass" THEN "passed"
       ELSE IF Some(gate, {"fail"}) THEN "failed"
       ELSE "review-ready"
  ELSE IF Alerts(now, runs, gate) THEN "attention-needed"
  ELSE IF Evidence(now, runs) # {} THEN "collecting"
  ELSE "scheduled"

\* The phases in which the review is owed.
ReviewDuePhases == {"review-ready", "passed", "failed"}

=============================================================================
