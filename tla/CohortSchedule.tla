--------------------------- MODULE CohortSchedule ---------------------------
(***************************************************************************)
(* A cohort over several exchange sessions: the invocations a scheduler or *)
(* an operator makes (cli._run_official_sleeve_cohorts), the run row each  *)
(* session ends up with, the health command, and the alerts both send.     *)
(*                                                                         *)
(* What happens inside a run is CohortRun's subject; here an invocation    *)
(* decides, owns the session, executes it for as long as it takes and      *)
(* alerts, and the clock and the other invocations go on between these     *)
(* steps.  Alert delivery is CohortAlerts' subject; here an alert that is  *)
(* sent arrives, once per session and kind.                                *)
(***************************************************************************)
EXTENDS CohortHealth

CONSTANTS
  Runners,    \* concurrent invocations
  NamedDays,  \* the days an operator may name with --scheduled-for
  MayCrash    \* whether invocations may die

ASSUME ScheduleAssumption ==
  /\ Days > 1 /\ 1 \in TradingDays
  /\ NamedDays \subseteq 1..Days
  /\ MayCrash \in BOOLEAN

\* DEFAULT_POLICY's two hours of grace end long before the next close.
ASSUME GraceAssumption ==
  \A d, e \in TradingDays : d < e => Due(d) + Grace < Due(e)

\* The calendar has a session before the clock starts, as the exchange's has, and the
\* scan of most_recent_due_session_date reaches across every closure.
ASSUME LookbackAssumption == LookbackReaches(DayTicks)

VARIABLES
  now,      \* Eastern wall-clock time
  runs,     \* per day: sleeve_runs.status, or "absent"
  late,     \* days whose completed run ran late (ran_late)
  job,      \* per invocation: [at, day, verdict, report]
  alerts    \* the (day, kind) transitions notified

vars == << now, runs, late, job, alerts >>

Verdicts  == {"skipped-closed-session", "already-completed", "pending", "due", "late", "missed"}
RunStatus == {"absent", "pending", "running", "awaiting-data"} \union TerminalRun
AlertKind == {"completed", "late", "partial", "failed", "missed"}

Idle == [at |-> "idle", day |-> NoDay, verdict |-> "pending", report |-> {}]

TypeOK ==
  /\ now \in 0..Days * DayTicks - 1
  /\ runs \in [1..Days -> RunStatus]
  /\ late \in SUBSET (1..Days)
  /\ job \in [Runners -> [at : {"idle", "decided", "executing", "alerting"},
                          day : 1..Days \union {NoDay}, verdict : Verdicts,
                          report : SUBSET AlertKind]]
  /\ alerts \in SUBSET ((1..Days) \X AlertKind)

Init ==
  /\ now = DayTicks
  /\ runs = [d \in 1..Days |-> "absent"]
  /\ late = {}
  /\ job  = [r \in Runners |-> Idle]
  /\ alerts = {}

Completed == CompletedDays(runs)
Terminal(d) == runs[d] \in TerminalRun

\* kind_for_run; the two waits, for data and for authentication, are one status
\* here and alert nobody.
KindFor(status, ranLate) ==
  IF status = "completed" THEN (IF ranLate THEN {"late"} ELSE {"completed"})
  ELSE {status} \intersect {"partial", "failed", "missed"}

KindForRun(d) == KindFor(runs[d], d \in late)

\* kind_for_state
KindForState(state) == {state} \intersect {"missed", "partial", "failed"}

-----------------------------------------------------------------------------
(* Invocations *)

Tick ==
  /\ now + 1 < Days * DayTicks
  /\ now' = now + 1
  /\ UNCHANGED << runs, late, job, alerts >>

Decided(r, d, verdict) ==
  /\ job[r] = Idle
  /\ job' = [job EXCEPT ![r] = [at |-> "decided", day |-> d, verdict |-> verdict, report |-> {}]]
  /\ UNCHANGED << now, runs, late, alerts >>

\* Without a date: the scheduled command, the one the operations guide prescribes.
Plan(r) == Decided(r, PlannedDay(now), PlannedVerdict(now, Completed))

\* With --scheduled-for.
Name(r) == \E d \in NamedDays : Decided(r, d, Evaluate(d, now, Completed))

Owned(d) == \E q \in Runners : job[q].at = "executing" /\ job[q].day = d

At(r, label, verdict, report) ==
  job' = [job EXCEPT ![r] = [at |-> label, day |-> job[r].day, verdict |-> verdict,
                             report |-> report]]

\* The run is back: alert what it is worth, or be done.
Reports(r, kinds) ==
  IF kinds = {} THEN job' = [job EXCEPT ![r] = Idle] ELSE At(r, "alerting", "pending", kinds)

\* run() in one step: the run row takes the status the verdict leaves it with,
\* and the invocation goes on to its alert.
Settles(r, status) ==
  /\ runs' = [runs EXCEPT ![job[r].day] = status]
  /\ Reports(r, KindFor(status, job[r].day \in late))
  /\ UNCHANGED << now, late, alerts >>

Deciding(r) == job[r].at = "decided" /\ ~Owned(job[r].day)

LeaveAlone(r) ==
  /\ Deciding(r)
  /\ Terminal(job[r].day) \/ job[r].verdict = "already-completed"
  /\ Settles(r, runs[job[r].day])

Settle(r) ==
  /\ Deciding(r)
  /\ ~Terminal(job[r].day)
  /\ \/ job[r].verdict = "skipped-closed-session" /\ Settles(r, "skipped-closed-session")
     \/ job[r].verdict = "pending" /\ Settles(r, "pending")
     \/ job[r].verdict = "missed" /\ Settles(r, "missed")
     \/ ShouldRun(job[r].verdict) /\ Settles(r, "missed")  \* the kill switch is engaged

\* Executing starts.  The stamp that will be its completed_at is this instant, so
\* the verdict from here on is whether the run is late by it.
Executes(r) ==
  LET d == job[r].day IN
  /\ runs' = [runs EXCEPT ![d] = "running"]
  /\ At(r, "executing", IF now - Due(d) <= Grace THEN "due" ELSE "late", {})
  /\ UNCHANGED << now, late, alerts >>

\* Mutation of Begin: does not look at the run ensure_run has returned.
BeginRegardless(r) ==
  /\ Deciding(r)
  /\ ShouldRun(job[r].verdict)
  /\ Executes(r)

Begin(r) ==
  /\ Deciding(r)
  /\ ~Terminal(job[r].day)
  /\ ShouldRun(job[r].verdict)
  /\ Executes(r)

\* Whatever the members, the provider and the preflight make of it.
Finish(r) ==
  LET d == job[r].day
      ranLate == job[r].verdict = "late"
  IN
  /\ job[r].at = "executing"
  /\ \E status \in {"completed", "partial", "failed", "awaiting-data"} :
       /\ runs' = [runs EXCEPT ![d] = status]
       /\ late' = IF status = "completed" /\ ranLate THEN late \union {d} ELSE late \ {d}
       /\ Reports(r, KindFor(status, ranLate))
  /\ UNCHANGED << now, alerts >>

\* Another invocation owns the session: report its run as it is.
Refused(r) ==
  /\ job[r].at = "decided"
  /\ Owned(job[r].day)
  /\ Reports(r, KindForRun(job[r].day))
  /\ UNCHANGED << now, runs, late, alerts >>

Crash(r) ==
  /\ job[r].at # "idle"
  /\ MayCrash
  /\ job' = [job EXCEPT ![r] = Idle]
  /\ UNCHANGED << now, runs, late, alerts >>

-----------------------------------------------------------------------------
(* Alerts *)

\* The alert is about the run as it was returned, however long ago.
Notify(r) ==
  /\ job[r].at = "alerting"
  /\ alerts' = alerts \union ({job[r].day} \X job[r].report)
  /\ job' = [job EXCEPT ![r] = Idle]
  /\ UNCHANGED << now, runs, late >>

\* "cohort health --notify"
HealthCheck ==
  /\ LET focus == Focus(now, runs)
         kinds == KindForState(Health(now, runs))
     IN  /\ focus # NoDay
         /\ kinds # {}
         /\ alerts' = alerts \union ({focus} \X kinds)
  /\ UNCHANGED << now, runs, late, job >>

-----------------------------------------------------------------------------
(* The system *)

Proceed(r) ==
  LeaveAlone(r) \/ Settle(r) \/ Begin(r) \/ Finish(r) \/ Refused(r) \/ Notify(r)

Next ==
  \/ Tick \/ HealthCheck
  \/ \E r \in Runners : Plan(r) \/ Name(r) \/ Proceed(r) \/ Crash(r)

Spec == Init /\ [][Next]_vars

-----------------------------------------------------------------------------
(* What must hold *)

\* Execution windows do not overlap: at no instant may two sessions of a cohort
\* be executed, late catch-up, early closes and closed days included ("late ...
\* but the next session is not yet due").
OneWindow ==
  LET executable == { d \in TradingDays \intersect 1..Days : ShouldRun(Evaluate(d, now, {})) }
  IN  \A d, e \in executable : d = e

\* Nothing that is owed is hidden.  Every due session since the cohort's start that
\* is not completed is in focus or in the unresolved history, as far back as the scan
\* goes (assess_cohort); and exit code 0 means that the last two sessions that have
\* fallen due since the cohort's start are completed.
GapsAreVisible ==
  LET visible == {Focus(now, runs)} \union History(now, runs)
      owed    == { d \in TradingDays : CohortStart <= d /\ Due(d) <= now }
  IN
  /\ Scanned(now) \ Completed \subseteq visible
  /\ (\E d \in owed : d \notin Completed /\ Cardinality({ e \in owed : d < e }) < 2)
       => Health(now, runs) \in Attention

\* An alert of a finished run is true for ever: no later invocation changes the
\* outcome it announced.
AlertsStayTrue ==
  \A d \in 1..Days, kind \in AlertKind \ {"missed"} :
    << d, kind >> \in alerts => kind \in KindForRun(d)

=============================================================================
