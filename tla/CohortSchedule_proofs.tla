------------------------- MODULE CohortSchedule_proofs -------------------------
(***************************************************************************)
(* For every calendar and every policy whose grace period ends before the  *)
(* next session is due: the execution windows of different sessions never  *)
(* overlap, and an alert about a finished run is never contradicted by     *)
(* what the cohort does later.                                             *)
(***************************************************************************)
EXTENDS CohortSchedule, Scheduling_proofs, FiniteSetTheorems

\* The deadline of a session is at the latest when any later session falls due.
LEMMA DeadlineBeforeLaterSessions ==
  ASSUME NEW d \in TradingDays, NEW e \in TradingDays, d < e
  PROVE  \A t \in Int : t < Deadline(d) => t < Due(e)
<1> DEFINE later == { f \in TradingDays : d < f }
<1>1. later \in SUBSET Nat /\ later # {} /\ e \in later
  BY CalendarAssumption
<1>2. NextTradingDay(d) \in later /\ NextTradingDay(d) <= e
  <2> HIDE DEF later
  <2>1. Earliest(later) \in later /\ Earliest(later) <= e
    BY <1>1, EarliestIsLeast
  <2> USE DEF later
  <2>2. NextTradingDay(d) = Earliest(later)
    BY DEF NextTradingDay
  <2> QED BY <2>1, <2>2
<1> DEFINE n == NextTradingDay(d)
<1>3. n \in TradingDays /\ n <= e
  BY <1>2
<1> HIDE DEF n, later
<1>4. Due(n) <= Due(e)
  <2>1. CASE n = e
    BY <2>1, Clock
  <2>2. CASE n # e
    <3>1. n < e /\ n \in Nat /\ e \in Nat
      BY <1>3, <2>2, CalendarAssumption
    <3>2. Due(n) + Grace < Due(e)
      BY <1>3, <3>1, GraceAssumption
    <3> QED BY <1>3, <3>2, Clock, PolicyAssumption
  <2> QED BY <2>1, <2>2
<1>5. \/ Deadline(d) = Due(n)
      \/ /\ MaxCatchup \in Nat
         /\ Deadline(d) = Due(d) + MaxCatchup
         /\ Due(d) + MaxCatchup < Due(n)
  BY PolicyAssumption DEF Deadline, n
<1>6. SUFFICES ASSUME NEW t \in Int, t < Deadline(d) PROVE t < Due(e)
  OBVIOUS
<1>7. Due(n) \in Int /\ Due(e) \in Int /\ Due(d) \in Int
  BY <1>3, Clock
<1>8. CASE Deadline(d) = Due(n)
  BY <1>4, <1>6, <1>7, <1>8
<1>9. CASE /\ MaxCatchup \in Nat
           /\ Deadline(d) = Due(d) + MaxCatchup
           /\ Due(d) + MaxCatchup < Due(n)
  BY <1>4, <1>6, <1>7, <1>9
<1> QED BY <1>5, <1>8, <1>9

\* An instant at which d may be executed lies from when d is due until d's
\* deadline or the end of its grace period.
LEMMA WindowBounds ==
  ASSUME NEW d, NEW t, ShouldRun(Evaluate(d, t, {}))
  PROVE  /\ d \in TradingDays
         /\ ~ (t < Due(d))
         /\ t - Due(d) <= Grace \/ t < Deadline(d)
BY DEF ShouldRun, Evaluate

\* Two sessions are never executable at the same instant.
LEMMA WindowsDisjoint ==
  ASSUME NEW d \in TradingDays, NEW e \in TradingDays, NEW t \in Int, d < e,
         ShouldRun(Evaluate(d, t, {})), ShouldRun(Evaluate(e, t, {}))
  PROVE  FALSE
<1>1. Due(d) \in Int /\ Due(e) \in Int /\ Grace \in Int
  BY Clock, PolicyAssumption
<1>2. ~ (t < Due(e))
  BY WindowBounds
<1>3. CASE t < Deadline(d)
  BY <1>2, <1>3, DeadlineBeforeLaterSessions
<1>4. CASE t - Due(d) <= Grace
  BY <1>1, <1>2, <1>4, GraceAssumption
<1> QED BY <1>3, <1>4, WindowBounds

\* The clock of every behaviour is an integer: it starts at DayTicks and ticks.
LEMMA ClockIsInt == Spec => [](now \in Int)
<1>1. Init => now \in Int
  BY ClockAssumption DEF Init
<1>2. now \in Int /\ [Next]_vars => (now \in Int)'
  BY DEF Next, vars, Tick, HealthCheck, Plan, Name, Decided, Proceed, LeaveAlone,
         Settle, Settles, Begin, Executes, Finish, Refused, Notify, Crash
<1> QED BY <1>1, <1>2, PTL DEF Spec

\* At no instant of any behaviour may two sessions of a cohort be executed.
THEOREM WindowsNeverOverlap == Spec => []OneWindow
<1>1. now \in Int => OneWindow
  <2> SUFFICES ASSUME now \in Int,
                      NEW d \in TradingDays, NEW e \in TradingDays,
                      ShouldRun(Evaluate(d, now, {})), ShouldRun(Evaluate(e, now, {}))
               PROVE  d = e
    BY DEF OneWindow
  <2>1. d \in Nat /\ e \in Nat
    BY CalendarAssumption
  <2>2. ~ (d < e) /\ ~ (e < d)
    BY WindowsDisjoint
  <2> QED BY <2>1, <2>2
<1> QED BY <1>1, ClockIsInt, PTL

-----------------------------------------------------------------------------
(* Types: every session an invocation or a health check is about is one of *)
(* the days that pass.                                                     *)

LEMMA PlannedDayIsADay ==
  ASSUME now \in 0..Days * DayTicks - 1
  PROVE  PlannedDay(now) \in 1..Days
BY TodayIsADay, MostRecentDueIsADay DEF PlannedDay

\* The health report is about one of the days that have begun, or about none.
LEMMA FocusIsADay ==
  ASSUME now \in 0..Days * DayTicks - 1, Focus(now, runs) # NoDay
  PROVE  Focus(now, runs) \in 1..Days
<1>1. Today(now) \in 1..Days
  BY TodayIsADay
<1>2. CASE MostRecentDue(now) = NoDay
  BY <1>1, <1>2 DEF Focus
<1>3. CASE MostRecentDue(now) # NoDay
  <2> DEFINE due == MostRecentDue(now)
             earlier == TradingDaysBefore(due)
             open == Unresolved(Window(now), now, runs)
  <2>1. due \in 1..Days
    BY <1>3, MostRecentDueIsADay
  <2>2. CASE open = {}
    BY <1>1, <1>3, <2>1, <2>2 DEF Focus
  <2>3. CASE open # {}
    <3>1. earlier \in SUBSET Nat /\ (\A e \in earlier : e \in Nat /\ e # 0 /\ e < due)
      BY CalendarAssumption DEF TradingDaysBefore
    <3>2. earlier # {} => Latest(earlier) \in earlier
      <4> HIDE DEF earlier, due
      <4>1. due \in Nat /\ \A e \in earlier : e <= due
        BY <2>1, <3>1
      <4> QED BY <3>1, <4>1, LatestIsGreatest
    <3>3. earlier # {} => Latest(earlier) \in 1..Days
      <4>1. due \in Nat /\ due <= Days /\ Days \in Nat
        BY <2>1, CalendarAssumption
      <4> HIDE DEF earlier, due
      <4>2. SUFFICES ASSUME earlier # {} PROVE Latest(earlier) \in 1..Days
        OBVIOUS
      <4>3. Latest(earlier) \in Nat /\ Latest(earlier) # 0 /\ Latest(earlier) < due
        BY <3>1, <3>2, <4>2
      <4> QED BY <4>1, <4>3
    <3>4. Window(now) \subseteq 1..Days
      <4>1. Window(now) \subseteq {due} \union (IF earlier = {} THEN {} ELSE {Latest(earlier)})
        BY DEF Window
      <4> HIDE DEF earlier, due
      <4> QED BY <2>1, <3>3, <4>1
    <3>5. open \subseteq 1..Days /\ open \in SUBSET Nat
      BY <3>4 DEF Unresolved
    <3>6. Focus(now, runs) = Earliest(open)
      BY <1>3, <2>3 DEF Focus
    <3>7. Earliest(open) \in open
      <4> HIDE DEF open
      <4> QED BY <2>3, <3>5, EarliestIsLeast
    <3> HIDE DEF open
    <3> QED BY <3>5, <3>6, <3>7
  <2> QED BY <2>2, <2>3
<1> QED BY <1>2, <1>3

LEMMA VerdictOf ==
  /\ \A d, t, completed : Evaluate(d, t, completed) \in Verdicts
  /\ PlannedVerdict(now, Completed) \in Verdicts
BY DEF Evaluate, PlannedVerdict, Verdicts

-----------------------------------------------------------------------------
(* The inductive invariant                                                 *)

\* An invocation under way is about a day that passes.
Working == \A r \in Runners : job[r].at # "idle" => job[r].day \in 1..Days

\* A session that is executing has one owner and a running row.
Exclusive ==
  \A r \in Runners : job[r].at = "executing" =>
    /\ runs[job[r].day] = "running"
    /\ \A q \in Runners : job[q].at = "executing" /\ job[q].day = job[r].day => q = r

\* The report an invocation is about to alert still describes its session's run.
ReportsStayTrue ==
  \A r \in Runners : job[r].at = "alerting" =>
    \A kind \in job[r].report \ {"missed"} : kind \in KindForRun(job[r].day)

IInv == TypeOK /\ Working /\ Exclusive /\ ReportsStayTrue /\ AlertsStayTrue

Jobs == [Runners -> [at : {"idle", "decided", "executing", "alerting"},
                     day : 1..Days \union {NoDay}, verdict : Verdicts,
                     report : SUBSET AlertKind]]

LEMMA KindsOfARun ==
  /\ \A d : KindForRun(d) \subseteq AlertKind
  /\ \A status, ranLate : KindFor(status, ranLate) \subseteq AlertKind
  /\ \A d : runs[d] \notin {"completed", "partial", "failed"}
              => KindForRun(d) \subseteq {"missed"}
BY DEF KindForRun, KindFor, AlertKind

\* What a run is worth, "missed" apart, is not lost when a run that has not
\* finished changes.
LEMMA UnfinishedMayChange ==
  ASSUME NEW c \in 1..Days, runs[c] \notin {"completed", "partial", "failed"},
         \A d \in 1..Days : d # c => runs'[d] = runs[d] /\ (d \in late' <=> d \in late)
  PROVE  \A d \in 1..Days : KindForRun(d) \ {"missed"} \subseteq KindForRun(d)'
<1> SUFFICES ASSUME NEW d \in 1..Days, NEW kind \in KindForRun(d) \ {"missed"}
             PROVE  kind \in KindForRun(d)'
  OBVIOUS
<1>1. d # c
  BY KindsOfARun
<1>2. runs'[d] = runs[d] /\ (d \in late' <=> d \in late)
  BY <1>1
<1>3. kind \in KindFor(runs[d], d \in late)
  BY DEF KindForRun
<1>4. kind \in KindFor(runs'[d], d \in late')
  BY <1>2, <1>3 DEF KindFor
<1> QED BY <1>4 DEF KindForRun

\* Nothing is lost when no run changes.
LEMMA UnchangedRuns ==
  UNCHANGED << runs, late >> =>
    \A d \in 1..Days : KindForRun(d) \ {"missed"} \subseteq KindForRun(d)'
BY DEF KindForRun

\* The alerts stay true if what the runs are worth is not lost and every new
\* alert describes its session's run.
LEMMA TrueAlertsMayBeSent ==
  ASSUME AlertsStayTrue, NEW c, NEW kinds,
         \A d \in 1..Days : KindForRun(d) \ {"missed"} \subseteq KindForRun(d)',
         \A kind \in kinds \ {"missed"} : kind \in KindForRun(c)',
         alerts' = alerts \union ({c} \X kinds)
  PROVE  AlertsStayTrue'
<1> SUFFICES ASSUME NEW d \in 1..Days, NEW kind \in AlertKind \ {"missed"},
                    << d, kind >> \in alerts'
             PROVE  kind \in KindForRun(d)'
  BY DEF AlertsStayTrue
<1>1. CASE << d, kind >> \in alerts
  BY <1>1 DEF AlertsStayTrue
<1>2. CASE << d, kind >> \in {c} \X kinds
  BY <1>2
<1> QED BY <1>1, <1>2

LEMMA AlertsKept ==
  ASSUME AlertsStayTrue, alerts' = alerts,
         \A d \in 1..Days : KindForRun(d) \ {"missed"} \subseteq KindForRun(d)'
  PROVE  AlertsStayTrue'
BY DEF AlertsStayTrue

\* What an invocation does to its own state keeps Working and the reports, if its
\* own report is true, and Exclusive unless it begins to execute.
LEMMA OwnStep ==
  ASSUME TypeOK, Working, ReportsStayTrue, NEW r \in Runners,
         NEW at \in {"idle", "decided", "executing", "alerting"},
         NEW d \in 1..Days \union {NoDay},
         NEW verdict \in Verdicts, NEW report \in SUBSET AlertKind,
         at # "idle" => d \in 1..Days,
         at = "alerting" => \A kind \in report \ {"missed"} : kind \in KindForRun(d)',
         \A e \in 1..Days : KindForRun(e) \ {"missed"} \subseteq KindForRun(e)',
         job' = [job EXCEPT ![r] = [at |-> at, day |-> d, verdict |-> verdict, report |-> report]]
  PROVE  /\ job' \in Jobs
         /\ Working'
         /\ ReportsStayTrue'
         /\ Exclusive /\ at # "executing"
              /\ (\A e \in 1..Days : (\E q \in Runners \ {r} :
                                         job[q].at = "executing" /\ job[q].day = e)
                                       => runs'[e] = runs[e])
            => Exclusive'
<1>1. job'[r] = [at |-> at, day |-> d, verdict |-> verdict, report |-> report]
  BY DEF TypeOK
<1>2. \A q \in Runners : q # r => job'[q] = job[q]
  BY DEF TypeOK
<1>3. job' \in Jobs
  BY DEF TypeOK, Jobs
<1>4. Working'
  BY <1>1, <1>2 DEF Working
<1>5. ReportsStayTrue'
  <2> SUFFICES ASSUME NEW q \in Runners, job'[q].at = "alerting",
                      NEW kind \in job'[q].report \ {"missed"}
               PROVE  kind \in KindForRun(job[q].day)'
    BY DEF ReportsStayTrue
  <2>1. PICK e : e = job'[q].day
    OBVIOUS
  <2>2. kind \in KindForRun(e)'
    <3>1. CASE q = r
      BY <1>1, <2>1, <3>1
    <3>2. CASE q # r
      <4>1. job'[q] = job[q] /\ e = job[q].day /\ e \in 1..Days
        BY <1>2, <2>1, <3>2 DEF Working
      <4>2. kind \in KindForRun(e) \ {"missed"}
        BY <4>1 DEF ReportsStayTrue
      <4> QED BY <4>1, <4>2
    <3> QED BY <3>1, <3>2
  <2> QED BY <2>1, <2>2 DEF KindForRun
<1>6. SUFFICES ASSUME Exclusive, at # "executing",
                      \A e \in 1..Days : (\E q \in Runners \ {r} :
                          job[q].at = "executing" /\ job[q].day = e) => runs'[e] = runs[e]
               PROVE  Exclusive'
  BY <1>3, <1>4, <1>5
<1>7. \A q \in Runners : job'[q].at = "executing" => q # r /\ job'[q] = job[q]
  BY <1>1, <1>2, <1>6
<1>8. \A q \in Runners : job'[q].at = "executing" => runs'[job'[q].day] = "running"
  BY <1>6, <1>7 DEF Exclusive, Working
<1> QED BY <1>6, <1>7, <1>8 DEF Exclusive

\* The same for a step that leaves the runs alone, or begins to execute one, and
\* leaves nothing to report.
LEMMA QuietStep ==
  ASSUME TypeOK, Working, ReportsStayTrue, NEW r \in Runners,
         NEW at \in {"idle", "decided", "executing"},
         NEW d \in 1..Days \union {NoDay}, NEW verdict \in Verdicts,
         at # "idle" => d \in 1..Days,
         \A e \in 1..Days : KindForRun(e) \ {"missed"} \subseteq KindForRun(e)',
         job' = [job EXCEPT ![r] = [at |-> at, day |-> d, verdict |-> verdict, report |-> {}]]
  PROVE  /\ job' \in Jobs
         /\ Working'
         /\ ReportsStayTrue'
         /\ Exclusive /\ at # "executing" /\ runs' = runs => Exclusive'
<1>1. PICK report \in SUBSET AlertKind : report = {}
  OBVIOUS
<1>2. at \in {"idle", "decided", "executing", "alerting"} /\ at # "alerting"
  OBVIOUS
<1>3. job' = [job EXCEPT ![r] = [at |-> at, day |-> d, verdict |-> verdict, report |-> report]]
  BY <1>1
<1> QED BY <1>2, <1>3, OwnStep

\* An invocation whose run has come back alerts it or is idle again.
LEMMA ReportsForm ==
  ASSUME NEW r \in Runners, NEW kinds \in SUBSET AlertKind, job[r].day \in 1..Days, Reports(r, kinds)
  PROVE  \E at \in {"idle", "alerting"}, d \in 1..Days \union {NoDay}, report \in SUBSET AlertKind :
           /\ at = "alerting" => d = job[r].day /\ report = kinds
           /\ job' = [job EXCEPT ![r] =
                        [at |-> at, day |-> d, verdict |-> "pending", report |-> report]]
<1>1. CASE kinds = {}
  <2>1. job' = [job EXCEPT ![r] = [at |-> "idle", day |-> NoDay, verdict |-> "pending", report |-> {}]]
    BY <1>1 DEF Reports, Idle
  <2> QED BY <2>1
<1>2. CASE kinds # {}
  BY <1>2 DEF Reports, At
<1> QED BY <1>1, <1>2

-----------------------------------------------------------------------------
(* Each action preserves the invariant                                     *)

LEMMA TickStep == IInv /\ Tick => IInv'
<1> SUFFICES ASSUME IInv, Tick PROVE IInv'
  OBVIOUS
<1>1. TypeOK'
  <2>1. now' \in 0..Days * DayTicks - 1
    BY CalendarAssumption, ClockAssumption DEF IInv, TypeOK, Tick
  <2> QED BY <2>1 DEF IInv, TypeOK, Tick
<1>2. Working' /\ Exclusive'
  BY DEF IInv, Tick, Working, Exclusive
<1>3. AlertsStayTrue' /\ ReportsStayTrue'
  BY DEF IInv, Tick, AlertsStayTrue, ReportsStayTrue, KindForRun
<1> QED BY <1>1, <1>2, <1>3 DEF IInv

LEMMA HealthCheckStep == IInv /\ HealthCheck => IInv'
<1> SUFFICES ASSUME IInv, HealthCheck PROVE IInv'
  OBVIOUS
<1>1. PICK f \in 1..Days : f = Focus(now, runs)
  BY FocusIsADay DEF IInv, TypeOK, HealthCheck
<1>2. PICK kinds \in SUBSET AlertKind : kinds = KindForState(Health(now, runs))
  BY DEF KindForState, AlertKind
<1>3. \A kind \in kinds \ {"missed"} : kind \in KindForRun(f)
  <2> SUFFICES ASSUME NEW kind \in kinds, kind # "missed" PROVE kind \in KindForRun(f)
    OBVIOUS
  <2>1. kind \in {"partial", "failed"} /\ Health(now, runs) = kind
    BY <1>2 DEF KindForState
  <2>2. Health(now, runs) = StateOf(f, now, runs)
    BY <1>1 DEF HealthCheck, Health
  <2>3. f \in DOMAIN runs
    BY <1>1 DEF IInv, TypeOK
  <2> DEFINE verdict == Evaluate(f, now, CompletedDays(runs))
  <2>4. StateFor(verdict, runs[f]) = kind
    BY <2>1, <2>2, <2>3 DEF StateOf
  <2>5. verdict \in Verdicts
    BY VerdictOf
  <2> HIDE DEF verdict
  <2>6. runs[f] = kind
    BY <2>1, <2>4, <2>5 DEF StateFor, TerminalRun, Verdicts
  <2> QED BY <2>1, <2>6 DEF KindForRun, KindFor
<1>4. alerts' = alerts \union ({f} \X kinds) /\ UNCHANGED << now, runs, late, job >>
  BY <1>1, <1>2 DEF HealthCheck
<1>5. \A kind \in kinds \ {"missed"} : kind \in KindForRun(f)'
  BY <1>3, <1>4 DEF KindForRun
<1>6. TypeOK'
  BY <1>1, <1>2, <1>4 DEF IInv, TypeOK
<1>7. Working' /\ Exclusive' /\ ReportsStayTrue'
  BY <1>4 DEF IInv, Working, Exclusive, ReportsStayTrue, KindForRun
<1>8. AlertsStayTrue'
  BY <1>4, <1>5, UnchangedRuns, TrueAlertsMayBeSent DEF IInv
<1> QED BY <1>6, <1>7, <1>8 DEF IInv

LEMMA DecidedStep ==
  ASSUME IInv, NEW r \in Runners, Plan(r) \/ Name(r)
  PROVE  IInv'
<1>1. PICK d \in 1..Days, verdict \in Verdicts : Decided(r, d, verdict)
  <2>1. CASE Plan(r)
    <3>1. PlannedDay(now) \in 1..Days
      BY PlannedDayIsADay DEF IInv, TypeOK
    <3> QED BY <2>1, <3>1, VerdictOf DEF Plan
  <2>2. CASE Name(r)
    BY <2>2, VerdictOf, ScheduleAssumption DEF Name
  <2> QED BY <2>1, <2>2
<1>2. /\ job' = [job EXCEPT ![r] = [at |-> "decided", day |-> d, verdict |-> verdict, report |-> {}]]
      /\ UNCHANGED << now, runs, late, alerts >>
  BY <1>1 DEF Decided
<1>3. TypeOK /\ Working /\ Exclusive /\ ReportsStayTrue /\ AlertsStayTrue
  BY DEF IInv
<1>4. job' \in Jobs /\ Working' /\ Exclusive' /\ ReportsStayTrue'
  BY <1>2, <1>3, UnchangedRuns, QuietStep
<1>5. AlertsStayTrue'
  BY <1>2, <1>3, UnchangedRuns, AlertsKept
<1> QED BY <1>2, <1>3, <1>4, <1>5 DEF IInv, TypeOK, Jobs

\* The run of a session nobody owns, or the invocation owns itself, comes back
\* with a status its row takes.
LEMMA ComesBackStep ==
  ASSUME IInv, NEW r \in Runners, NEW c \in 1..Days, c = job[r].day,
         NEW status \in RunStatus, NEW kinds \in SUBSET AlertKind,
         \/ runs[c] \notin {"completed", "partial", "failed"}
         \/ runs[c] = status /\ late' = late,
         \A q \in Runners \ {r} : ~ (job[q].at = "executing" /\ job[q].day = c),
         runs' = [runs EXCEPT ![c] = status],
         late' \in SUBSET (1..Days),
         late' \ {c} = late \ {c},
         kinds \subseteq KindForRun(c)',
         Reports(r, kinds),
         UNCHANGED << now, alerts >>
  PROVE  IInv'
<1>1. TypeOK /\ Working /\ Exclusive /\ ReportsStayTrue /\ AlertsStayTrue
  BY DEF IInv
<1>2. PICK at \in {"idle", "alerting"}, d \in 1..Days \union {NoDay}, report \in SUBSET AlertKind :
        /\ at = "alerting" => d = c /\ report = kinds
        /\ job' = [job EXCEPT ![r] =
                     [at |-> at, day |-> d, verdict |-> "pending", report |-> report]]
  BY ReportsForm
<1>3. \A e \in 1..Days : e # c => runs'[e] = runs[e] /\ (e \in late' <=> e \in late)
  BY <1>1 DEF TypeOK
<1>4. \A e \in 1..Days : KindForRun(e) \ {"missed"} \subseteq KindForRun(e)'
  <2>1. CASE runs[c] \notin {"completed", "partial", "failed"}
    BY <1>3, <2>1, UnfinishedMayChange
  <2>2. CASE runs[c] = status /\ late' = late
    <3>1. runs' = runs
      BY <1>1, <2>2 DEF TypeOK
    <3> QED BY <2>2, <3>1, UnchangedRuns
  <2> QED BY <2>1, <2>2
<1>5. runs' \in [1..Days -> RunStatus]
  BY <1>1 DEF TypeOK
<1>6. \A e \in 1..Days : (\E q \in Runners \ {r} : job[q].at = "executing" /\ job[q].day = e)
                          => runs'[e] = runs[e]
  BY <1>3
<1>7. AlertsStayTrue'
  BY <1>1, <1>4, AlertsKept
<1>8. job' \in Jobs /\ Working' /\ Exclusive' /\ ReportsStayTrue'
  <2>1. at \in {"idle", "decided", "executing", "alerting"} /\ at # "executing"
    OBVIOUS
  <2>2. (at # "idle" => d \in 1..Days) /\ "pending" \in Verdicts
    BY <1>2 DEF Verdicts
  <2>3. at = "alerting" => \A kind \in report \ {"missed"} : kind \in KindForRun(d)'
    BY <1>2
  <2> QED BY <1>1, <1>2, <1>4, <1>6, <2>1, <2>2, <2>3, OwnStep
<1> QED BY <1>1, <1>5, <1>7, <1>8 DEF IInv, TypeOK, Jobs

LEMMA SettlesStep ==
  ASSUME IInv, NEW r \in Runners, Deciding(r), NEW status \in RunStatus, Settles(r, status),
         ~ Terminal(job[r].day) \/ status = runs[job[r].day]
  PROVE  IInv'
<1>1. PICK c \in 1..Days, kinds \in SUBSET AlertKind :
        c = job[r].day /\ kinds = KindFor(status, c \in late)
  BY KindsOfARun DEF IInv, Working, Deciding
<1>2. /\ runs' = [runs EXCEPT ![c] = status]
      /\ Reports(r, kinds)
      /\ UNCHANGED << now, late, alerts >>
  BY <1>1 DEF Settles
<1>3. \A q \in Runners : ~ (job[q].at = "executing" /\ job[q].day = c)
  BY <1>1 DEF Deciding, Owned
<1>4. runs[c] \notin {"completed", "partial", "failed"} \/ runs[c] = status
  BY <1>1 DEF Terminal, TerminalRun
<1>5. late' = late /\ late' \in SUBSET (1..Days)
  BY <1>2 DEF IInv, TypeOK
<1>6. kinds \subseteq KindForRun(c)'
  <2>1. runs'[c] = status
    BY <1>2 DEF IInv, TypeOK
  <2>2. kinds = KindFor(runs'[c], c \in late')
    BY <1>1, <1>5, <2>1
  <2> QED BY <2>2 DEF KindForRun
<1> QED BY <1>1, <1>2, <1>3, <1>4, <1>5, <1>6, ComesBackStep

LEMMA LeaveAloneStep ==
  ASSUME IInv, NEW r \in Runners, LeaveAlone(r)
  PROVE  IInv'
<1>1. job[r].day \in 1..Days
  BY DEF IInv, Working, LeaveAlone, Deciding
<1>2. runs[job[r].day] \in RunStatus
  BY <1>1 DEF IInv, TypeOK
<1> QED BY <1>2, SettlesStep DEF LeaveAlone

LEMMA SettleStep ==
  ASSUME IInv, NEW r \in Runners, Settle(r)
  PROVE  IInv'
<1>1. PICK status \in RunStatus : Settles(r, status)
  BY DEF Settle, RunStatus, TerminalRun
<1> QED BY <1>1, SettlesStep DEF Settle

LEMMA BeginStep ==
  ASSUME IInv, NEW r \in Runners, Begin(r)
  PROVE  IInv'
<1>1. PICK c \in 1..Days : c = job[r].day /\ job[r].at = "decided"
  BY DEF IInv, Working, Begin, Deciding
<1>2. PICK verdict \in Verdicts : verdict = IF now - Due(c) <= Grace THEN "due" ELSE "late"
  BY DEF Verdicts
<1>3. TypeOK /\ Working /\ Exclusive /\ ReportsStayTrue /\ AlertsStayTrue
  BY DEF IInv
<1>4. /\ job' = [job EXCEPT ![r] = [at |-> "executing", day |-> c, verdict |-> verdict,
                                    report |-> {}]]
      /\ runs' = [runs EXCEPT ![c] = "running"]
      /\ UNCHANGED << now, late, alerts >>
  BY <1>1, <1>2 DEF Begin, Executes, At
<1>5. \A q \in Runners : ~ (job[q].at = "executing" /\ job[q].day = c)
  BY <1>1 DEF Begin, Deciding, Owned
<1>6. runs[c] \notin {"completed", "partial", "failed"}
  BY <1>1 DEF Begin, Terminal, TerminalRun
<1>7. "running" \in RunStatus
  BY DEF RunStatus
<1>8. \A d \in 1..Days : KindForRun(d) \ {"missed"} \subseteq KindForRun(d)'
  <2>1. \A d \in 1..Days : d # c => runs'[d] = runs[d] /\ (d \in late' <=> d \in late)
    BY <1>3, <1>4 DEF TypeOK
  <2> QED BY <1>1, <1>6, <2>1, UnfinishedMayChange
<1>9. TypeOK' /\ Working' /\ ReportsStayTrue'
  <2>1. Working' /\ ReportsStayTrue' /\ job' \in Jobs
    BY <1>1, <1>3, <1>4, <1>8, QuietStep
  <2>2. runs' \in [1..Days -> RunStatus]
    BY <1>3, <1>4, <1>7 DEF TypeOK
  <2> QED BY <1>3, <1>4, <2>1, <2>2 DEF TypeOK, Jobs
<1>10. Exclusive'
  <2>1. job'[r].at = "executing" /\ job'[r].day = c /\ \A q \in Runners : q # r => job'[q] = job[q]
    BY <1>3, <1>4 DEF TypeOK
  <2>2. runs'[c] = "running" /\ \A e \in 1..Days : e # c => runs'[e] = runs[e]
    BY <1>1, <1>3, <1>4 DEF TypeOK
  <2>3. SUFFICES ASSUME NEW p \in Runners, job'[p].at = "executing"
                 PROVE  /\ runs'[job'[p].day] = "running"
                        /\ \A q \in Runners : job'[q].at = "executing" /\ job'[q].day = job'[p].day
                                             => q = p
    BY DEF Exclusive
  <2>4. CASE p = r
    BY <1>5, <2>1, <2>2, <2>4
  <2>5. CASE p # r
    <3>1. job[p].at = "executing" /\ job[p].day \in 1..Days /\ job[p].day # c
      BY <1>3, <1>5, <2>1, <2>3, <2>5 DEF Working
    <3> QED BY <1>3, <2>1, <2>2, <2>5, <3>1 DEF Exclusive
  <2> QED BY <2>4, <2>5
<1>11. AlertsStayTrue'
  BY <1>3, <1>4, <1>8, AlertsKept
<1> QED BY <1>9, <1>10, <1>11 DEF IInv

LEMMA FinishStep ==
  ASSUME IInv, NEW r \in Runners, Finish(r)
  PROVE  IInv'
<1>1. PICK c \in 1..Days, ranLate \in BOOLEAN :
        c = job[r].day /\ job[r].at = "executing" /\ ranLate = (job[r].verdict = "late")
  BY DEF IInv, Working, Finish
<1>2. PICK status \in RunStatus :
        /\ runs' = [runs EXCEPT ![c] = status]
        /\ late' = IF status = "completed" /\ ranLate THEN late \union {c} ELSE late \ {c}
        /\ Reports(r, KindFor(status, ranLate))
  BY <1>1 DEF Finish, RunStatus, TerminalRun
<1>3. PICK kinds \in SUBSET AlertKind : kinds = KindFor(status, ranLate)
  BY KindsOfARun
<1>4. UNCHANGED << now, alerts >>
  BY DEF Finish
<1>5. runs[c] = "running"
  BY <1>1 DEF IInv, Exclusive
<1>6. /\ runs[c] \notin {"completed", "partial", "failed"}
      /\ \A q \in Runners \ {r} : ~ (job[q].at = "executing" /\ job[q].day = c)
  BY <1>1, <1>5 DEF IInv, Exclusive
<1>7. kinds \subseteq KindForRun(c)'
  <2>1. runs'[c] = status
    BY <1>1, <1>2 DEF IInv, TypeOK
  <2>2. CASE status = "completed"
    <3>1. c \in late' <=> ranLate
      BY <1>2, <2>2
    <3>2. KindFor(status, ranLate) = KindFor(runs'[c], c \in late')
      BY <2>1, <3>1 DEF KindFor
    <3> QED BY <1>3, <3>2 DEF KindForRun
  <2>3. CASE status # "completed"
    <3>1. KindFor(status, ranLate) = KindFor(runs'[c], c \in late')
      BY <2>1, <2>3 DEF KindFor
    <3> QED BY <1>3, <3>1 DEF KindForRun
  <2> QED BY <2>2, <2>3
<1>8. late' \in SUBSET (1..Days) /\ late' \ {c} = late \ {c}
  BY <1>1, <1>2 DEF IInv, TypeOK
<1>9. Reports(r, kinds)
  BY <1>2, <1>3
<1>10. c = job[r].day /\ runs' = [runs EXCEPT ![c] = status]
  BY <1>1, <1>2
<1> QED BY <1>4, <1>6, <1>7, <1>8, <1>9, <1>10, ComesBackStep

\* The steps that only end an invocation or move it to its alert.
LEMMA RefusedStep ==
  ASSUME IInv, NEW r \in Runners, Refused(r)
  PROVE  IInv'
<1>1. PICK c \in 1..Days, kinds \in SUBSET AlertKind :
        c = job[r].day /\ kinds = KindForRun(c)
  BY KindsOfARun DEF IInv, Working, Refused
<1>2. Reports(r, kinds) /\ UNCHANGED << now, runs, late, alerts >>
  BY <1>1 DEF Refused
<1>3. TypeOK /\ Working /\ Exclusive /\ ReportsStayTrue /\ AlertsStayTrue
  BY DEF IInv
<1>4. "pending" \in Verdicts
  BY DEF Verdicts
<1>5. PICK at \in {"idle", "alerting"}, d \in 1..Days \union {NoDay}, report \in SUBSET AlertKind :
        /\ at = "alerting" => d = c /\ report = kinds
        /\ job' = [job EXCEPT ![r] =
                     [at |-> at, day |-> d, verdict |-> "pending", report |-> report]]
  BY <1>1, <1>2, ReportsForm
<1>6. at = "alerting" => \A kind \in report \ {"missed"} : kind \in KindForRun(d)'
  BY <1>1, <1>2, <1>5 DEF KindForRun
<1>7. job' \in Jobs /\ Working' /\ Exclusive' /\ ReportsStayTrue'
  <2>1. at \in {"idle", "decided", "executing", "alerting"} /\ at # "executing"
        /\ (at # "idle" => d \in 1..Days)
    BY <1>1, <1>5
  <2>2. \A e \in 1..Days : KindForRun(e) \ {"missed"} \subseteq KindForRun(e)'
    BY <1>2, UnchangedRuns
  <2> QED BY <1>2, <1>3, <1>4, <1>5, <1>6, <2>1, <2>2, OwnStep
<1>8. AlertsStayTrue'
  BY <1>2, <1>3, UnchangedRuns, AlertsKept
<1> QED BY <1>2, <1>3, <1>7, <1>8 DEF IInv, TypeOK, Jobs

LEMMA CrashStep ==
  ASSUME IInv, NEW r \in Runners, Crash(r)
  PROVE  IInv'
<1>1. /\ job' = [job EXCEPT ![r] = [at |-> "idle", day |-> NoDay, verdict |-> "pending",
                                    report |-> {}]]
      /\ UNCHANGED << now, runs, late, alerts >>
  BY DEF Crash, Idle
<1>2. TypeOK /\ Working /\ Exclusive /\ ReportsStayTrue /\ AlertsStayTrue /\ "pending" \in Verdicts
  BY DEF IInv, Verdicts
<1>3. job' \in Jobs /\ Working' /\ Exclusive' /\ ReportsStayTrue'
  BY <1>1, <1>2, UnchangedRuns, QuietStep
<1>4. AlertsStayTrue'
  BY <1>1, <1>2, UnchangedRuns, AlertsKept
<1> QED BY <1>1, <1>2, <1>3, <1>4 DEF IInv, TypeOK, Jobs

LEMMA NotifyStep ==
  ASSUME IInv, NEW r \in Runners, Notify(r)
  PROVE  IInv'
<1>1. PICK c \in 1..Days, kinds \in SUBSET AlertKind : c = job[r].day /\ kinds = job[r].report
  BY DEF IInv, TypeOK, Working, Notify
<1>2. /\ job' = [job EXCEPT ![r] = [at |-> "idle", day |-> NoDay, verdict |-> "pending",
                                    report |-> {}]]
      /\ alerts' = alerts \union ({c} \X kinds)
      /\ UNCHANGED << now, runs, late >>
  BY <1>1 DEF Notify, Idle
<1>3. TypeOK /\ Working /\ Exclusive /\ ReportsStayTrue /\ AlertsStayTrue /\ "pending" \in Verdicts
  BY DEF IInv, Verdicts
<1>4. \A kind \in kinds \ {"missed"} : kind \in KindForRun(c)'
  <2>1. \A kind \in kinds \ {"missed"} : kind \in KindForRun(c)
    BY <1>1, <1>3 DEF ReportsStayTrue, Notify
  <2> QED BY <1>2, <2>1 DEF KindForRun
<1>5. AlertsStayTrue'
  BY <1>2, <1>3, <1>4, UnchangedRuns, TrueAlertsMayBeSent
<1>6. alerts' \in SUBSET ((1..Days) \X AlertKind)
  BY <1>1, <1>2, <1>3 DEF TypeOK
<1>7. job' \in Jobs /\ Working' /\ Exclusive' /\ ReportsStayTrue'
  BY <1>2, <1>3, UnchangedRuns, QuietStep
<1> QED BY <1>2, <1>3, <1>5, <1>6, <1>7 DEF IInv, TypeOK, Jobs

-----------------------------------------------------------------------------
(* The theorems                                                            *)

\* The invariant the theorems below rest on holds in every behaviour.
THEOREM Invariance == Spec => []IInv
<1>1. Init => IInv
  <2> SUFFICES ASSUME Init PROVE IInv
    OBVIOUS
  <2>1. now \in 0..Days * DayTicks - 1
    <3>1. DayTicks \in Nat /\ DayTicks > 0 /\ Days \in Nat /\ Days > 1
      BY CalendarAssumption, ClockAssumption, ScheduleAssumption
    <3>2. PICK x \in Nat : Days = x + 2
      BY <3>1
    <3>3. Days * DayTicks = x * DayTicks + DayTicks + DayTicks /\ x * DayTicks \in Nat
      BY <3>1, <3>2
    <3> QED BY <3>1, <3>3 DEF Init
  <2>2. TypeOK
    BY <2>1, ScheduleAssumption DEF Init, TypeOK, Idle, RunStatus, Verdicts
  <2>3. Working /\ Exclusive /\ ReportsStayTrue /\ AlertsStayTrue
    BY DEF Init, Idle, Working, Exclusive, ReportsStayTrue, AlertsStayTrue
  <2> QED BY <2>2, <2>3 DEF IInv
<1>2. IInv /\ [Next]_vars => IInv'
  <2> SUFFICES ASSUME IInv, [Next]_vars PROVE IInv'
    OBVIOUS
  <2>1. CASE Tick
    BY <2>1, TickStep
  <2>2. CASE HealthCheck
    BY <2>2, HealthCheckStep
  <2>3. ASSUME NEW r \in Runners, Plan(r) \/ Name(r) PROVE IInv'
    BY <2>3, DecidedStep
  <2>4. ASSUME NEW r \in Runners, Proceed(r) PROVE IInv'
    BY <2>4, LeaveAloneStep, SettleStep, BeginStep, FinishStep, RefusedStep, NotifyStep
       DEF Proceed
  <2>5. ASSUME NEW r \in Runners, Crash(r) PROVE IInv'
    BY <2>5, CrashStep
  <2>6. CASE UNCHANGED vars
    BY <2>6 DEF vars, IInv, TypeOK, Working, Exclusive, ReportsStayTrue, AlertsStayTrue,
               KindForRun
  <2> QED BY <2>1, <2>2, <2>3, <2>4, <2>5, <2>6 DEF Next
<1> QED BY <1>1, <1>2, PTL DEF Spec

\* Every variable keeps its type; the sessions that invocations and health
\* checks choose are always days of the calendar that have begun.
THEOREM TypeCorrect == Spec => []TypeOK
<1>1. IInv => TypeOK
  BY DEF IInv
<1> QED BY <1>1, Invariance, PTL

\* An alert about a finished run stays true for ever, whatever other
\* invocations, health checks and crashes follow it.
THEOREM AlertsAreNeverRetracted == Spec => []AlertsStayTrue
<1>1. IInv => AlertsStayTrue
  BY DEF IInv
<1> QED BY <1>1, Invariance, PTL

-----------------------------------------------------------------------------
(* What is owed and not completed is reported *)

\* No session of the exchange is ever recorded as a closed day.
Opened ==
  /\ DayTicks <= now
  /\ \A d \in 1..Days : runs[d] = "skipped-closed-session" => d \notin TradingDays
  /\ \A r \in Runners : job[r].at # "idle" /\ job[r].verdict = "skipped-closed-session" =>
       job[r].day \notin TradingDays

\* From the start of the clock on some session is due.
LEMMA ScanReaches ==
  ASSUME now \in 0..Days * DayTicks - 1, DayTicks <= now
  PROVE  DueSessions(now) # {}
<1>1. now \in DayTicks..Days * DayTicks - 1
  BY Clock
<1> QED BY <1>1, LookbackAssumption DEF LookbackReaches

LEMMA OpenedInit == Init => Opened
BY Clock DEF Init, Opened, Idle

\* An invocation that takes up a session knows a closed day when it sees one.
LEMMA DecidedOpened ==
  ASSUME IInv, Opened, NEW r \in Runners, Plan(r) \/ Name(r)
  PROVE  Opened'
<1>1. PICK d, verdict : Decided(r, d, verdict) /\ (verdict = "skipped-closed-session" => d \notin TradingDays)
  <2>1. CASE Plan(r)
    <3>1. MostRecentDue(now) # NoDay
      BY ScanReaches, MostRecentDueIsLatest DEF IInv, TypeOK, Opened
    <3>2. PlannedVerdict(now, Completed) = Evaluate(PlannedDay(now), now, Completed)
      BY <3>1 DEF PlannedVerdict, PlannedDay
    <3>3. Evaluate(PlannedDay(now), now, Completed) = "skipped-closed-session"
            => PlannedDay(now) \notin TradingDays
      BY DEF Evaluate
    <3> QED BY <2>1, <3>2, <3>3 DEF Plan
  <2>2. CASE Name(r)
    BY <2>2 DEF Name, Evaluate
  <2> QED BY <2>1, <2>2
<1>2. /\ UNCHANGED << now, runs >>
      /\ job' = [job EXCEPT ![r] = [at |-> "decided", day |-> d, verdict |-> verdict, report |-> {}]]
  BY <1>1 DEF Decided
<1>3. job'[r].day = d /\ job'[r].verdict = verdict /\ \A q \in Runners : q # r => job'[q] = job[q]
  BY <1>2 DEF IInv, TypeOK
<1> QED BY <1>1, <1>2, <1>3 DEF Opened

LEMMA ProceedOpened ==
  ASSUME IInv, Opened, NEW r \in Runners, Proceed(r) \/ Crash(r)
  PROVE  Opened'
<1>1. now' = now
  BY DEF Proceed, LeaveAlone, Settle, Settles, Begin, Executes, Finish, Refused, Notify, Crash
<1>2. /\ job'[r].at # "idle" => job'[r].verdict # "skipped-closed-session"
      /\ \A q \in Runners : q # r => job'[q] = job[q]
  <2>1. \A kinds : Reports(r, kinds) =>
          /\ job'[r].at # "idle" => job'[r].verdict # "skipped-closed-session"
          /\ \A q \in Runners : q # r => job'[q] = job[q]
    BY DEF Reports, At, Idle, IInv, TypeOK
  <2>2. CASE LeaveAlone(r) \/ Settle(r) \/ Finish(r) \/ Refused(r)
    BY <2>1, <2>2 DEF LeaveAlone, Settle, Settles, Finish, Refused
  <2>3. CASE Begin(r) \/ Notify(r) \/ Crash(r)
    BY <2>3 DEF Begin, Executes, At, Notify, Crash, Idle, IInv, TypeOK
  <2> QED BY <2>2, <2>3 DEF Proceed
<1>3. \A d \in 1..Days : runs'[d] = "skipped-closed-session" => d \notin TradingDays
  <2>1. CASE UNCHANGED runs
    BY <2>1 DEF Opened
  <2>2. ASSUME NEW status, Settles(r, status), job[r].at # "idle",
               \/ status = runs[job[r].day]
               \/ status = "skipped-closed-session" /\ job[r].verdict = "skipped-closed-session"
               \/ status \in {"pending", "missed"}
        PROVE  \A d \in 1..Days : runs'[d] = "skipped-closed-session" => d \notin TradingDays
    BY <2>2 DEF Settles, Opened, IInv, TypeOK
  <2>3. CASE LeaveAlone(r) \/ Settle(r)
    BY <2>2, <2>3 DEF LeaveAlone, Settle, Deciding
  <2>4. CASE Begin(r) \/ Finish(r)
    BY <2>4 DEF Begin, Executes, Finish, Opened, IInv, TypeOK
  <2>5. CASE Refused(r) \/ Notify(r) \/ Crash(r)
    BY <2>1, <2>5 DEF Refused, Notify, Crash
  <2> QED BY <2>3, <2>4, <2>5 DEF Proceed
<1> QED BY <1>1, <1>2, <1>3 DEF Opened

LEMMA OpenedStep == ASSUME IInv, Opened, [Next]_vars PROVE Opened'
<1>1. CASE Tick \/ HealthCheck \/ UNCHANGED vars
  <2>1. now' >= now /\ now' \in Int /\ now \in Int /\ UNCHANGED << runs, job >>
    BY <1>1, Clock DEF Tick, HealthCheck, vars, IInv, TypeOK
  <2> QED BY <2>1, Clock DEF Opened
<1> QED BY <1>1, DecidedOpened, ProceedOpened DEF Next

\* A session that has fallen due and is not completed calls for attention.
LEMMA OwedIsAttention ==
  ASSUME IInv, Opened, NEW d \in TradingDays, Due(d) <= now, d \notin Completed
  PROVE  d \in 1..Days /\ StateOf(d, now, runs) \in Attention
<1>1. now \in 0..Days * DayTicks - 1 /\ now \in Int
  BY Clock DEF IInv, TypeOK
<1>2. d <= MostRecentDue(now) /\ MostRecentDue(now) \in 1..Days
  BY <1>1, ScanReaches, MostRecentDueIsLatest, MostRecentDueIsADay DEF Opened
<1>3. d \in 1..Days /\ Days \in Nat
  BY <1>2, Clock
<1>4. runs[d] \in RunStatus \ {"completed", "skipped-closed-session"} /\ d \in DOMAIN runs
  BY <1>3 DEF Completed, CompletedDays, IInv, TypeOK, Opened
<1>5. Evaluate(d, now, CompletedDays(runs)) \in {"due", "late", "missed"}
  BY <1>1, Clock DEF Evaluate, Completed
<1> DEFINE verdict == Evaluate(d, now, CompletedDays(runs))
<1>6. StateOf(d, now, runs) = StateFor(verdict, runs[d])
  BY <1>4 DEF StateOf
<1> HIDE DEF verdict
<1>7. StateFor(verdict, runs[d]) \in Attention
  BY <1>4, <1>5 DEF StateFor, Attention, RunStatus, TerminalRun, verdict
<1> QED BY <1>3, <1>6, <1>7

\* Nothing that is owed is hidden, for every calendar, history and number of
\* invocations.
THEOREM NothingOwedIsHidden == Spec => []GapsAreVisible
<1>1. IInv /\ Opened => GapsAreVisible
  <2> SUFFICES ASSUME IInv, Opened PROVE GapsAreVisible
    OBVIOUS
  <2> DEFINE recent == MostRecentDue(now)
             owed == { d \in TradingDays : CohortStart <= d /\ Due(d) <= now }
             earlier == TradingDaysBefore(recent)
  <2>1. /\ recent \in TradingDays /\ recent # NoDay /\ Due(recent) <= now
        /\ \A d \in TradingDays : Due(d) <= now => d <= recent
        /\ now \in Int
    <3>1. now \in 0..Days * DayTicks - 1 /\ now \in Int
      BY Clock DEF IInv, TypeOK
    <3> QED BY <3>1, ScanReaches, MostRecentDueIsLatest DEF Opened
  <2> HIDE DEF recent
  <2>2. \A d \in TradingDays : d <= recent => Due(d) <= now
    <3> SUFFICES ASSUME NEW d \in TradingDays, d <= recent PROVE Due(d) <= now
      OBVIOUS
    <3>1. CASE d = recent
      BY <2>1, <3>1
    <3>2. CASE d # recent
      <4>1. d < recent /\ Due(d) \in Int /\ Due(recent) \in Int
        BY <2>1, <3>2, Clock
      <4> QED BY <2>1, <4>1, DueIncreases
    <3> QED BY <3>1, <3>2
  <2>3. Scanned(now) \ Completed \subseteq {Focus(now, runs)} \union History(now, runs)
    <3> SUFFICES ASSUME NEW d \in Scanned(now), d \notin Completed
                 PROVE  d = Focus(now, runs) \/ d \in History(now, runs)
      OBVIOUS
    <3>1. d \in TradingDays /\ d <= recent
      BY <2>1 DEF Scanned, recent
    <3>2. StateOf(d, now, runs) \in Attention
      BY <2>2, <3>1, OwedIsAttention
    <3> QED BY <3>2 DEF History, Unresolved
  <2>4. ASSUME NEW d \in owed, d \notin Completed, Cardinality({ e \in owed : d < e }) < 2
        PROVE  Health(now, runs) \in Attention
    <3>1. d \in TradingDays /\ CohortStart <= d /\ Due(d) <= now /\ d <= recent /\ d \in Nat
      BY <2>1, Clock
    <3>2. earlier \in SUBSET Nat /\ earlier \subseteq TradingDays /\ \A e \in earlier : e < recent
      BY Clock DEF TradingDaysBefore
    <3>3. earlier # {} => Latest(earlier) \in earlier /\ \A e \in earlier : e <= Latest(earlier)
      <4>1. recent \in Nat /\ \A e \in earlier : e <= recent
        BY <2>1, <3>2, Clock
      <4> HIDE DEF earlier
      <4> QED BY <3>2, <4>1, LatestIsGreatest
    <3>4. d \in Window(now)
      <4>1. CASE d = recent
        BY <3>1, <4>1 DEF Window, recent
      <4>2. CASE d # recent
        <5>1. d \in earlier
          BY <2>1, <3>1, <4>2, Clock DEF TradingDaysBefore
        <5> DEFINE l == Latest(earlier)
        <5>2. l \in TradingDays /\ d <= l /\ l < recent /\ l \in Nat /\ recent \in Nat
          BY <2>1, <3>2, <3>3, <5>1, Clock
        <5>3. l = d
          <6> SUFFICES ASSUME d < l PROVE FALSE
            BY <3>1, <5>2
          <6> DEFINE after == { e \in owed : d < e }
          <6>1. l \in after /\ recent \in after
            BY <2>1, <2>2, <3>1, <5>2, HealthAssumption
          <6>2. IsFiniteSet(after)
            BY CalendarAssumption, FS_Subset
          <6> HIDE DEF after, l
          <6>3. {l, recent} \in SUBSET after /\ l # recent
            BY <5>2, <6>1
          <6>4. Cardinality({l, recent}) = 2
            <7>1. IsFiniteSet({l}) /\ Cardinality({l}) = 1
              BY FS_Singleton
            <7>2. {l} \union {recent} = {l, recent} /\ recent \notin {l}
              BY <6>3
            <7> QED BY <7>1, <7>2, FS_AddElement
          <6>5. Cardinality({l, recent}) <= Cardinality(after) /\ Cardinality(after) \in Nat
            BY <6>2, <6>3, FS_Subset, FS_CardinalityType
          <6> QED BY <2>4, <6>4, <6>5 DEF after
        <5> QED BY <3>1, <5>1, <5>3 DEF Window, recent
      <4> QED BY <4>1, <4>2
    <3> DEFINE open == Unresolved(Window(now), now, runs)
    <3>5. d \in open
      BY <2>4, <3>1, <3>4, OwedIsAttention DEF Unresolved
    <3>6. open \in SUBSET Nat
      <4>1. Window(now) \subseteq {recent} \union (IF earlier = {} THEN {} ELSE {Latest(earlier)})
        BY DEF Window, recent
      <4> HIDE DEF earlier
      <4>2. Window(now) \subseteq Nat
        BY <2>1, <3>2, <3>3, <4>1, Clock
      <4> QED BY <4>2 DEF Unresolved
    <3>7. Focus(now, runs) = Earliest(open)
      BY <2>1, <3>5 DEF Focus, recent
    <3>8. Earliest(open) \in open
      <4> HIDE DEF open
      <4> QED BY <3>5, <3>6, EarliestIsLeast
    <3>9. Focus(now, runs) # NoDay /\ StateOf(Focus(now, runs), now, runs) \in Attention
      BY <3>6, <3>7, <3>8, CalendarAssumption DEF Unresolved
    <3> QED BY <3>9 DEF Health
  <2> QED BY <2>3, <2>4 DEF GapsAreVisible
<1>2. IInv /\ Opened /\ [Next]_vars => Opened'
  BY OpenedStep
<1> QED BY <1>1, <1>2, OpenedInit, Invariance, PTL DEF Spec

=============================================================================
