----------------------------- MODULE Scheduling -----------------------------
(***************************************************************************)
(* The pure calendar arithmetic of scheduling.py over a finite stretch of  *)
(* market_calendar.py: when a session is due, until when it may still be   *)
(* executed, and which session an invocation without a date is about.      *)
(*                                                                         *)
(* An instant is a number of ticks; day d is the DayTicks ticks from       *)
(* (d - 1) * DayTicks.                                                     *)
(***************************************************************************)
EXTENDS Integers, FiniteSets

CONSTANTS
  Days,           \* the days that pass are 1..Days
  TradingDays,    \* is_trading_day; one lies beyond Days, to bound the last session
  EarlyDays,      \* is_early_close
  DayTicks,       \* ticks of a day
  RegularClose,   \* MARKET_CLOSE, in ticks after midnight
  EarlyClose,     \* EARLY_CLOSE
  DecisionDelay,  \* SchedulingPolicy.decision_delay
  Grace,          \* SchedulingPolicy.grace_period
  MaxCatchup,     \* SchedulingPolicy.max_catchup, or Unlimited for None
  Unlimited,
  Lookback,       \* SchedulingPolicy.lookback_days
  NoDay

ASSUME CalendarAssumption ==
  /\ Days \in Nat \ {0}
  /\ TradingDays \subseteq Nat \ {0}
  /\ IsFiniteSet(TradingDays)
  /\ \E d \in TradingDays : d > Days
  /\ NoDay \notin Nat

ASSUME ClockAssumption ==
  /\ DayTicks \in Nat
  /\ RegularClose \in 0..DayTicks - 1
  /\ EarlyClose   \in 0..DayTicks - 1

ASSUME PolicyAssumption ==
  /\ DecisionDelay \in Nat
  /\ Grace \in Nat
  /\ MaxCatchup \in Nat \/ MaxCatchup = Unlimited
  /\ Lookback \in Nat

Earliest(S) == CHOOSE d \in S : \A e \in S : d <= e
Latest(S)   == CHOOSE d \in S : \A e \in S : e <= d

Today(now) == now \div DayTicks + 1

NextTradingDay(d)     == Earliest({ e \in TradingDays : d < e })
TradingDaysBefore(d)  == { e \in TradingDays : e < d }

SessionClose(d) == IF d \in EarlyDays THEN EarlyClose ELSE RegularClose

\* session_for_date(d).decision_et + policy.decision_delay
Due(d) == (d - 1) * DayTicks + SessionClose(d) + DecisionDelay

\* Mutation of Deadline: the fresher session's grace period counts as well.
DeadlineAfterGrace(d) == Due(NextTradingDay(d)) + Grace

\* execution_deadline_et: the next session's due time, or an earlier cap.
Deadline(d) ==
  LET fresher == Due(NextTradingDay(d)) IN
  IF MaxCatchup # Unlimited /\ Due(d) + MaxCatchup < fresher
  THEN Due(d) + MaxCatchup
  ELSE fresher

\* evaluate_session, given the days whose run is recorded as completed.
Evaluate(d, now, completed) ==
  IF d \notin TradingDays THEN "skipped-closed-session"
  ELSE IF d \in completed THEN "already-completed"
  ELSE IF now < Due(d) THEN "pending"
  ELSE IF now - Due(d) <= Grace THEN "due"
  ELSE IF now < Deadline(d) THEN "late"
  ELSE "missed"

\* RunDecision.should_run
ShouldRun(verdict) == verdict \in {"due", "late"}

\* most_recent_due_session_date: scans back from today.
DueSessions(now) ==
  { d \in TradingDays : /\ Today(now) - Lookback <= d
                        /\ d <= Today(now)
                        /\ Due(d) <= now }

MostRecentDue(now) ==
  LET due == DueSessions(now) IN IF due = {} THEN NoDay ELSE Latest(due)

\* From start on the scan always finds a session: no closure of the exchange is as
\* long as the lookback.
LookbackReaches(start) == \A t \in start..Days * DayTicks - 1 : DueSessions(t) # {}

\* plan_run's session: the most recent due one, or today as a closed session.
PlannedDay(now) ==
  IF MostRecentDue(now) = NoDay THEN Today(now) ELSE MostRecentDue(now)

PlannedVerdict(now, completed) ==
  IF MostRecentDue(now) = NoDay THEN "skipped-closed-session"
  ELSE Evaluate(MostRecentDue(now), now, completed)

=============================================================================
