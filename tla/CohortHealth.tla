---------------------------- MODULE CohortHealth ----------------------------
(***************************************************************************)
(* The read-only verdict of cohort_ops.assess_cohort: which session is in  *)
(* focus, what state it is in, and which others are unresolved.            *)
(***************************************************************************)
EXTENDS Scheduling

CONSTANTS
  CohortStart,     \* the cohort's persisted first session
  HistorySessions  \* DEFAULT_HISTORY_SESSIONS

ASSUME HealthAssumption ==
  CohortStart \in Nat \ {0} /\ HistorySessions \in Nat

TerminalRun == {"completed", "partial", "failed", "missed", "skipped-closed-session"}

Attention == {"due", "late", "awaiting-data", "missed", "partial", "failed"}

CompletedDays(runs) == { d \in DOMAIN runs : runs[d] = "completed" }

\* _state_for: a recorded outcome wins over the clock; a wait does not.
StateFor(verdict, status) ==
  IF verdict = "skipped-closed-session" THEN "closed-session"
  ELSE IF status = "skipped-closed-session" THEN "closed-session"
  ELSE IF status \in TerminalRun THEN status
  ELSE IF status = "awaiting-data" THEN (IF verdict = "missed" THEN "missed" ELSE "awaiting-data")
  ELSE CASE verdict = "pending"           -> "pre-close"
         [] verdict = "already-completed" -> "completed"
         [] OTHER                         -> verdict

StateOf(d, now, runs) ==
  LET status == IF d \in DOMAIN runs THEN runs[d] ELSE "absent" IN
  StateFor(Evaluate(d, now, CompletedDays(runs)), status)

Unresolved(S, now, runs) == { d \in S : StateOf(d, now, runs) \in Attention }

PreClose(now) == Today(now) \in TradingDays /\ now < Due(Today(now))

\* Mutation of Window: the most recent due session only.
WindowOfOne(now) == { d \in {MostRecentDue(now)} : CohortStart <= d }

\* The most recent due session and the one before it, once the cohort exists.
Window(now) ==
  LET due == MostRecentDue(now)
      earlier == TradingDaysBefore(due)
  IN  { d \in {due} \union (IF earlier = {} THEN {} ELSE {Latest(earlier)}) : CohortStart <= d }

\* The oldest unresolved session of the window, or the session now open.
Focus(now, runs) ==
  IF MostRecentDue(now) = NoDay THEN (IF PreClose(now) THEN Today(now) ELSE NoDay)
  ELSE LET open == Unresolved(Window(now), now, runs) IN
       IF open # {} THEN Earliest(open)
       ELSE IF PreClose(now) THEN Today(now) ELSE MostRecentDue(now)

\* The sessions _unresolved_history walks, newest first.
Scanned(now) ==
  LET recent == MostRecentDue(now) IN
  IF recent = NoDay THEN {}
  ELSE LET due == { d \in TradingDays : d <= recent } IN
       { d \in due : CohortStart <= d /\ Cardinality({ e \in due : d < e }) < HistorySessions }

\* Mutation of History: walks back from the session before the most recent one.
HistoryWithoutNewest(now, runs) ==
  Unresolved(Scanned(now), now, runs) \ {Focus(now, runs), MostRecentDue(now)}

History(now, runs) == Unresolved(Scanned(now), now, runs) \ {Focus(now, runs)}

\* CohortHealthReport.state
Health(now, runs) ==
  LET focus == Focus(now, runs) IN
  IF focus = NoDay THEN "unknown" ELSE StateOf(focus, now, runs)

=============================================================================
