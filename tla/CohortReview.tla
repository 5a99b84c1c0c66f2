---------------------------- MODULE CohortReview ----------------------------
(***************************************************************************)
(* The accounting review and the operator decisions of one cohort while    *)
(* its sessions are still being executed: the write path of 'cohort review *)
(* record' and 'cohort review decide' (cli.py, cohort_review.py), the      *)
(* append-only store behind them (storage/cohort_reviews.py), and the gate *)
(* and phase the dashboard derives from what is recorded (dashboard.py).   *)
(*                                                                         *)
(* The sessions are CohortRun's subject; here a run takes the steps that   *)
(* the assessment of its evidence tells apart.  A check's content is       *)
(* "settled" (matched, or a difference with its explanation) or "open" (a  *)
(* difference without one); a decision's is its action.                    *)
(***************************************************************************)
EXTENDS OperationalGate

CONSTANTS
  Clerks,     \* processes of operators who record
  Actions,    \* the dispositions an operator chooses from
  MaxEntries, \* bound on the entries recorded
  MaxFlawed   \* bound on the members whose execution fails or is interrupted

ASSUME ReviewAssumption ==
  /\ Clerks # {} /\ Actions # {} /\ MaxEntries \in Nat /\ MaxFlawed \in Nat
  /\ 1 \in TradingDays

\* The cutoff's scan reaches across every closure.
ASSUME LookbackAssumption == LookbackReaches(Due(1))

VARIABLES
  now,      \* Eastern wall-clock time
  runs,     \* per day: sleeve_runs.status, or "absent"
  slot,     \* per day and member: what is recorded of the member in it
  bound,    \* days whose run has a snapshot
  entries,  \* rows of cohort_accounting_checks and cohort_operator_decisions
  work      \* per clerk: the key and revision it is about to insert, or Nothing

sessionVars == << now, runs, slot, bound >>
vars == << now, runs, slot, bound, entries, work >>

Sessions == TradingDays \intersect (1..Days)
CheckKeys    == Sessions \X Members \X Areas
DecisionKeys == { << m >> : m \in Members }
Findings     == {"settled", "open"}

RunStatus == {"absent", "running", "awaiting-data", "completed", "partial", "failed", "missed"}
Recorded  == {"completed", "partial", "failed", "missed"}

Entries ==
  [key : CheckKeys, revision : Nat, content : Findings]
    \union [key : DecisionKeys, revision : Nat, content : Actions]

Contents(key) == IF key \in CheckKeys THEN Findings ELSE Actions

Nothing == [key |-> << >>]

TypeOK ==
  /\ now \in 0..Days * DayTicks - 1
  /\ runs \in [Sessions -> RunStatus]
  /\ slot \in [Sessions -> [Members -> Slots]]
  /\ bound \in SUBSET Sessions
  /\ entries \in SUBSET Entries
  /\ work \in [Clerks -> [key : CheckKeys \union DecisionKeys, revision : Nat] \union {Nothing}]

Init ==
  /\ now = 0
  /\ runs = [d \in Sessions |-> "absent"]
  /\ slot = [d \in Sessions |-> [m \in Members |-> "none"]]
  /\ bound = {}
  /\ entries = {}
  /\ work = [c \in Clerks |-> Nothing]

-----------------------------------------------------------------------------
(* The sessions *)

Tick ==
  /\ now < Days * DayTicks - 1
  /\ now' = now + 1
  /\ UNCHANGED << runs, slot, bound, entries, work >>

Session(d) == d \in Sessions /\ UNCHANGED << now, entries, work >>

Verdict(d) == Evaluate(d, now, { e \in Sessions : runs[e] = "completed" })

Settled(d)   == { m \in Members : slot[d][m] # "none" }
Unsettled(d) == Members \ Settled(d)

Settle(d, what) ==
  slot' = [slot EXCEPT ![d] = [m \in Members |-> IF m \in Unsettled(d) THEN what ELSE slot[d][m]]]

Begin(d) ==
  /\ Session(d)
  /\ ShouldRun(Verdict(d))
  /\ runs[d] \in {"absent", "awaiting-data"}
  /\ runs' = [runs EXCEPT ![d] = "running"]
  /\ UNCHANGED << slot, bound >>

\* Mutation of Wait: a session in which members have executed goes back to waiting.
WaitRegardless(d) ==
  /\ Session(d)
  /\ runs[d] = "running"
  /\ runs' = [runs EXCEPT ![d] = "awaiting-data"]
  /\ UNCHANGED << slot, bound >>

\* The data is not ready, or the sign-in has lapsed, and no member has started.
Wait(d) ==
  /\ Session(d)
  /\ runs[d] = "running" /\ d \notin bound
  /\ runs' = [runs EXCEPT ![d] = "awaiting-data"]
  /\ UNCHANGED << slot, bound >>

\* The session cannot be executed at all: misconfigured, or without a snapshot.
Refuse(d, what) ==
  /\ Session(d)
  /\ runs[d] = "running" /\ d \notin bound
  /\ runs' = [runs EXCEPT ![d] = "failed"]
  /\ Settle(d, what)
  /\ UNCHANGED bound

Bind(d) ==
  /\ Session(d)
  /\ runs[d] = "running" /\ d \notin bound
  /\ bound' = bound \union {d}
  /\ UNCHANGED << runs, slot >>

Flawed == { o \in Sessions \X Members : slot[o[1]][o[2]] \in {"partial", "error"} }

\* A member is observed, its execution fails (PARTIAL), or it is interrupted.
Execute(d, m, what) ==
  /\ Session(d)
  /\ runs[d] = "running" /\ d \in bound
  /\ m \in Unsettled(d)
  /\ what # "official" => Cardinality(Flawed) < MaxFlawed
  /\ slot' = [slot EXCEPT ![d][m] = what]
  /\ UNCHANGED << runs, bound >>

\* finalize, once every member is settled.
Conclude(d) ==
  /\ Session(d)
  /\ runs[d] = "running" /\ Unsettled(d) = {}
  /\ LET official == { m \in Members : slot[d][m] = "official" } IN
     runs' = [runs EXCEPT ![d] = IF official = Members THEN "completed"
                                 ELSE IF official # {} THEN "partial" ELSE "failed"]
  /\ UNCHANGED << slot, bound >>

\* Past the deadline a wait expires with MISSING observations, anything else is
\* skipped: the members still pending get an error, one left running gets nothing.
Miss(d) ==
  /\ Session(d)
  /\ Verdict(d) = "missed"
  /\ runs[d] \notin Recorded
  /\ runs' = [runs EXCEPT ![d] = "missed"]
  /\ \/ runs[d] = "awaiting-data" /\ Settle(d, "missing")
     \/ runs[d] # "awaiting-data" /\ Settle(d, "error")
     \/ /\ d \in bound
        /\ \E m \in Unsettled(d) :
             slot' = [slot EXCEPT ![d] = [n \in Members |->
                        IF n \in Unsettled(d) \ {m} THEN "error" ELSE slot[d][n]]]
  /\ UNCHANGED bound

-----------------------------------------------------------------------------
(* Recording an entry *)

Of(key) == { e \in entries : e.key = key }

\* The highest revision of a key is its current entry.
Current(key) ==
  { e \in Of(key) : \A f \in Of(key) : f.revision <= e.revision }

\* A check is recorded about an official observation that counts at t,
Checkable(t) == { k \in CheckKeys : << k[1], k[2] >> \in Reviewable(t, runs, slot) }

\* and a decision about any member, once the review is due.
Decidable(t) ==
  IF Cardinality(CompletedDue(t, runs)) >= ReviewTarget THEN DecisionKeys ELSE {}

\* A command may be given any clock (--now).
Recordable == UNION { Checkable(t) \union Decidable(t) : t \in 0..Days * DayTicks - 1 }

\* The select of record_check and record_decision: the clerk has the next revision
\* in hand.
Read(c, key) ==
  /\ work[c] = Nothing
  /\ work' = [work EXCEPT ![c] =
       [key |-> key, revision |-> IF Of(key) = {} THEN 0
                                  ELSE (CHOOSE e \in Current(key) : TRUE).revision + 1]]
  /\ UNCHANGED << sessionVars, entries >>

Entry(c, content) ==
  [key |-> work[c].key, revision |-> work[c].revision, content |-> content]

\* What was read differs from what is written: an identical entry is reported as
\* unchanged (GiveUp), another one needs --supersede.
Differs(c, content) ==
  \A e \in Of(work[c].key) : e.revision = work[c].revision - 1 => e.content # content

\* Mutation of Insert: no unique constraint on (key, revision).
InsertUnchecked(c, content) ==
  /\ work[c] # Nothing
  /\ Cardinality(entries) < MaxEntries
  /\ Differs(c, content)
  /\ entries' = entries \union {Entry(c, content)}
  /\ work' = [work EXCEPT ![c] = Nothing]
  /\ UNCHANGED sessionVars

Insert(c, content) ==
  /\ work[c] # Nothing
  /\ Cardinality(entries) < MaxEntries
  /\ Differs(c, content)
  /\ \A e \in Of(work[c].key) : e.revision # work[c].revision
  /\ entries' = entries \union {Entry(c, content)}
  /\ work' = [work EXCEPT ![c] = Nothing]
  /\ UNCHANGED sessionVars

\* Nothing to write, no --supersede, a row the constraint refuses
\* (ReviewConflictError), or the process dies.
GiveUp(c) ==
  /\ work[c] # Nothing
  /\ work' = [work EXCEPT ![c] = Nothing]
  /\ UNCHANGED << sessionVars, entries >>

Next ==
  \/ Tick
  \/ \E d \in Sessions :
       \/ Begin(d) \/ Wait(d) \/ Bind(d) \/ Conclude(d) \/ Miss(d)
       \/ \E what \in {"missing", "error"} : Refuse(d, what)
       \/ \E m \in Members, what \in {"official", "partial", "error"} : Execute(d, m, what)
  \/ \E c \in Clerks :
       \/ \E key \in Recordable : Read(c, key)
       \/ \E content \in Contents(work[c].key) : Insert(c, content)
       \/ GiveUp(c)

Spec == Init /\ [][Next]_vars

-----------------------------------------------------------------------------
(* What the dashboard derives: assemble_review, accounting_evidence and      *)
(* operator_decisions, then the gate and the phase                           *)

CurrentChecks == UNION { Current(key) : key \in CheckKeys }

CoveredObservations(official) ==
  { o \in official : \A a \in Areas : Current(<< o[1], o[2], a >>) # {} }

\* unexplained_differences among the reviewable observations.
OpenObservations(official) ==
  { o \in official : \E a \in Areas :
      \E e \in Current(<< o[1], o[2], a >>) : e.content = "open" }

Decided == { m \in Members : Current(<< m >>) # {} }

Gate ==
  LET official == Reviewable(now, runs, slot) IN
  Assess(now, runs, slot, bound, CurrentChecks # {}, CoveredObservations(official),
         OpenObservations(official), Decided)

ShownPhase == Phase(now, runs, Gate)

\* Mutation of WorkLeft: an observation somebody has begun with is done.
WorkLeftUnstarted(t) ==
  Reviewable(t, runs, slot) # {} /\ CurrentChecks = {}

\* 'cohort review pending' at t: observations not covered, differences of any
\* current check not explained, members not decided about.
WorkLeft(t) ==
  LET official == Reviewable(t, runs, slot) IN
  \/ CoveredObservations(official) # official
  \/ \E e \in CurrentChecks : e.content = "open"
  \/ Decided # Members

-----------------------------------------------------------------------------
(* Properties *)

\* The history of an entry is one line of revisions: no two operators who correct
\* it at once both succeed, and none of the corrections it is built on is missing,
\* so there is one current entry (storage/cohort_reviews.py:9).
RevisionsFormChain ==
  /\ \A e, f \in entries : e.key = f.key /\ e.revision = f.revision => e = f
  /\ \A e \in entries : e.revision > 0 =>
       \E f \in entries : f.key = e.key /\ f.revision = e.revision - 1

\* A decision on record stands on as many completed sessions as the review asks
\* for, whatever clock the command was given (ReviewNotDueError), and it is never
\* taken back: a later session that runs late, fails or is not reviewed yet changes
\* the verdict and leaves the cohort under review (cohort_phase.py:146).
DecidedOnEvidence ==
  (\E e \in entries : e.key \in DecisionKeys) =>
    /\ Cardinality({ d \in Sessions : runs[d] = "completed" }) >= ReviewTarget
    /\ ShownPhase \in ReviewDuePhases

\* A gate that passes rests on enough sessions, each with its snapshot, on no failed
\* execution, and on a review of every official observation of them in every area
\* that leaves no difference open, by a current entry (operational_gate.py:9).
PassIsEarned ==
  GateStatus(Gate) = "pass" =>
    LET judged == { d \in Sessions : runs[d] \in Recorded } IN
    /\ Cardinality(judged) >= MinSessions /\ judged \subseteq bound
    /\ \A d \in judged, m \in Members :
         /\ slot[d][m] # "partial"
         /\ slot[d][m] = "official" =>
              \A a \in Areas : \E e \in Of(<< d, m, a >>) :
                /\ e.content = "settled"
                /\ \A f \in Of(<< d, m, a >>) : f.revision <= e.revision

\* 'cohort review pending' and the gate read the same review: once it is owed and
\* the command finds nothing left (exit code 0), the gate's two rules about it pass.
NothingLeftSatisfiesTheGate ==
  Cardinality(CompletedDue(now, runs)) >= ReviewTarget /\ ~WorkLeft(now)
    => Gate["accountingStates"] = "pass" /\ Gate["operatorDecisions"] = "pass"

\* An official observation that counts never stops counting: what was reviewed stays
\* judged, and no entry comes to stand for nothing (evidence_timing.py).
EvidenceStands ==
  [][Reviewable(now, runs, slot) \subseteq Reviewable(now', runs', slot')]_vars

=============================================================================
