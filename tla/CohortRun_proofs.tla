--------------------------- MODULE CohortRun_proofs ---------------------------
(***************************************************************************)
(* Theorems about one session for any number of members, runners,          *)
(* snapshots and faults.                                                   *)
(*                                                                         *)
(* The first part needs nobody's exclusiveness: a member is executed at    *)
(* most once even where a runner outlasts its lease.  The second is about  *)
(* a session that is one runner's at a time: what its books, rows and      *)
(* observations say, what an operator may be told about it                 *)
(* (RecoveryAdvice), and the promise of OfficialSession.  On PostgreSQL    *)
(* the advisory lock is what makes it one runner's; on SQLite it is the    *)
(* lease row, as long as no run outlasts it.                               *)
(***************************************************************************)
EXTENDS RecoveryAdvice, TLAPS

\* Past the preflight a runner holds a real snapshot, and where it works on a
\* member it knows which.
Working ==
  \A r \in Runners :
    /\ pc[r] \in {"bind", "loop"} \union Executing => task[r].captured \in Snapshots
    /\ pc[r] \in {"closeFinish"} \union Executing => cur[r] \in Members

\* A pending member has not traded, a member about to trade has not traded, and
\* no two runners execute one member.
Once ==
  /\ \A m \in Members : member[m] = "pending" => book[m] = << >>
  /\ \A r \in Runners : pc[r] \in Executing => member[cur[r]] # "pending"
  /\ \A r \in Runners : pc[r] = "trade" => book[cur[r]] = << >>
  /\ \A r, q \in Runners :
       r # q /\ pc[r] \in Executing /\ pc[q] \in Executing => cur[r] # cur[q]
  /\ AtMostOnce

IInv == TypeOK /\ Working /\ Once

LEMMA NoTaskIsTask == NoTask \in Task
BY DEF NoTask, Task, Verdicts, Closing, RunStatus

LEMMA MembersInType == \A s : MembersIn(s) \in SUBSET Members
BY DEF MembersIn

\* The forms in which a step sets its runner's task.
LEMMA TaskForms ==
  /\ \A v \in RunStatus : [NoTask EXCEPT !.verdict = v] \in Task
  /\ \A c \in Closing, v \in RunStatus, S \in SUBSET Members :
       [NoTask EXCEPT !.closing = c, !.verdict = v, !.todo = S] \in Task
  /\ \A c \in Closing, S \in SUBSET Members :
       [NoTask EXCEPT !.closing = c, !.todo = S] \in Task
  /\ \A S \in SUBSET Members : [NoTask EXCEPT !.todo = S] \in Task
  /\ \A S \in SUBSET Members, b \in BOOLEAN, s \in Snapshots \union {NoSnapshot} :
       [NoTask EXCEPT !.todo = S, !.executed = b, !.seen = s] \in Task
BY NoTaskIsTask DEF NoTask, Task

LEMMA TaskUpdates ==
  ASSUME TypeOK, NEW r \in Runners
  PROVE  /\ task[r] \in Task
         /\ \A m : Dropped(r, m) \in Task /\ Dropped(r, m).captured = task[r].captured
         /\ \A s \in Snapshots :
              LET t == [task[r] EXCEPT !.captured = s, !.seen = NoSnapshot]
              IN t \in Task /\ t.captured = s
<1>1. task[r] \in Task
  BY DEF TypeOK
<1>2. \A m : Dropped(r, m) \in Task /\ Dropped(r, m).captured = task[r].captured
  BY <1>1 DEF Dropped, Task
<1>3. \A s \in Snapshots :
        LET t == [task[r] EXCEPT !.captured = s, !.seen = NoSnapshot]
        IN t \in Task /\ t.captured = s
  BY <1>1 DEF Task
<1> QED BY <1>1, <1>2, <1>3

OtherTypeOK ==
  /\ cycles \in SUBSET Members
  /\ observation \in [Members -> Observation]
  /\ phase \in Phase
  /\ faults \in 0..MaxFaults

-----------------------------------------------------------------------------
(* What the two kinds of local step preserve *)

\* Where r goes to a label at which it executes nobody, and members only move
\* away from pending, nothing can be traded twice.
LEMMA GotoInv ==
  ASSUME IInv, NEW r \in Runners, NEW l \in Label \ Executing, NEW t \in Task,
         Goto(r, l, t), l # "closeFinish",
         l \in {"bind", "loop"} => t.captured \in Snapshots,
         UNCHANGED book, StoreTypeOK', LeaseTypeOK', OtherTypeOK',
         \A m \in Members : member'[m] = "pending" => member[m] = "pending"
  PROVE  IInv'
<1>1. Once'
  BY SMT DEF IInv, TypeOK, StoreTypeOK, Once, Working, Goto, AtMostOnce, Executing
<1>2. Working'
  BY SMT DEF IInv, TypeOK, Working, Goto, Executing
<1>3. TypeOK'
  BY DEF IInv, TypeOK, OtherTypeOK, Goto
<1> QED BY <1>1, <1>2, <1>3 DEF IInv

\* A runner inside _execute_member goes on to the next statement about the same
\* member; its book changes only where it trades.
LEMMA GotoMemberInv ==
  ASSUME IInv, NEW r \in Runners, pc[r] \in Executing, NEW l \in Executing \ {"trade"},
         GotoMember(r, l, cur[r]), UNCHANGED << storeVars, lease >>, OtherTypeOK',
         \/ UNCHANGED book
         \/ pc[r] = "trade" /\ Books(cur[r], task[r].captured)
  PROVE  IInv'
<1>1. cur[r] \in Members /\ task[r].captured \in Snapshots /\ l \in Label
  BY DEF IInv, Working, Label, Owning, Executing
<1>2. book' \in [Members -> Seq(Snapshots)]
  <2>1. book \in [Members -> Seq(Snapshots)]
    BY DEF IInv, TypeOK
  <2>2. Append(book[cur[r]], task[r].captured) \in Seq(Snapshots)
    BY <1>1, <2>1
  <2> QED BY <2>1, <2>2 DEF Books
<1>3. TypeOK'
  <2>1. StoreTypeOK'
    BY DEF IInv, TypeOK, StoreTypeOK, storeVars
  <2>2. LeaseTypeOK'
    BY DEF IInv, TypeOK, LeaseTypeOK
  <2>3. /\ pc'   \in [Runners -> Label]
        /\ cur'  \in [Runners -> Members \union {NoMember}]
        /\ task' \in [Runners -> Task]
    BY <1>1 DEF IInv, TypeOK, GotoMember
  <2> QED BY <1>2, <2>1, <2>2, <2>3 DEF TypeOK, OtherTypeOK
<1>4. Working'
  BY <1>1 DEF IInv, TypeOK, Working, GotoMember, Executing
<1>5. \A m \in Members : m # cur[r] => book'[m] = book[m]
  BY <1>1 DEF Books, IInv, TypeOK
<1>6. Len(book'[cur[r]]) <= 1
  <2>1. CASE UNCHANGED book
    BY <2>1, <1>1 DEF IInv, Once, AtMostOnce
  <2>2. CASE pc[r] = "trade" /\ Books(cur[r], task[r].captured)
    <3>1. book[cur[r]] = << >>
      BY <2>2 DEF IInv, Once
    <3>2. book'[cur[r]] = Append(<< >>, task[r].captured)
      BY <2>2, <3>1, <1>1 DEF Books, IInv, TypeOK
    <3> QED BY <3>2, <1>1
  <2> QED BY <2>1, <2>2
<1>7. cur' = cur /\ member' = member
  BY DEF GotoMember, IInv, TypeOK, storeVars
<1>8. \A q \in Runners : pc'[q] \in Executing => pc[q] \in Executing
  BY DEF GotoMember, IInv, TypeOK
<1>9. member[cur[r]] # "pending"
  BY DEF IInv, Once
<1>10. \A q \in Runners : pc'[q] = "trade" => q # r /\ pc[q] = "trade" /\ cur[q] # cur[r]
  <2> SUFFICES ASSUME NEW q \in Runners, pc'[q] = "trade" PROVE q # r /\ pc[q] = "trade" /\ cur[q] # cur[r]
    OBVIOUS
  <2>1. q # r /\ pc[q] = "trade"
    BY DEF GotoMember, IInv, TypeOK
  <2> QED BY <2>1 DEF IInv, Once, Executing
<1>11. \A q \in Runners : pc'[q] = "trade" => cur[q] \in Members
  BY <1>10 DEF IInv, Working, Executing
<1>12. Once'
  <2>1. \A m \in Members : member'[m] = "pending" => book'[m] = << >>
    BY <1>5, <1>7, <1>9 DEF IInv, Once
  <2>2. \A q \in Runners : pc'[q] \in Executing => member'[cur'[q]] # "pending"
    BY <1>7, <1>8 DEF IInv, Once
  <2>3. \A q \in Runners : pc'[q] = "trade" => book'[cur'[q]] = << >>
    BY <1>5, <1>7, <1>10, <1>11 DEF IInv, Once
  <2>4. \A p, q \in Runners :
          p # q /\ pc'[p] \in Executing /\ pc'[q] \in Executing => cur'[p] # cur'[q]
    BY <1>7, <1>8 DEF IInv, Once
  <2>5. \A m \in Members : Len(book'[m]) <= 1
    BY <1>5, <1>6 DEF IInv, Once, AtMostOnce
  <2> QED BY <2>1, <2>2, <2>3, <2>4, <2>5 DEF Once, AtMostOnce
<1> QED BY <1>3, <1>4, <1>12 DEF IInv

-----------------------------------------------------------------------------
(* The store's operations *)

LEMMA StoreTypes ==
  ASSUME StoreTypeOK
  PROVE  /\ EnsureRun => StoreTypeOK'
         /\ \A s \in RunStatus : SetStatus(s) => StoreTypeOK'
         /\ \A b : \A s \in Snapshots : SetSnapshot(s, b) => StoreTypeOK'
         /\ \A m \in Members : StartMember(m) => StoreTypeOK'
         /\ \A m, s : s \in SettledMember /\ FinishMember(m, s) => StoreTypeOK'
         /\ UNCHANGED storeVars => StoreTypeOK'
         /\ FinalOutcome \in RunStatus
BY DEF StoreTypeOK, EnsureRun, SetStatus, SetSnapshot, StartMember, FinishMember,
       storeVars, FinalOutcome, RunStatus, TerminalRun, MemberStatus

\* finish_member never makes a member pending.
LEMMA FinishLeavesPending ==
  ASSUME StoreTypeOK, NEW m, NEW s \in SettledMember, FinishMember(m, s)
  PROVE  \A n \in Members : member'[n] = "pending" => member[n] = "pending"
BY DEF StoreTypeOK, FinishMember, SettledMember

LEMMA Kept ==
  ASSUME IInv
  PROVE  /\ StoreTypeOK /\ LeaseTypeOK /\ OtherTypeOK
         /\ UNCHANGED lease => LeaseTypeOK'
         /\ UNCHANGED << cycles, observation, outsideVars >> => OtherTypeOK'
         /\ UNCHANGED << cycles, observation, phase >> /\ Fault => OtherTypeOK'
         /\ \A m, row : row \in Observation /\ Record(m, row) /\ UNCHANGED << cycles, outsideVars >>
              => OtherTypeOK'
<1>1. StoreTypeOK /\ LeaseTypeOK /\ OtherTypeOK
  BY DEF IInv, TypeOK, OtherTypeOK
<1>2. UNCHANGED lease => LeaseTypeOK'
  BY <1>1 DEF LeaseTypeOK
<1>3. UNCHANGED << cycles, observation, outsideVars >> => OtherTypeOK'
  BY <1>1 DEF OtherTypeOK, outsideVars
<1>4. UNCHANGED << cycles, observation, phase >> /\ Fault => OtherTypeOK'
  BY <1>1, RunAssumption DEF OtherTypeOK, Fault
<1>5. \A m, row : row \in Observation /\ Record(m, row) /\ UNCHANGED << cycles, outsideVars >>
        => OtherTypeOK'
  BY <1>1 DEF OtherTypeOK, outsideVars, Record
<1> QED BY <1>1, <1>2, <1>3, <1>4, <1>5

-----------------------------------------------------------------------------
(* Every step preserves the invariant *)

LEMMA EnvironmentInv == ASSUME IInv, Tick \/ LeaseRunsOut PROVE IInv'
<1>1. UNCHANGED << storeVars, localVars, book >> /\ LeaseTypeOK' /\ OtherTypeOK'
  <2>1. CASE Tick
    BY <2>1, Kept DEF Tick, OtherTypeOK, Phase, localVars
  <2>2. CASE LeaseRunsOut
    BY <2>2, Kept DEF LeaseRunsOut, ExpireLease, LeaseTypeOK, localVars
  <2> QED BY <2>1, <2>2
<1> QED BY <1>1, Kept, StoreTypes DEF IInv, TypeOK, OtherTypeOK, Working, Once, AtMostOnce, storeVars, localVars

LEMMA FaultInv == ASSUME IInv, NEW r \in Runners, Crash(r) \/ Abort(r) PROVE IInv'
<1>1. CASE Crash(r)
  <2>1. LeaseTypeOK'
    BY <1>1, Kept, LeaseAssumption DEF Crash, AbandonLease, LeaseTypeOK, FreeLease
  <2> QED BY <1>1, <2>1, Kept, StoreTypes, NoTaskIsTask, GotoInv DEF Crash, Label, Owning, Executing, storeVars
<1>2. CASE Abort(r)
  BY <1>2, Kept, StoreTypes, NoTaskIsTask, GotoInv DEF Abort, Unwind, Label, Owning, Executing, storeVars
<1> QED BY <1>1, <1>2

LEMMA OwnershipInv ==
  ASSUME IInv, NEW r \in Runners, Decide(r) \/ Enter(r) \/ Refused(r) \/ Release(r)
  PROVE  IInv'
<1>1. CASE Decide(r)
  <2>1. [NoTask EXCEPT !.decision = Decision] \in Task
    BY NoTaskIsTask DEF IInv, TypeOK, Decision, Task, Verdicts, Phase
  <2> QED BY <1>1, <2>1, Kept, StoreTypes, GotoInv DEF Decide, Label, Executing, storeVars
<1>2. CASE Enter(r)
  <2>1. LeaseTypeOK'
    BY <1>2 DEF Enter, AcquireLease, LeaseTypeOK
  <2> QED BY <1>2, <2>1, Kept, StoreTypes, TaskUpdates, GotoInv
          DEF Enter, IInv, Label, Owning, Executing, storeVars
<1>3. CASE Refused(r)
  BY <1>3, Kept, StoreTypes, NoTaskIsTask, GotoInv DEF Refused, Label, Executing, storeVars
<1>4. CASE Release(r)
  <2>1. LeaseTypeOK'
    BY <1>4, Kept DEF Release, ReleaseLease, LeaseTypeOK, FreeLease
  <2> QED BY <1>4, <2>1, Kept, StoreTypes, NoTaskIsTask, GotoInv
          DEF Release, Label, Executing, storeVars
<1> QED BY <1>1, <1>2, <1>3, <1>4

LEMMA EnsureInv == ASSUME IInv, NEW r \in Runners, Ensure(r) PROVE IInv'
<1>1. StoreTypeOK' /\ LeaseTypeOK' /\ OtherTypeOK' /\ UNCHANGED << member, book >>
  BY Kept, StoreTypes DEF Ensure, LeaveAlone, Postpone, SkipClosedSession, SkipMissedSession,
     ExpireAwaitingData, BeginExecution, EnsureStep, EnsureRun
<1>2. \A c \in Closing, v \in RunStatus : BeginClosing(r, c, v) => IInv'
  <2> SUFFICES ASSUME NEW c \in Closing, NEW v \in RunStatus, BeginClosing(r, c, v) PROVE IInv'
    OBVIOUS
  <2>1. [NoTask EXCEPT !.closing = c, !.verdict = v, !.todo = MembersIn("pending")] \in Task
    BY MembersInType, TaskForms
  <2> QED BY <1>1, <2>1, GotoInv DEF BeginClosing, Label, Owning, Executing
<1>3. CASE LeaveAlone(r)
  BY <1>1, <1>3, NoTaskIsTask, GotoInv DEF LeaveAlone, Label, Owning, Executing
<1>4. CASE Postpone(r)
  <2>1. [NoTask EXCEPT !.verdict = "pending"] \in Task
    BY TaskForms DEF RunStatus
  <2> QED BY <1>1, <1>4, <2>1, GotoInv DEF Postpone, GotoWrite, Label, Owning, Executing
<1>5. CASE SkipClosedSession(r)
  BY <1>2, <1>5 DEF SkipClosedSession, Closing, RunStatus, TerminalRun
<1>6. CASE SkipMissedSession(r)
  BY <1>2, <1>6 DEF SkipMissedSession, Closing, RunStatus, TerminalRun
<1>7. CASE ExpireAwaitingData(r)
  BY <1>2, <1>7 DEF ExpireAwaitingData, Closing, RunStatus, TerminalRun
<1>8. CASE BeginExecution(r)
  <2>1. [NoTask EXCEPT !.todo = MembersIn("running")] \in Task
    BY MembersInType, TaskForms
  <2> QED BY <1>1, <1>8, <2>1, GotoInv DEF BeginExecution, Label, Owning, Executing
<1> QED BY <1>3, <1>4, <1>5, <1>6, <1>7, <1>8 DEF Ensure

LEMMA RecoveryInv ==
  ASSUME IInv, NEW r \in Runners, MarkRunning(r) \/ RecoverMember(r) \/ Reload(r)
  PROVE  IInv'
<1>1. CASE MarkRunning(r)
  <2>1. StoreTypeOK' /\ UNCHANGED member
    BY <1>1, Kept, StoreTypes DEF MarkRunning, SetStatus, RunStatus
  <2> QED BY <1>1, <2>1, Kept, TaskUpdates, GotoInv
          DEF MarkRunning, IInv, Label, Owning, Executing
<1>2. CASE RecoverMember(r)
  <2>1. PICK m \in task[r].todo, s \in {"completed", "interrupted"} :
          \/ FinishMember(m, s) /\ Goto(r, "recover", Dropped(r, m))
          \/ Unwind(r) /\ UNCHANGED storeVars
    BY <1>2 DEF RecoverMember
  <2>2. StoreTypeOK' /\ \A n \in Members : member'[n] = "pending" => member[n] = "pending"
    BY <2>1, Kept, StoreTypes, FinishLeavesPending DEF storeVars, SettledMember
  <2> QED BY <1>2, <2>1, <2>2, Kept, TaskUpdates, NoTaskIsTask, GotoInv
          DEF RecoverMember, Unwind, IInv, Label, Owning, Executing
<1>3. CASE Reload(r)
  <2> DEFINE t == [NoTask EXCEPT !.todo = MembersIn("pending"),
                                 !.executed = MembersIn("pending") # Members,
                                 !.seen = snapshot]
  <2>1. t \in Task
    BY MembersInType, TaskForms, Kept DEF StoreTypeOK
  <2>2. PICK l \in {"finalRead", "capture"} : Goto(r, l, t)
    BY <1>3 DEF Reload
  <2> QED BY <1>3, <2>1, <2>2, Kept, StoreTypes, GotoInv
          DEF Reload, Label, Owning, Executing, storeVars
<1> QED BY <1>1, <1>2, <1>3

LEMMA CloseInv ==
  ASSUME IInv, NEW r \in Runners, NEW c \in Closing, Close(r, c), UNCHANGED faults \/ Fault,
         UNCHANGED << storeVars, lease, book, cycles, observation, phase >>
  PROVE  IInv'
<1>1. task[r].todo \in SUBSET Members
  BY TaskUpdates DEF IInv, Task
<1>2. [NoTask EXCEPT !.closing = c, !.todo = task[r].todo] \in Task
  BY <1>1, TaskForms
<1>3. OtherTypeOK'
  BY Kept DEF outsideVars
<1> QED BY <1>2, <1>3, Kept, StoreTypes, GotoInv DEF Close, Label, Owning, Executing, storeVars

LEMMA GotoWriteInv ==
  ASSUME IInv, NEW r \in Runners, NEW v \in RunStatus, GotoWrite(r, v),
         UNCHANGED << storeVars, lease, book, cycles, observation, outsideVars >>
  PROVE  IInv'
<1>1. [NoTask EXCEPT !.verdict = v] \in Task
  BY TaskForms
<1> QED BY <1>1, Kept, StoreTypes, GotoInv DEF GotoWrite, Label, Owning, Executing, storeVars

LEMMA CaptureInv == ASSUME IInv, NEW r \in Runners, Capture(r) PROVE IInv'
<1>1. UNCHANGED << storeVars, lease, book, cycles, observation, outsideVars >>
  BY DEF Capture, MethodologyInvalid, NeedsReauthentication, SnapshotUnavailable,
     PreflightMisconfigured, PreflightNotReady, PreflightReady, Capturing
<1>2. {"methodology", "failed", "misconfigured", "unready"} \subseteq Closing
      /\ "awaiting-data" \in RunStatus
  BY DEF Closing, RunStatus
<1>3. ASSUME NEW c \in {"methodology", "failed", "misconfigured", "unready"}, Close(r, c)
      PROVE  IInv'
  BY <1>1, <1>2, <1>3, CloseInv DEF outsideVars
<1>4. ASSUME GotoWrite(r, "awaiting-data") PROVE IInv'
  BY <1>1, <1>2, <1>4, GotoWriteInv
<1>5. ASSUME NEW s \in Snapshots,
             Goto(r, "bind", [task[r] EXCEPT !.captured = s, !.seen = NoSnapshot])
      PROVE  IInv'
  <2> DEFINE t == [task[r] EXCEPT !.captured = s, !.seen = NoSnapshot]
  <2>1. t \in Task /\ t.captured = s
    BY TaskUpdates DEF IInv
  <2>2. Goto(r, "bind", t)
    BY <1>5
  <2>3. "bind" \in Label \ Executing
    BY DEF Label, Owning, Executing
  <2>4. StoreTypeOK' /\ LeaseTypeOK' /\ OtherTypeOK' /\ UNCHANGED << book, member >>
    BY <1>1, Kept, StoreTypes DEF storeVars
  <2> HIDE DEF t
  <2> QED BY <2>1, <2>2, <2>3, <2>4, GotoInv
<1> QED BY <1>3, <1>4, <1>5
        DEF Capture, MethodologyInvalid, NeedsReauthentication, SnapshotUnavailable,
            PreflightMisconfigured, PreflightNotReady, PreflightReady, Capturing

LEMMA BindInv ==
  ASSUME IInv, NEW r \in Runners, BindSnapshot(r) \/ BindRefused(r) PROVE IInv'
<1>1. CASE BindSnapshot(r)
  <2>1. task[r].captured \in Snapshots /\ task[r] \in Task
    BY <1>1, TaskUpdates DEF BindSnapshot, IInv, Working
  <2>2. StoreTypeOK' /\ UNCHANGED member
    BY <1>1, <2>1, Kept, StoreTypes DEF BindSnapshot, SetSnapshot
  <2> QED BY <1>1, <2>1, <2>2, Kept, GotoInv DEF BindSnapshot, Label, Owning, Executing
<1>2. CASE BindRefused(r)
  BY <1>2, CloseInv DEF BindRefused, Closing
<1> QED BY <1>1, <1>2

LEMMA SettleInv == ASSUME IInv, NEW r \in Runners, Settle(r) PROVE IInv'
<1>1. CASE CloseObserve(r)
  <2>1. PICK m \in task[r].todo :
          IF RecordAccepted(m, ClosingRow(task[r].closing))
          THEN Record(m, ClosingRow(task[r].closing)) /\ GotoMember(r, "closeFinish", m)
          ELSE Unwind(r) /\ UNCHANGED observation
    BY <1>1 DEF CloseObserve
  <2>2. m \in Members
    BY TaskUpdates DEF IInv, Task
  <2>3. ClosingRow(task[r].closing) \in Observation
    BY DEF ClosingRow, Observation, MissingRow
  <2>4. StoreTypeOK' /\ LeaseTypeOK' /\ UNCHANGED << book, member >> /\ UNCHANGED << cycles, outsideVars >>
    BY <1>1, Kept, StoreTypes DEF CloseObserve, storeVars
  <2>5. CASE Record(m, ClosingRow(task[r].closing)) /\ GotoMember(r, "closeFinish", m)
    <3>1. OtherTypeOK'
      BY <2>3, <2>4, <2>5, Kept
    <3>2. /\ pc' \in [Runners -> Label]
          /\ cur' \in [Runners -> Members \union {NoMember}]
          /\ task' \in [Runners -> Task]
      BY <2>2, <2>5 DEF GotoMember, IInv, TypeOK, Label, Owning
    <3>3. TypeOK'
      BY <2>4, <3>1, <3>2 DEF TypeOK, OtherTypeOK, IInv
    <3>4. Working'
      BY <2>2, <2>5 DEF GotoMember, IInv, TypeOK, Working, Executing
    <3>5. \A q \in Runners : pc'[q] \in Executing => pc[q] = pc'[q] /\ cur'[q] = cur[q]
      BY <2>5 DEF GotoMember, IInv, TypeOK, Executing
    <3>6. Once'
      BY <2>4, <3>5 DEF IInv, Once, AtMostOnce, Executing
    <3> QED BY <3>3, <3>4, <3>6 DEF IInv
  <2>6. CASE Unwind(r) /\ UNCHANGED observation
    BY <2>4, <2>6, Kept, NoTaskIsTask, GotoInv DEF Unwind, Label, Owning, Executing
  <2> QED BY <2>1, <2>5, <2>6
<1>2. CASE CloseMember(r)
  <2>1. PICK m : CloseSettle(r, m)
    BY <1>2 DEF CloseMember
  <2>2. ClosingStatus(task[r].closing) \in SettledMember
    BY DEF ClosingStatus, SettledMember
  <2>3. StoreTypeOK' /\ \A n \in Members : member'[n] = "pending" => member[n] = "pending"
    BY <2>1, <2>2, Kept, StoreTypes, FinishLeavesPending DEF CloseSettle, storeVars
  <2>4. LeaseTypeOK' /\ OtherTypeOK' /\ UNCHANGED book
    BY <1>2, Kept DEF CloseMember
  <2>5. Goto(r, "close", Dropped(r, m)) \/ Unwind(r)
    BY <2>1 DEF CloseSettle
  <2> QED BY <2>3, <2>4, <2>5, TaskUpdates, NoTaskIsTask, GotoInv
          DEF Unwind, IInv, Label, Owning, Executing
<1>3. CASE CloseDone(r)
  <2>1. CASE GotoWrite(r, task[r].verdict)
    BY <1>3, <2>1, TaskUpdates, GotoWriteInv DEF CloseDone, IInv, Task
  <2>2. CASE Goto(r, "finalRead", NoTask)
    BY <1>3, <2>2, Kept, StoreTypes, NoTaskIsTask, GotoInv
       DEF CloseDone, Label, Owning, Executing, storeVars
  <2> QED BY <1>3, <2>1, <2>2 DEF CloseDone
<1> QED BY <1>1, <1>2, <1>3 DEF Settle

\* A runner at the loop takes a pending member: nobody else executes it, since
\* whoever executes a member has taken it out of pending.
LEMMA ClaimInv ==
  ASSUME IInv, NEW r \in Runners, NEW m \in Members, pc[r] = "loop",
         StartMember(m), GotoMember(r, "trade", m),
         UNCHANGED << lease, book, cycles, observation, outsideVars >>
  PROVE  IInv'
<1>1. StoreTypeOK' /\ LeaseTypeOK' /\ OtherTypeOK'
  BY Kept, StoreTypes
<1>2. /\ pc' = [pc EXCEPT ![r] = "trade"] /\ pc \in [Runners -> Label]
      /\ cur' = [cur EXCEPT ![r] = m] /\ cur \in [Runners -> Members \union {NoMember}]
      /\ task' = task /\ task \in [Runners -> Task]
  BY DEF GotoMember, IInv, TypeOK
<1>3. TypeOK'
  BY <1>1, <1>2 DEF TypeOK, OtherTypeOK, IInv, Label, Owning, Executing
<1>4. Working'
  BY <1>2 DEF IInv, Working, Executing
<1>5. /\ member[m] = "pending" /\ member'[m] = "running"
      /\ \A n \in Members : n # m => member'[n] = member[n]
      /\ book' = book
  BY DEF StartMember, IInv, TypeOK, StoreTypeOK
<1>6. \A q \in Runners : q # r => pc'[q] = pc[q] /\ cur'[q] = cur[q]
  BY <1>2
<1>7. \A q \in Runners : pc[q] \in Executing => cur[q] \in Members /\ cur[q] # m
  BY <1>5 DEF IInv, Once, Working
<1>8. pc'[r] = "trade" /\ cur'[r] = m
  BY <1>2
<1>9. Once'
  <2>1. \A n \in Members : member'[n] = "pending" => book'[n] = << >>
    BY <1>5 DEF IInv, Once
  <2>2. \A q \in Runners : pc'[q] \in Executing => member'[cur'[q]] # "pending"
    BY <1>5, <1>6, <1>7, <1>8 DEF IInv, Once
  <2>3. \A q \in Runners : pc'[q] = "trade" => book'[cur'[q]] = << >>
    BY <1>5, <1>6, <1>8 DEF IInv, Once
  <2>4. \A p, q \in Runners :
          p # q /\ pc'[p] \in Executing /\ pc'[q] \in Executing => cur'[p] # cur'[q]
    BY <1>6, <1>7, <1>8 DEF IInv, Once
  <2>5. \A n \in Members : Len(book'[n]) <= 1
    BY <1>5 DEF IInv, Once, AtMostOnce
  <2> QED BY <2>1, <2>2, <2>3, <2>4, <2>5 DEF Once, AtMostOnce
<1> QED BY <1>3, <1>4, <1>9 DEF IInv

\* A member is done with: it settles, and its runner goes on with its loop.
LEMMA DoneWithMemberInv ==
  ASSUME IInv, NEW r \in Runners, NEW m, NEW s \in SettledMember, FinishMember(m, s),
         pc[r] \in Executing, Goto(r, "loop", Dropped(r, m)),
         UNCHANGED << lease, book, cycles, observation, outsideVars >>
  PROVE  IInv'
<1>1. StoreTypeOK' /\ \A n \in Members : member'[n] = "pending" => member[n] = "pending"
  BY Kept, StoreTypes, FinishLeavesPending
<1>2. Dropped(r, m) \in Task /\ Dropped(r, m).captured \in Snapshots
  BY TaskUpdates DEF IInv, Working
<1> QED BY <1>1, <1>2, Kept, GotoInv DEF Label, Owning, Executing

\* Leaving run() without touching the store.
LEMMA UnwindInv ==
  ASSUME IInv, NEW r \in Runners, Unwind(r),
         UNCHANGED << storeVars, lease, book, cycles, observation, outsideVars >>
  PROVE  IInv'
BY Kept, StoreTypes, NoTaskIsTask, GotoInv DEF Unwind, Label, Owning, Executing, storeVars

LEMMA LoopInv ==
  ASSUME IInv, NEW r \in Runners, ClaimMember(r) \/ LoopDone(r) PROVE IInv'
<1>1. CASE ClaimMember(r)
  <2>1. PICK m \in task[r].todo :
          \/ StartMember(m) /\ GotoMember(r, "trade", m)
          \/ Goto(r, "loop", Dropped(r, m)) /\ UNCHANGED storeVars
    BY <1>1 DEF ClaimMember
  <2>2. m \in Members
    BY TaskUpdates DEF IInv, Task
  <2>3. CASE StartMember(m) /\ GotoMember(r, "trade", m)
    BY <1>1, <2>2, <2>3, ClaimInv DEF ClaimMember
  <2>4. CASE Goto(r, "loop", Dropped(r, m)) /\ UNCHANGED storeVars
    <3>1. Dropped(r, m) \in Task /\ Dropped(r, m).captured \in Snapshots
      BY <1>1, TaskUpdates DEF IInv, Working, ClaimMember
    <3> QED BY <1>1, <2>4, <3>1, Kept, StoreTypes, GotoInv
            DEF ClaimMember, Label, Owning, Executing, storeVars
  <2> QED BY <2>1, <2>3, <2>4
<1>2. CASE LoopDone(r)
  BY <1>2, Kept, StoreTypes, NoTaskIsTask, GotoInv
     DEF LoopDone, Label, Owning, Executing, storeVars
<1> QED BY <1>1, <1>2

LEMMA TradingInv ==
  ASSUME IInv, NEW r \in Runners, Trade(r) \/ TradeRaises(r) \/ RecordCycle(r) \/ RecordRaises(r)
  PROVE  IInv'
<1>1. /\ pc[r] \in Executing
      /\ {"recordCycle", "recordPartial", "recordOfficial"} \subseteq Executing \ {"trade"}
  BY DEF Trade, TradeRaises, RecordCycle, RecordRaises, Executing
<1>2. UNCHANGED << storeVars, lease >>
  BY DEF Trade, TradeRaises, RecordCycle, RecordRaises
<1>3. CASE Trade(r) \/ TradeRaises(r)
  <2>1. OtherTypeOK'
    BY <1>3, Kept DEF Trade, TradeRaises
  <2> QED BY <1>1, <1>2, <1>3, <2>1, GotoMemberInv DEF Trade, TradeRaises
<1>4. CASE RecordCycle(r)
  <2>1. cur[r] \in Members
    BY <1>1 DEF IInv, Working
  <2>2. OtherTypeOK'
    BY <1>4, <2>1, Kept DEF RecordCycle, OtherTypeOK, outsideVars
  <2> QED BY <1>1, <1>2, <1>4, <2>2, GotoMemberInv DEF RecordCycle
<1>5. CASE RecordRaises(r)
  <2>1. OtherTypeOK'
    BY <1>5, Kept DEF RecordRaises
  <2> QED BY <1>1, <1>2, <1>5, <2>1, GotoMemberInv DEF RecordRaises
<1> QED BY <1>3, <1>4, <1>5

LEMMA RecordingInv ==
  ASSUME IInv, NEW r \in Runners, RecordOfficial(r) \/ RecordPartial(r)
  PROVE  IInv'
<1>1. /\ pc[r] \in Executing
      /\ {"complete", "recordPartial", "finishFailed"} \subseteq Executing \ {"trade"}
      /\ {"official", "partial"} \subseteq Observation
  BY DEF RecordOfficial, RecordPartial, Executing, Observation
<1>2. UNCHANGED << storeVars, lease, book, cycles, outsideVars >>
  BY DEF RecordOfficial, RecordPartial
<1>3. ASSUME NEW row \in Observation, NEW l \in Executing \ {"trade"},
             Record(cur[r], row) \/ UNCHANGED observation, GotoMember(r, l, cur[r])
      PROVE  IInv'
  <2>1. OtherTypeOK'
    BY <1>2, <1>3, Kept
  <2> QED BY <1>1, <1>2, <1>3, <2>1, GotoMemberInv
<1>4. CASE RecordOfficial(r)
  BY <1>1, <1>3, <1>4 DEF RecordOfficial
<1>5. CASE RecordPartial(r)
  <2>1. CASE RecordAccepted(cur[r], "partial")
    BY <1>1, <1>3, <1>5, <2>1 DEF RecordPartial
  <2>2. CASE ~RecordAccepted(cur[r], "partial")
    BY <1>2, <1>5, <2>2, UnwindInv DEF RecordPartial
  <2> QED BY <2>1, <2>2
<1> QED BY <1>4, <1>5

LEMMA FinishingInv ==
  ASSUME IInv, NEW r \in Runners, CompleteMember(r) \/ FailMember(r)
  PROVE  IInv'
<1>1. {"completed", "failed"} \subseteq SettledMember /\ {"complete", "finishFailed"} \subseteq Executing
  BY DEF SettledMember, Executing
<1>2. CASE CompleteMember(r)
  BY <1>1, <1>2, DoneWithMemberInv DEF CompleteMember
<1>3. CASE FailMember(r)
  <2>1. CASE FinishAccepted(cur[r], "failed")
    BY <1>1, <1>3, <2>1, DoneWithMemberInv DEF FailMember
  <2>2. CASE ~FinishAccepted(cur[r], "failed")
    BY <1>3, <2>2, UnwindInv DEF FailMember
  <2> QED BY <2>1, <2>2
<1> QED BY <1>2, <1>3

LEMMA OutcomeInv ==
  ASSUME IInv, NEW r \in Runners, ReadOutcome(r) \/ WriteOutcome(r)
  PROVE  IInv'
<1>1. CASE ReadOutcome(r)
  BY <1>1, Kept, StoreTypes, GotoWriteInv DEF ReadOutcome
<1>2. CASE WriteOutcome(r)
  <2>1. task[r].verdict \in RunStatus
    BY TaskUpdates DEF IInv, Task
  <2>2. StoreTypeOK' /\ UNCHANGED member
    BY <1>2, <2>1, Kept, StoreTypes DEF WriteOutcome, SetStatus
  <2> QED BY <1>2, <2>2, Kept, NoTaskIsTask, GotoInv
          DEF WriteOutcome, Label, Owning, Executing
<1> QED BY <1>1, <1>2

LEMMA InitInv == Init => IInv
<1> SUFFICES ASSUME Init PROVE IInv
  OBVIOUS
<1>1. TypeOK
  <2>1. StoreTypeOK /\ LeaseTypeOK
    BY DEF Init, StoreInit, LeaseInit, StoreTypeOK, LeaseTypeOK, FreeLease, RunStatus, MemberStatus
  <2>2. OtherTypeOK
    BY RunAssumption DEF Init, OtherTypeOK, Observation, Phase
  <2>3. /\ pc \in [Runners -> Label]
        /\ cur \in [Runners -> Members \union {NoMember}]
        /\ task \in [Runners -> Task]
        /\ book \in [Members -> Seq(Snapshots)]
    BY NoTaskIsTask DEF Init, Label
  <2> QED BY <2>1, <2>2, <2>3 DEF TypeOK, OtherTypeOK
<1>2. Working
  BY DEF Init, Working, Executing
<1>3. Once
  BY DEF Init, Once, AtMostOnce, Executing
<1> QED BY <1>1, <1>2, <1>3 DEF IInv

LEMMA StepInv == IInv /\ [Next]_vars => IInv'
<1> SUFFICES ASSUME IInv, [Next]_vars PROVE IInv'
  OBVIOUS
<1>1. CASE Tick \/ LeaseRunsOut
  BY <1>1, EnvironmentInv
<1>2. ASSUME NEW r \in Runners, Decide(r) \/ Proceed(r) \/ RecordRaises(r) \/ Crash(r) \/ Abort(r)
      PROVE  IInv'
  <2>1. CASE Proceed(r)
    <3>1. CASE Enter(r) \/ Refused(r) \/ Release(r)
      BY <3>1, OwnershipInv
    <3>2. CASE MarkRunning(r) \/ RecoverMember(r) \/ Reload(r)
      BY <3>2, RecoveryInv
    <3>3. CASE Ensure(r) \/ Capture(r) \/ BindSnapshot(r) \/ BindRefused(r) \/ Settle(r)
      BY <3>3, EnsureInv, CaptureInv, BindInv, SettleInv
    <3>4. CASE Execute(r)
      BY <3>4, LoopInv, TradingInv, RecordingInv, FinishingInv DEF Execute
    <3>5. CASE ReadOutcome(r) \/ WriteOutcome(r)
      BY <3>5, OutcomeInv
    <3> QED BY <2>1, <3>1, <3>2, <3>3, <3>4, <3>5 DEF Proceed
  <2> QED BY <1>2, <2>1, OwnershipInv, TradingInv, FaultInv
<1>3. CASE UNCHANGED vars
  <2>1. UNCHANGED << storeVars, localVars, lease, book, cycles, observation, outsideVars >>
    BY <1>3 DEF vars, storeVars, localVars, outsideVars
  <2> QED BY <2>1, Kept, StoreTypes
          DEF IInv, TypeOK, OtherTypeOK, Working, Once, AtMostOnce, storeVars, localVars
<1> QED BY <1>1, <1>2, <1>3 DEF Next

-----------------------------------------------------------------------------
(* Theorems *)

\* The inductive invariant holds in every reachable state.
THEOREM Invariance == Spec => []IInv
BY InitInv, StepInv, PTL DEF Spec

\* Every variable of a session keeps the values the code gives it, for any
\* number of members, runners and faults.
THEOREM TypeCorrect == Spec => []TypeOK
<1>1. IInv => TypeOK
  BY DEF IInv
<1> QED BY <1>1, Invariance, PTL

\* No member's paper account executes the session twice, whatever the backend
\* and however many runners take the session over from one another.
THEOREM ExecutesAtMostOnce == Spec => []AtMostOnce
<1>1. IInv => AtMostOnce
  BY DEF IInv, Once
<1> QED BY <1>1, Invariance, PTL

-----------------------------------------------------------------------------
(* A session that is one runner's at a time *)

Exclusive == AdvisoryLock \/ ~SlowRunners

\* Whoever acts on the session holds its lease, and only a dead runner's expires.
Owned ==
  /\ lease.fresh \/ lease.holder = Orphan
  /\ \A r \in Runners : pc[r] \in Owning => lease.holder = r

Only(status, S) == \A m \in Members : member[m] = status <=> m \in S

Untouched == \A m \in Members : member[m] = "pending"

\* The members justify what finalize is about to write, or has written.
Justified(verdict) ==
  LET done == MembersIn("completed") IN
  verdict \in {"completed", "partial", "failed"} =>
    /\ \A m \in Members : member[m] \in SettledMember
    /\ verdict = "completed" <=> done = Members
    /\ verdict = "failed" <=> done = {}

\* What the locals of the owner and the durable rows say of each other, at each
\* place of _run_owned.
StageOf(r) ==
  LET l == pc[r]
      t == task[r]
      c == cur[r]
  IN
  /\ l \in Owning \ {"owned", "release"} => runStatus \notin TerminalRun
  /\ l \in {"recover", "capture", "bind", "loop"} \union Executing => runStatus = "running"
  /\ l \in {"mark", "recover"} => \A m \in Members : member[m] = "running" => m \in t.todo
  /\ l \in {"capture", "bind", "loop", "close", "closeFinish"} => Only("pending", t.todo)
  /\ l \in {"capture", "bind", "loop"} => Only("running", {})
  /\ l \in {"capture", "bind"} /\ ~t.executed => Untouched
  /\ l \in {"close", "closeFinish"} =>
       IF t.closing \in {"skip", "expire"}
       THEN t.verdict \in {"missed", "skipped-closed-session"}
       ELSE runStatus = "running" /\ Only("running", {})
  /\ l = "closeFinish" => c \in t.todo
  /\ l \in Executing => Only("running", {c}) /\ Only("pending", t.todo \ {c})
  /\ l \in {"loop"} \union Executing => snapshot = t.captured
  /\ l = "finalRead" => Only("running", {}) /\ Only("pending", {})
  /\ l = "write" => Justified(t.verdict) /\ (t.verdict = "awaiting-data" => Untouched)

Staged == \A r \in Runners : StageOf(r)

\* What the rows and the books say of each other, whoever acts.
Settled ==
  /\ completed = MembersIn("completed")
  /\ SnapshotIntegrity
  /\ \A m \in Members :
       book[m] # << >> => member[m] \in {"running", "completed", "failed", "interrupted"}
  /\ runStatus = "awaiting-data" =>
       \A m \in Members : member[m] \in {"pending", "data-not-ready", "skipped"}
  /\ Justified(runStatus)

XInv == Owned /\ Staged /\ Settled

-----------------------------------------------------------------------------
(* One owner, and what follows for a step of it *)

\* No other runner can be past its acquisition of the lease.
LEMMA Alone ==
  ASSUME Owned, NEW r \in Runners, pc[r] \in Owning, NEW q \in Runners, q # r
  PROVE  pc[q] \notin Owning
BY DEF Owned

LEMMA AwayStage ==
  ASSUME NEW r \in Runners, pc[r] \notin Owning \/ pc[r] \in {"owned", "release"}
  PROVE  StageOf(r)
BY DEF StageOf, Owning, Executing

\* Only r moves.
Moves(r) ==
  \A q \in Runners : q # r => pc'[q] = pc[q] /\ task'[q] = task[q] /\ cur'[q] = cur[q]

LEMMA GotoIs ==
  ASSUME TypeOK, NEW r \in Runners, NEW l, NEW t, Goto(r, l, t)
  PROVE  Moves(r) /\ pc'[r] = l /\ task'[r] = t /\ cur'[r] = NoMember
BY DEF TypeOK, Goto, Moves

LEMMA GotoMemberIs ==
  ASSUME TypeOK, NEW r \in Runners, NEW l, NEW m, GotoMember(r, l, m)
  PROVE  Moves(r) /\ pc'[r] = l /\ task'[r] = task[r] /\ cur'[r] = m
BY DEF TypeOK, GotoMember, Moves

LEMMA TaskIs == ASSUME TypeOK, NEW r \in Runners PROVE task[r] \in Task
BY DEF TypeOK

LEMMA DroppedIs ==
  ASSUME TypeOK, NEW r \in Runners
  PROVE  \A m : /\ Dropped(r, m).todo = task[r].todo \ {m}
                /\ Dropped(r, m).captured = task[r].captured
                /\ Dropped(r, m).closing = task[r].closing
                /\ Dropped(r, m).verdict = task[r].verdict
BY TaskIs DEF Dropped, Task

LEMMA SettledKept == ASSUME Settled, UNCHANGED << storeVars, book >> PROVE Settled'
BY DEF Settled, SnapshotIntegrity, Justified, MembersIn, storeVars

\* The owner goes on: the others are outside, so its own stage is all there is to see.
LEMMA OwnerStep ==
  ASSUME XInv, NEW r \in Runners, pc[r] \in Owning, Moves(r), UNCHANGED lease,
         StageOf(r)', Settled'
  PROVE  XInv'
<1>1. \A q \in Runners : q # r => pc'[q] \notin Owning
  BY Alone DEF XInv, Moves
<1>2. Owned'
  BY <1>1 DEF XInv, Owned
<1>3. Staged'
  <2> SUFFICES ASSUME NEW q \in Runners PROVE StageOf(q)'
    BY DEF Staged
  <2>1. CASE q = r
    BY <2>1
  <2>2. CASE q # r
    BY <1>1, <2>2 DEF StageOf, Owning, Executing
  <2> QED BY <2>1, <2>2
<1> QED BY <1>2, <1>3 DEF XInv

\* An exception leaves through the release of the lease.
LEMMA UnwindStep ==
  ASSUME TypeOK, XInv, NEW r \in Runners, pc[r] \in Owning, Unwind(r),
         UNCHANGED << storeVars, lease, book >>
  PROVE  XInv'
<1>1. Moves(r) /\ pc'[r] = "release"
  BY GotoIs DEF Unwind
<1>2. StageOf(r)'
  BY <1>1 DEF StageOf, Executing
<1> QED BY <1>1, <1>2, OwnerStep, SettledKept DEF XInv

-----------------------------------------------------------------------------
(* Steps of the environment, faults, and who owns the session *)

LEMMA EnvironmentStep ==
  ASSUME Exclusive, TypeOK, XInv, Tick \/ LeaseRunsOut PROVE XInv'
<1>1. UNCHANGED << storeVars, localVars, book >>
  BY DEF Tick, LeaseRunsOut
<1>2. Owned'
  BY <1>1 DEF Exclusive, XInv, Owned, Tick, LeaseRunsOut, ExpireLease, localVars, TypeOK, LeaseTypeOK
<1>3. Staged'
  BY <1>1 DEF XInv, Staged, StageOf, Only, Untouched, Justified, MembersIn, storeVars, localVars
<1> QED BY <1>1, <1>2, <1>3, SettledKept DEF XInv

\* A runner outside moves to another place outside: nothing it could say changes.
LEMMA OutsideStep ==
  ASSUME TypeOK, XInv, NEW r \in Runners, Moves(r), pc'[r] \notin Owning,
         UNCHANGED << storeVars, book >>,
         lease'.fresh \/ lease'.holder = Orphan,
         \A q \in Runners : q # r /\ pc[q] \in Owning => lease'.holder = q
  PROVE  XInv'
<1>1. Owned'
  BY DEF Owned, Moves
<1>2. \A q \in Runners : StageOf(q)'
  <2> SUFFICES ASSUME NEW q \in Runners PROVE StageOf(q)'
    OBVIOUS
  <2>1. CASE q = r
    BY <2>1 DEF StageOf, Owning, Executing
  <2>2. CASE q # r
    BY <2>2 DEF XInv, Staged, StageOf, Moves, Only, Untouched, Justified, MembersIn, storeVars
  <2> QED BY <2>1, <2>2
<1> QED BY <1>1, <1>2, SettledKept DEF XInv, Staged

LEMMA FaultStep ==
  ASSUME TypeOK, XInv, NEW r \in Runners, Crash(r) \/ Abort(r) PROVE XInv'
<1>1. CASE Crash(r)
  <2>1. Moves(r) /\ pc'[r] \notin Owning
    BY <1>1, GotoIs DEF Crash, Owning, Executing
  <2>2. /\ lease'.fresh \/ lease'.holder = Orphan
        /\ \A q \in Runners : q # r /\ pc[q] \in Owning => lease'.holder = q
    BY <1>1, LeaseAssumption
       DEF Crash, AbandonLease, XInv, Owned, FreeLease, TypeOK, LeaseTypeOK
  <2> QED BY <1>1, <2>1, <2>2, OutsideStep DEF Crash
<1>2. CASE Abort(r)
  BY <1>2, UnwindStep DEF Abort
<1> QED BY <1>1, <1>2

LEMMA OwnershipStep ==
  ASSUME TypeOK, XInv, NEW r \in Runners, Decide(r) \/ Enter(r) \/ Refused(r) \/ Release(r)
  PROVE  XInv'
<1>1. CASE Decide(r) \/ Refused(r)
  <2>1. Moves(r) /\ pc'[r] \notin Owning
    BY <1>1, GotoIs DEF Decide, Refused, Owning, Executing
  <2> QED BY <1>1, <2>1, OutsideStep DEF Decide, Refused, XInv, Owned
<1>2. CASE Enter(r)
  <2>1. Moves(r) /\ pc'[r] = "owned" /\ lease' = [holder |-> r, fresh |-> TRUE]
    BY <1>2, GotoIs DEF Enter, AcquireLease
  <2>2. \A q \in Runners : q # r => pc'[q] \notin Owning
    BY <1>2, <2>1, LeaseAssumption DEF Enter, AcquireLease, LeaseAvailable, XInv, Owned, Moves
  <2>3. Owned'
    BY <2>1, <2>2 DEF Owned
  <2>4. Staged'
    <3> SUFFICES ASSUME NEW q \in Runners PROVE StageOf(q)'
      BY DEF Staged
    <3>1. pc'[q] \notin Owning \/ pc'[q] = "owned"
      BY <2>1, <2>2
    <3> QED BY <3>1 DEF StageOf, Owning, Executing
  <2> QED BY <1>2, <2>3, <2>4, SettledKept DEF Enter, XInv
<1>3. CASE Release(r)
  <2>1. Moves(r) /\ pc'[r] \notin Owning
    BY <1>3, GotoIs DEF Release, Owning, Executing
  <2>2. /\ lease'.fresh \/ lease'.holder = Orphan
        /\ \A q \in Runners : q # r /\ pc[q] \in Owning => lease'.holder = q
    BY <1>3 DEF Release, ReleaseLease, XInv, Owned, FreeLease
  <2> QED BY <1>3, <2>1, <2>2, OutsideStep DEF Release
<1> QED BY <1>1, <1>2, <1>3

-----------------------------------------------------------------------------
(* Steps of the owner up to the snapshot *)

LEMMA EnsureStage ==
  ASSUME TypeOK, XInv, NEW r \in Runners, Ensure(r) PROVE XInv'
<1>1. /\ pc[r] = "owned" /\ pc[r] \in Owning
      /\ EnsureRun
      /\ UNCHANGED << snapshot, completed, member, lease, book >>
  BY DEF Ensure, LeaveAlone, Postpone, SkipClosedSession, SkipMissedSession,
     ExpireAwaitingData, BeginExecution, EnsureStep, EnsureRun, Owning
<1>2. runStatus' = EnsuredStatus /\ (runStatus' = runStatus \/ runStatus' = "pending")
  BY <1>1 DEF EnsureRun, EnsuredStatus
<1>3. Settled'
  BY <1>1, <1>2 DEF XInv, Settled, SnapshotIntegrity, Justified, MembersIn
<1>4. CASE LeaveAlone(r)
  <2>1. Moves(r) /\ pc'[r] = "release"
    BY <1>4, GotoIs DEF LeaveAlone
  <2>2. StageOf(r)'
    BY <2>1 DEF StageOf, Executing
  <2> QED BY <1>1, <1>3, <2>1, <2>2, OwnerStep
<1>5. CASE ~LeaveAlone(r)
  <2>1. runStatus' \notin TerminalRun
    BY <1>2, <1>5 DEF Ensure, LeaveAlone, Postpone, SkipClosedSession, SkipMissedSession,
       ExpireAwaitingData, BeginExecution, EnsureStep, Asks
  <2>2. CASE Postpone(r)
    <3>1. Moves(r) /\ pc'[r] = "write" /\ task'[r] = [NoTask EXCEPT !.verdict = "pending"]
      BY <2>2, GotoIs DEF Postpone, GotoWrite
    <3>2. StageOf(r)'
      BY <2>1, <3>1 DEF StageOf, Executing, Justified, NoTask
    <3> QED BY <1>1, <1>3, <3>1, <3>2, OwnerStep
  <2>3. CASE BeginExecution(r)
    <3>1. Moves(r) /\ pc'[r] = "mark" /\ task'[r] = [NoTask EXCEPT !.todo = MembersIn("running")]
      BY <2>3, GotoIs DEF BeginExecution
    <3>2. StageOf(r)'
      BY <1>1, <2>1, <3>1 DEF StageOf, Executing, MembersIn, NoTask
    <3> QED BY <1>1, <1>3, <3>1, <3>2, OwnerStep
  <2>4. CASE SkipClosedSession(r) \/ SkipMissedSession(r) \/ ExpireAwaitingData(r)
    <3>1. PICK c \in {"skip", "expire"}, v \in {"missed", "skipped-closed-session"} :
            BeginClosing(r, c, v)
      BY <2>4 DEF SkipClosedSession, SkipMissedSession, ExpireAwaitingData
    <3>2. /\ Moves(r) /\ pc'[r] = "close"
          /\ task'[r] = [NoTask EXCEPT !.closing = c, !.verdict = v,
                                       !.todo = MembersIn("pending")]
      BY <3>1, GotoIs DEF BeginClosing
    <3>3. task'[r].closing = c /\ task'[r].verdict = v /\ task'[r].todo = MembersIn("pending")
      BY <3>2 DEF NoTask
    <3>4. StageOf(r)'
      BY <1>1, <2>1, <3>2, <3>3 DEF StageOf, Executing, Only, MembersIn
    <3> QED BY <1>1, <1>3, <3>2, <3>4, OwnerStep
  <2> QED BY <1>5, <2>2, <2>3, <2>4 DEF Ensure
<1> QED BY <1>4, <1>5

\* finish_member moves one member, never out of "completed", and keeps the list.
LEMMA FinishIs ==
  ASSUME StoreTypeOK, NEW m, NEW s \in SettledMember, FinishMember(m, s),
         completed = MembersIn("completed")
  PROVE  /\ completed' = MembersIn("completed")'
         /\ \A n \in Members : n # m => member'[n] = member[n]
         /\ m \in Members => member'[m] = s
         /\ UNCHANGED << runStatus, snapshot >>
BY DEF FinishMember, FinishAccepted, StoreTypeOK, MembersIn

\* Settling a member is consistent with its book as long as the row it gets
\* answers for what the book says.
LEMMA FinishSettled ==
  ASSUME TypeOK, Settled, NEW m \in Members, NEW s \in SettledMember, FinishMember(m, s),
         UNCHANGED book, runStatus \notin TerminalRun,
         book[m] # << >> => s \in {"completed", "failed", "interrupted"},
         runStatus = "awaiting-data" => s \in {"data-not-ready", "skipped"}
  PROVE  Settled'
<1>1. StoreTypeOK
  BY DEF TypeOK
<1>2. /\ completed' = MembersIn("completed")'
      /\ \A n \in Members : n # m => member'[n] = member[n]
      /\ member'[m] = s
      /\ UNCHANGED << runStatus, snapshot >>
  BY <1>1, FinishIs DEF Settled
<1>3. SnapshotIntegrity'
  BY <1>2 DEF Settled, SnapshotIntegrity
<1>4. Justified(runStatus)'
  BY <1>2 DEF Justified, TerminalRun
<1> QED BY <1>2, <1>3, <1>4 DEF Settled

LEMMA RecoveryStage ==
  ASSUME TypeOK, XInv, NEW r \in Runners, MarkRunning(r) \/ RecoverMember(r) \/ Reload(r)
  PROVE  XInv'
<1>1. pc[r] \in {"mark", "recover"} /\ pc[r] \in Owning /\ StageOf(r) /\ UNCHANGED << lease, book >>
  BY DEF MarkRunning, RecoverMember, Reload, XInv, Staged, Owning
<1>2. CASE MarkRunning(r)
  <2>1. Moves(r) /\ pc'[r] = "recover" /\ task'[r] = task[r] /\ pc[r] = "mark"
    BY <1>2, GotoIs DEF MarkRunning
  <2>2. runStatus' = "running" /\ UNCHANGED << snapshot, completed, member >>
    BY <1>2 DEF MarkRunning, SetStatus
  <2>3. StageOf(r)'
    BY <1>1, <2>1, <2>2 DEF StageOf, Executing, Owning, TerminalRun
  <2>4. Settled'
    BY <1>1, <2>2 DEF XInv, Settled, SnapshotIntegrity, Justified, MembersIn
  <2> QED BY <1>1, <2>1, <2>3, <2>4, OwnerStep
<1>3. CASE RecoverMember(r)
  <2>1. PICK m \in task[r].todo, s \in {"completed", "interrupted"} :
          \/ FinishMember(m, s) /\ Goto(r, "recover", Dropped(r, m))
          \/ Unwind(r) /\ UNCHANGED storeVars
    BY <1>3 DEF RecoverMember
  <2>2. m \in Members /\ s \in SettledMember /\ pc[r] = "recover" /\ StoreTypeOK
    BY <1>3, TaskUpdates DEF TypeOK, Task, SettledMember, RecoverMember
  <2>3. CASE FinishMember(m, s) /\ Goto(r, "recover", Dropped(r, m))
    <3>1. Moves(r) /\ pc'[r] = "recover" /\ task'[r].todo = task[r].todo \ {m}
      BY <2>3, GotoIs, DroppedIs
    <3>2. Settled'
      BY <1>1, <2>2, <2>3, FinishSettled DEF StageOf, XInv, TerminalRun
    <3>3. /\ \A n \in Members : n # m => member'[n] = member[n]
          /\ member'[m] = s
          /\ UNCHANGED runStatus
      BY <2>2, <2>3, FinishIs DEF XInv, Settled
    <3>4. StageOf(r)'
      BY <1>1, <2>2, <3>1, <3>3 DEF StageOf, Executing
    <3> QED BY <1>1, <3>1, <3>2, <3>4, OwnerStep
  <2>4. CASE Unwind(r) /\ UNCHANGED storeVars
    BY <1>1, <2>4, UnwindStep
  <2> QED BY <2>1, <2>3, <2>4
<1>4. CASE Reload(r)
  <2>1. PICK l \in {"finalRead", "capture"} :
          /\ Goto(r, l, [NoTask EXCEPT !.todo = MembersIn("pending"),
                                       !.executed = MembersIn("pending") # Members,
                                       !.seen = snapshot])
          /\ l = "finalRead" => MembersIn("pending") = {}
    BY <1>4 DEF Reload
  <2>2. /\ Moves(r) /\ pc'[r] = l
        /\ task'[r] = [NoTask EXCEPT !.todo = MembersIn("pending"),
                                     !.executed = MembersIn("pending") # Members,
                                     !.seen = snapshot]
    BY <2>1, GotoIs
  <2>3. task'[r].todo = MembersIn("pending") /\ (~task'[r].executed => MembersIn("pending") = Members)
    BY <2>2 DEF NoTask
  <2>4. UNCHANGED storeVars /\ pc[r] = "recover" /\ task[r].todo = {}
    BY <1>4 DEF Reload
  <2>5. runStatus = "running" /\ Only("running", {})
    BY <1>1, <2>4 DEF StageOf, Only
  <2>6. StageOf(r)'
    BY <2>1, <2>2, <2>3, <2>4, <2>5
       DEF StageOf, Executing, Owning, Only, Untouched, MembersIn, storeVars, TerminalRun
  <2> QED BY <1>1, <2>2, <2>4, <2>6, OwnerStep, SettledKept DEF XInv
<1> QED BY <1>2, <1>3, <1>4

\* The provider's answers: nothing durable changes before the binding.
LEMMA CloseStage ==
  ASSUME TypeOK, XInv, NEW r \in Runners, pc[r] \in {"capture", "bind"},
         NEW c \in Closing \ {"skip", "expire"}, Close(r, c),
         UNCHANGED << storeVars, lease, book >>
  PROVE  XInv'
<1>1. Moves(r) /\ pc'[r] = "close" /\ task'[r] = [NoTask EXCEPT !.closing = c, !.todo = task[r].todo]
  BY GotoIs DEF Close
<1>2. task'[r].closing = c /\ task'[r].todo = task[r].todo
  BY <1>1 DEF NoTask
<1>3. pc[r] \in Owning /\ StageOf(r)
  BY DEF XInv, Staged, Owning
<1>4. StageOf(r)'
  BY <1>1, <1>2, <1>3 DEF StageOf, Executing, Owning, Only, storeVars, TerminalRun
<1> QED BY <1>1, <1>3, <1>4, OwnerStep, SettledKept DEF XInv

LEMMA CaptureStage ==
  ASSUME TypeOK, XInv, NEW r \in Runners, Capture(r) \/ BindSnapshot(r) \/ BindRefused(r)
  PROVE  XInv'
<1>1. pc[r] \in {"capture", "bind"} /\ pc[r] \in Owning /\ StageOf(r) /\ UNCHANGED << lease, book >>
  BY DEF Capture, MethodologyInvalid, NeedsReauthentication, SnapshotUnavailable, Capturing,
     PreflightMisconfigured, PreflightNotReady, PreflightReady, BindSnapshot, BindRefused,
     XInv, Staged, Owning
<1>2. {"methodology", "failed", "misconfigured", "unready"} \subseteq Closing \ {"skip", "expire"}
  BY DEF Closing
<1>3. ASSUME NEW c \in {"methodology", "failed", "misconfigured", "unready"}, Close(r, c),
             UNCHANGED storeVars
      PROVE  XInv'
  BY <1>1, <1>2, <1>3, CloseStage
<1>4. ASSUME GotoWrite(r, "awaiting-data"), ~task[r].executed, UNCHANGED storeVars PROVE XInv'
  <2>1. Moves(r) /\ pc'[r] = "write" /\ task'[r] = [NoTask EXCEPT !.verdict = "awaiting-data"]
    BY <1>4, GotoIs DEF GotoWrite
  <2>2. task'[r].verdict = "awaiting-data"
    BY <2>1 DEF NoTask
  <2>3. StageOf(r)'
    BY <1>1, <1>4, <2>1, <2>2 DEF StageOf, Executing, Owning, Justified, Untouched, storeVars, TerminalRun
  <2> QED BY <1>1, <1>4, <2>1, <2>3, OwnerStep, SettledKept DEF XInv
<1>5. CASE PreflightReady(r)
  <2>1. PICK s \in Snapshots : Goto(r, "bind", [task[r] EXCEPT !.captured = s, !.seen = NoSnapshot])
    BY <1>5 DEF PreflightReady
  <2>2. Moves(r) /\ pc'[r] = "bind" /\ task'[r] = [task[r] EXCEPT !.captured = s, !.seen = NoSnapshot]
    BY <2>1, GotoIs
  <2>3. task'[r].todo = task[r].todo /\ task'[r].executed = task[r].executed
    BY <2>2, TaskIs DEF Task
  <2>4. UNCHANGED storeVars /\ pc[r] = "capture"
    BY <1>5 DEF PreflightReady, Capturing
  <2>5. StageOf(r)'
    BY <1>1, <2>2, <2>3, <2>4 DEF StageOf, Executing, Owning, Only, Untouched, storeVars, TerminalRun
  <2> QED BY <1>1, <2>2, <2>4, <2>5, OwnerStep, SettledKept DEF XInv
<1>6. CASE BindSnapshot(r)
  <2>1. Moves(r) /\ pc'[r] = "loop" /\ task'[r] = task[r] /\ pc[r] = "bind"
    BY <1>6, GotoIs DEF BindSnapshot
  <2>2. /\ snapshot' = task[r].captured /\ UNCHANGED << runStatus, completed, member >>
        /\ SnapshotAccepted(task[r].captured, ~task[r].executed)
    BY <1>6 DEF BindSnapshot, SetSnapshot
  <2>3. StageOf(r)'
    BY <1>1, <2>1, <2>2 DEF StageOf, Executing, Owning, Only, TerminalRun
  <2>4. \A m \in Members : book[m] # << >> => snapshot' = snapshot
    <3> SUFFICES ASSUME NEW m \in Members, book[m] # << >> PROVE snapshot' = snapshot
      OBVIOUS
    <3>1. book[m] = << snapshot >> /\ book[m] \in Seq(Snapshots) /\ member[m] # "pending"
      BY DEF XInv, Settled, SnapshotIntegrity, TypeOK
    <3>2. snapshot # NoSnapshot
      <4>1. book[m][1] = snapshot /\ book[m][1] \in Snapshots
        BY <3>1
      <4> QED BY <4>1, SnapshotAssumption
    <3>3. task[r].executed
      BY <1>1, <2>1, <3>1 DEF StageOf, Untouched
    <3> QED BY <2>2, <3>2, <3>3 DEF SnapshotAccepted
  <2>5. Settled'
    BY <1>1, <2>2, <2>4 DEF XInv, Settled, SnapshotIntegrity, Justified, MembersIn
  <2> QED BY <1>1, <2>1, <2>3, <2>5, OwnerStep
<1>7. CASE BindRefused(r)
  BY <1>3, <1>7 DEF BindRefused
<1> QED BY <1>3, <1>4, <1>5, <1>6, <1>7
        DEF Capture, MethodologyInvalid, NeedsReauthentication, SnapshotUnavailable, Capturing,
            PreflightMisconfigured, PreflightNotReady

-----------------------------------------------------------------------------
(* Members that are settled without executing, and members that execute *)

LEMMA SettleStage ==
  ASSUME TypeOK, XInv, NEW r \in Runners, Settle(r) PROVE XInv'
<1>1. /\ pc[r] \in {"close", "closeFinish"} /\ pc[r] \in Owning /\ StageOf(r)
      /\ UNCHANGED << lease, book >>
  BY DEF Settle, CloseObserve, CloseMember, CloseDone, XInv, Staged, Owning
<1>2. CASE CloseObserve(r)
  <2>1. PICK m \in task[r].todo : GotoMember(r, "closeFinish", m) \/ Unwind(r)
    BY <1>2 DEF CloseObserve
  <2>2. UNCHANGED storeVars /\ pc[r] = "close"
    BY <1>2 DEF CloseObserve
  <2>3. CASE GotoMember(r, "closeFinish", m)
    <3>1. Moves(r) /\ pc'[r] = "closeFinish" /\ task'[r] = task[r] /\ cur'[r] = m
      BY <2>3, GotoMemberIs
    <3>2. StageOf(r)'
      BY <1>1, <2>2, <3>1 DEF StageOf, Executing, Owning, Only, storeVars, TerminalRun
    <3> QED BY <1>1, <2>2, <3>1, <3>2, OwnerStep, SettledKept DEF XInv
  <2>4. CASE Unwind(r)
    BY <1>1, <2>2, <2>4, UnwindStep
  <2> QED BY <2>1, <2>3, <2>4
<1>3. CASE CloseMember(r)
  <2> DEFINE s == ClosingStatus(task[r].closing)
  <2>1. PICK m \in task[r].todo : CloseSettle(r, m)
    BY <1>1, <1>3 DEF CloseMember, StageOf
  <2>2. /\ m \in Members /\ s \in {"skipped", "failed", "data-not-ready"}
        /\ s = "failed" => task[r].closing = "failed"
    BY TaskIs DEF Task, ClosingStatus
  <2>3. /\ member[m] = "pending" /\ book[m] = << >> /\ runStatus \notin TerminalRun
        /\ runStatus = "awaiting-data" => s # "failed"
    BY <1>1, <2>2 DEF StageOf, Only, XInv, Settled, Owning
  <2>4. StoreTypeOK /\ s \in SettledMember
    BY <2>2 DEF TypeOK, SettledMember
  <2>5. CASE FinishMember(m, s) /\ Goto(r, "close", Dropped(r, m))
    <3>1. /\ Moves(r) /\ pc'[r] = "close" /\ task'[r].todo = task[r].todo \ {m}
          /\ task'[r].closing = task[r].closing /\ task'[r].verdict = task[r].verdict
      BY <2>5, GotoIs, DroppedIs
    <3>2. /\ \A n \in Members : n # m => member'[n] = member[n]
          /\ member'[m] = s
          /\ UNCHANGED runStatus
      BY <2>2, <2>4, <2>5, FinishIs DEF XInv, Settled
    <3>3. Settled'
      BY <1>1, <2>2, <2>3, <2>4, <2>5, FinishSettled DEF XInv
    <3>4. StageOf(r)'
      BY <1>1, <2>2, <3>1, <3>2 DEF StageOf, Executing, Owning, Only, TerminalRun
    <3> QED BY <1>1, <3>1, <3>3, <3>4, OwnerStep
  <2>6. CASE Unwind(r) /\ UNCHANGED storeVars
    BY <1>1, <2>6, UnwindStep
  <2> QED BY <2>1, <2>5, <2>6 DEF CloseSettle
<1>4. CASE CloseDone(r)
  <2>1. /\ UNCHANGED storeVars /\ pc[r] = "close" /\ task[r].todo = {}
        /\ IF task[r].closing \in {"skip", "expire"}
           THEN GotoWrite(r, task[r].verdict) ELSE Goto(r, "finalRead", NoTask)
    BY <1>4 DEF CloseDone
  <2>2. CASE task[r].closing \in {"skip", "expire"}
    <3>1. Moves(r) /\ pc'[r] = "write" /\ task'[r] = [NoTask EXCEPT !.verdict = task[r].verdict]
      BY <2>1, <2>2, GotoIs DEF GotoWrite
    <3>2. task'[r].verdict \in {"missed", "skipped-closed-session"}
      BY <1>1, <2>1, <2>2, <3>1 DEF StageOf, NoTask
    <3>3. StageOf(r)'
      BY <1>1, <2>1, <3>1, <3>2 DEF StageOf, Executing, Owning, Justified, storeVars, TerminalRun
    <3> QED BY <1>1, <2>1, <3>1, <3>3, OwnerStep, SettledKept DEF XInv
  <2>3. CASE task[r].closing \notin {"skip", "expire"}
    <3>1. Moves(r) /\ pc'[r] = "finalRead"
      BY <2>1, <2>3, GotoIs
    <3>2. StageOf(r)'
      BY <1>1, <2>1, <2>3, <3>1 DEF StageOf, Executing, Owning, Only, storeVars, TerminalRun
    <3> QED BY <1>1, <2>1, <3>1, <3>2, OwnerStep, SettledKept DEF XInv
  <2> QED BY <2>2, <2>3
<1> QED BY <1>2, <1>3, <1>4 DEF Settle

LEMMA LoopStage ==
  ASSUME TypeOK, XInv, NEW r \in Runners, ClaimMember(r) \/ LoopDone(r) PROVE XInv'
<1>1. pc[r] = "loop" /\ pc[r] \in Owning /\ StageOf(r) /\ UNCHANGED << lease, book >>
  BY DEF ClaimMember, LoopDone, XInv, Staged, Owning
<1>2. CASE ClaimMember(r)
  <2>1. PICK m \in task[r].todo :
          \/ StartMember(m) /\ GotoMember(r, "trade", m)
          \/ member[m] # "pending"
    BY <1>2 DEF ClaimMember
  <2>2. m \in Members /\ member[m] = "pending" /\ runStatus = "running"
    BY <1>1, TaskIs DEF Task, StageOf, Only
  <2>3. Moves(r) /\ pc'[r] = "trade" /\ task'[r] = task[r] /\ cur'[r] = m
    BY <2>1, <2>2, GotoMemberIs
  <2>4. /\ member'[m] = "running" /\ \A n \in Members : n # m => member'[n] = member[n]
        /\ UNCHANGED << runStatus, snapshot, completed >>
    BY <2>1, <2>2 DEF StartMember, TypeOK, StoreTypeOK
  <2>5. MembersIn("completed")' = MembersIn("completed")
    BY <2>2, <2>4 DEF MembersIn
  <2>6. Settled'
    BY <1>1, <2>2, <2>4, <2>5 DEF XInv, Settled, SnapshotIntegrity, Justified
  <2>7. StageOf(r)'
    BY <1>1, <2>2, <2>3, <2>4 DEF StageOf, Executing, Owning, Only, TerminalRun
  <2> QED BY <1>1, <2>3, <2>6, <2>7, OwnerStep
<1>3. CASE LoopDone(r)
  <2>1. Moves(r) /\ pc'[r] = "finalRead" /\ UNCHANGED storeVars /\ task[r].todo = {}
    BY <1>3, GotoIs DEF LoopDone
  <2>2. StageOf(r)'
    BY <1>1, <2>1 DEF StageOf, Executing, Owning, Only, storeVars, TerminalRun
  <2> QED BY <1>1, <2>1, <2>2, OwnerStep, SettledKept DEF XInv
<1> QED BY <1>2, <1>3

\* A step of _execute_member that leaves the rows alone.
LEMMA ExecutingStage ==
  ASSUME TypeOK, XInv, NEW r \in Runners, pc[r] \in Executing, NEW l \in Executing,
         GotoMember(r, l, cur[r]), UNCHANGED << storeVars, lease >>, Settled'
  PROVE  XInv'
<1>1. Moves(r) /\ pc'[r] = l /\ task'[r] = task[r] /\ cur'[r] = cur[r]
  BY GotoMemberIs
<1>2. pc[r] \in Owning /\ StageOf(r)
  BY DEF XInv, Staged, Owning
<1>3. StageOf(r)'
  BY <1>1, <1>2 DEF StageOf, Executing, Owning, Only, storeVars, TerminalRun
<1> QED BY <1>1, <1>2, <1>3, OwnerStep

LEMMA TradingStage ==
  ASSUME IInv, XInv, NEW r \in Runners, Trade(r) \/ TradeRaises(r) PROVE XInv'
<1>1. /\ pc[r] = "trade" /\ pc[r] \in Executing /\ StageOf(r) /\ TypeOK
      /\ UNCHANGED << storeVars, lease >>
  BY DEF Trade, TradeRaises, XInv, Staged, Executing, IInv
<1>2. PICK l \in {"recordCycle", "recordPartial"} : GotoMember(r, l, cur[r]) /\ l \in Executing
  BY DEF Trade, TradeRaises, Executing
<1>3. /\ cur[r] \in Members /\ book[cur[r]] = << >> /\ task[r].captured = snapshot
      /\ member[cur[r]] = "running"
  BY <1>1 DEF IInv, Once, Working, StageOf, Only
<1>4. Settled'
  <2>1. CASE UNCHANGED book
    BY <1>1, <2>1, SettledKept DEF XInv
  <2>2. CASE Books(cur[r], task[r].captured)
    <3>1. /\ book'[cur[r]] = << snapshot >>
          /\ \A m \in Members : m # cur[r] => book'[m] = book[m]
      <4>1. book \in [Members -> Seq(Snapshots)] /\ task[r].captured \in Snapshots
        BY <1>1 DEF TypeOK, IInv, Working
      <4>2. Append(book[cur[r]], task[r].captured) = << snapshot >>
        BY <1>3, <4>1
      <4> QED BY <2>2, <1>3, <4>1, <4>2 DEF Books
    <3>2. UNCHANGED << runStatus, snapshot, completed, member >>
      BY <1>1 DEF storeVars
    <3>3. SnapshotIntegrity'
      BY <3>1, <3>2 DEF XInv, Settled, SnapshotIntegrity
    <3>4. Justified(runStatus)'
      BY <3>2 DEF XInv, Settled, Justified, MembersIn
    <3> QED BY <1>3, <3>1, <3>2, <3>3, <3>4 DEF XInv, Settled, MembersIn
  <2> QED BY <2>1, <2>2 DEF Trade, TradeRaises
<1> QED BY <1>1, <1>2, <1>4, ExecutingStage

LEMMA RecordingStage ==
  ASSUME TypeOK, XInv, NEW r \in Runners,
         RecordCycle(r) \/ RecordOfficial(r) \/ RecordRaises(r) \/ RecordPartial(r)
  PROVE  XInv'
<1>1. pc[r] \in Executing /\ pc[r] \in Owning /\ UNCHANGED << storeVars, lease, book >>
  BY DEF RecordCycle, RecordOfficial, RecordRaises, RecordPartial, Executing, Owning
<1>2. \/ \E l \in {"recordOfficial", "complete", "recordPartial", "finishFailed"} :
           GotoMember(r, l, cur[r])
      \/ Unwind(r)
  BY DEF RecordCycle, RecordOfficial, RecordRaises, RecordPartial
<1>3. {"recordOfficial", "complete", "recordPartial", "finishFailed"} \subseteq Executing
  BY DEF Executing
<1>4. CASE Unwind(r)
  BY <1>1, <1>4, UnwindStep
<1>5. CASE ~Unwind(r)
  BY <1>1, <1>2, <1>3, <1>5, ExecutingStage, SettledKept DEF XInv
<1> QED BY <1>4, <1>5

LEMMA FinishingStage ==
  ASSUME IInv, XInv, NEW r \in Runners, CompleteMember(r) \/ FailMember(r) PROVE XInv'
<1>1. /\ pc[r] \in Executing /\ pc[r] \in Owning /\ StageOf(r) /\ TypeOK /\ StoreTypeOK
      /\ UNCHANGED << lease, book >>
  BY DEF CompleteMember, FailMember, XInv, Staged, Executing, Owning, IInv, TypeOK
<1>2. PICK s \in {"completed", "failed"} :
        \/ FinishMember(cur[r], s) /\ Goto(r, "loop", Dropped(r, cur[r]))
        \/ Unwind(r) /\ UNCHANGED storeVars
  BY DEF CompleteMember, FailMember
<1>3. cur[r] \in Members /\ s \in SettledMember /\ runStatus = "running"
  BY <1>1 DEF IInv, Working, SettledMember, StageOf
<1>4. CASE FinishMember(cur[r], s) /\ Goto(r, "loop", Dropped(r, cur[r]))
  <2>1. /\ Moves(r) /\ pc'[r] = "loop" /\ task'[r].todo = task[r].todo \ {cur[r]}
        /\ task'[r].captured = task[r].captured
    BY <1>1, <1>4, GotoIs, DroppedIs
  <2>2. Settled'
    BY <1>1, <1>3, <1>4, FinishSettled DEF XInv, TerminalRun
  <2>3. /\ \A n \in Members : n # cur[r] => member'[n] = member[n]
        /\ member'[cur[r]] = s
        /\ UNCHANGED << runStatus, snapshot >>
    BY <1>1, <1>3, <1>4, FinishIs DEF XInv, Settled
  <2>4. StageOf(r)'
    BY <1>1, <1>3, <2>1, <2>3 DEF StageOf, Executing, Owning, Only, TerminalRun
  <2> QED BY <1>1, <2>1, <2>2, <2>4, OwnerStep
<1>5. CASE Unwind(r) /\ UNCHANGED storeVars
  BY <1>1, <1>5, UnwindStep
<1> QED BY <1>2, <1>4, <1>5

\* What finalize derives when no member is left pending or running.
LEMMA OutcomeJustified ==
  ASSUME StoreTypeOK, completed = MembersIn("completed"), Only("running", {}), Only("pending", {})
  PROVE  Justified(FinalOutcome) /\ FinalOutcome \in {"completed", "partial", "failed"}
<1>1. \A m \in Members : member[m] \in SettledMember
  BY DEF StoreTypeOK, MemberStatus, Only
<1>2. FinalOutcome = IF MembersIn("completed") = Members THEN "completed"
                     ELSE IF MembersIn("completed") # {} THEN "partial" ELSE "failed"
  BY <1>1 DEF FinalOutcome, MembersIn, Only
<1>3. Members # {}
  BY MembersAssumption
<1> QED BY <1>1, <1>2, <1>3 DEF Justified

LEMMA OutcomeStage ==
  ASSUME TypeOK, XInv, NEW r \in Runners, ReadOutcome(r) \/ WriteOutcome(r) PROVE XInv'
<1>1. pc[r] \in Owning /\ StageOf(r) /\ UNCHANGED << lease, book >>
  BY DEF ReadOutcome, WriteOutcome, XInv, Staged, Owning
<1>2. CASE ReadOutcome(r)
  <2>1. /\ Moves(r) /\ pc'[r] = "write" /\ task'[r] = [NoTask EXCEPT !.verdict = FinalOutcome]
        /\ UNCHANGED storeVars /\ pc[r] = "finalRead"
    BY <1>2, GotoIs DEF ReadOutcome, GotoWrite
  <2>2. task'[r].verdict = FinalOutcome
    BY <2>1 DEF NoTask
  <2>3. Justified(FinalOutcome) /\ FinalOutcome \in {"completed", "partial", "failed"}
    BY <1>1, <2>1, OutcomeJustified DEF StageOf, XInv, Settled, TypeOK
  <2>4. StageOf(r)'
    <3> DEFINE v == FinalOutcome
    <3>1. Justified(task'[r].verdict)
      BY <2>2, <2>3
    <3>2. Justified(task[r].verdict)'
      BY <2>1, <3>1 DEF Justified, MembersIn, storeVars
    <3> QED BY <1>1, <2>1, <2>2, <2>3, <3>2 DEF StageOf, Executing, Owning, storeVars, TerminalRun
  <2> QED BY <1>1, <2>1, <2>4, OwnerStep, SettledKept DEF XInv
<1>3. CASE WriteOutcome(r)
  <2>1. /\ Moves(r) /\ pc'[r] = "release" /\ pc[r] = "write"
        /\ runStatus' = task[r].verdict /\ UNCHANGED << snapshot, completed, member >>
    BY <1>3, GotoIs DEF WriteOutcome, SetStatus
  <2>2. StageOf(r)'
    BY <2>1 DEF StageOf, Executing
  <2>3. Settled'
    BY <1>1, <2>1 DEF XInv, Settled, StageOf, SnapshotIntegrity, Justified, MembersIn, Untouched
  <2> QED BY <1>1, <2>1, <2>2, <2>3, OwnerStep
<1> QED BY <1>2, <1>3

LEMMA InitStage == Init => XInv
BY DEF Init, StoreInit, LeaseInit, FreeLease, XInv, Owned, Staged, StageOf, Settled,
       SnapshotIntegrity, Justified, MembersIn, Owning, Executing

LEMMA StepStage ==
  ASSUME Exclusive, IInv, XInv, [Next]_vars PROVE XInv'
<1>1. TypeOK
  BY DEF IInv
<1>2. CASE Tick \/ LeaseRunsOut
  BY <1>1, <1>2, EnvironmentStep
<1>3. ASSUME NEW r \in Runners, Decide(r) \/ Proceed(r) \/ RecordRaises(r) \/ Crash(r) \/ Abort(r)
      PROVE  XInv'
  <2>1. CASE Proceed(r)
    <3>1. CASE Enter(r) \/ Refused(r) \/ Release(r)
      BY <1>1, <3>1, OwnershipStep
    <3>2. CASE MarkRunning(r) \/ RecoverMember(r) \/ Reload(r)
      BY <1>1, <3>2, RecoveryStage
    <3>3. CASE Ensure(r) \/ Capture(r) \/ BindSnapshot(r) \/ BindRefused(r) \/ Settle(r)
      BY <1>1, <3>3, EnsureStage, CaptureStage, SettleStage
    <3>4. CASE Execute(r)
      BY <1>1, <3>4, LoopStage, TradingStage, RecordingStage, FinishingStage DEF Execute
    <3>5. CASE ReadOutcome(r) \/ WriteOutcome(r)
      BY <1>1, <3>5, OutcomeStage
    <3> QED BY <2>1, <3>1, <3>2, <3>3, <3>4, <3>5 DEF Proceed
  <2> QED BY <1>1, <1>3, <2>1, OwnershipStep, RecordingStage, FaultStep
<1>4. CASE UNCHANGED vars
  <2>1. UNCHANGED << storeVars, localVars, lease, book >>
    BY <1>4 DEF vars, storeVars, localVars
  <2>2. Owned' /\ Staged'
    BY <2>1 DEF XInv, Owned, Staged, StageOf, Only, Untouched, Justified, MembersIn,
       storeVars, localVars
  <2> QED BY <2>1, <2>2, SettledKept DEF XInv
<1> QED BY <1>2, <1>3, <1>4 DEF Next

\* The invariant of a session that is one runner's at a time: what the owner's
\* locals say of the rows at each place of _run_owned, and what rows and books
\* say of each other.
THEOREM OwnershipInvariance == ASSUME Exclusive PROVE Spec => [](IInv /\ XInv)
<1>1. Init => IInv /\ XInv
  BY InitInv, InitStage
<1>2. IInv /\ XInv /\ [Next]_vars => (IInv /\ XInv)'
  BY StepInv, StepStage
<1> QED BY <1>1, <1>2, PTL DEF Spec

\* Every book that traded, traded on the snapshot the run is bound to, across
\* retries, rebinding after a wait, crashes and takeovers.
THEOREM TradesOnBoundSnapshot == ASSUME Exclusive PROVE Spec => []SnapshotIntegrity
<1>1. XInv => SnapshotIntegrity
  BY DEF XInv, Settled
<1> QED BY <1>1, OwnershipInvariance, PTL

\* A run that finalize concluded has every member settled, and its verdict is the
\* one its members justify, although it is read in one transaction and written in
\* another.
THEOREM VerdictIsJustified == ASSUME Exclusive PROVE Spec => []FinalizedIsSettled
<1>1. XInv => FinalizedIsSettled
  BY DEF XInv, Settled, Justified, FinalizedIsSettled
<1> QED BY <1>1, OwnershipInvariance, PTL

-----------------------------------------------------------------------------
(* What an operator is told *)

LEMMA AdviceFollows == ASSUME IInv, XInv PROVE AdviceIsSound
<1>1. \A m \in Members :
        book[m] # << >> => member[m] \in {"running", "completed", "failed", "interrupted"}
  BY DEF XInv, Settled
<1>2. ASSUME "safe" \in Advice
      PROVE  /\ \A r \in Runners : pc[r] \notin Executing
             /\ \A m \in Members : book[m] # << >> => member[m] \in {"completed", "failed"}
  <2>1. MidFlight = {}
    BY <1>2 DEF Advice, ResumeSafety
  <2>2. \A m \in Members : member[m] # "running" /\ member[m] # "interrupted"
    BY <2>1 DEF MidFlight, MembersIn
  <2>3. \A r \in Runners : pc[r] \in Executing => cur[r] \in Members /\ member[cur[r]] = "running"
    BY DEF IInv, Working, XInv, Staged, StageOf, Only
  <2> QED BY <1>1, <2>2, <2>3
<1>3. ASSUME "forbidden" \in Advice
      PROVE  Concluded \/ Decision \in {"skipped-closed-session", "missed"}
  <2>1. PICK row \in LeaseFacts : Classify(row) \in Forbidden
    BY <1>3 DEF Advice, ResumeSafety
  <2>2. phase \in Phase
    BY DEF IInv, TypeOK
  <2>3. CASE runStatus = "absent"
    BY <2>1, <2>2, <2>3
       DEF Classify, ClassifyUnstarted, ScheduleVerdict, Forbidden, Phase, Decision
  <2>4. CASE runStatus # "absent" /\ ~Concluded
    <3>1. Classify(row) = "stale-lease" \/ Classify(row) = ClassifyOpen(row)
      BY <2>4 DEF Classify, Concluded, TerminalRun
    <3>2. \/ ClassifyOpen(row) \in {"active", "interrupted", "awaiting", "late"}
          \/ ClassifyOpen(row) = ScheduleVerdict /\ ScheduleVerdict \in {"not-due", "missed"}
      BY DEF ClassifyOpen
    <3>3. ScheduleVerdict = "missed"
      BY <2>1, <3>1, <3>2 DEF Forbidden
    <3>4. phase = "over"
      BY <2>2, <3>3 DEF ScheduleVerdict, Phase
    <3> QED BY <2>4, <3>4 DEF Decision, Concluded, TerminalRun
  <2> QED BY <2>3, <2>4
<1>4. ASSUME runStatus = "awaiting-data"
      PROVE  MidFlight = {} /\ \A m \in Members : book[m] = << >>
  BY <1>1, <1>4 DEF XInv, Settled, MidFlight, MembersIn
<1>5. ASSUME NEW row \in LeaseFacts, Classify(row) = "awaiting"
      PROVE  \A m \in Members : book[m] = << >>
  <2>1. runStatus # "absent"
    BY <1>5 DEF Classify, ClassifyUnstarted, ScheduleVerdict, IInv, TypeOK, Phase
  <2>2. Classify(row) = ClassifyOpen(row)
    BY <1>5, <2>1 DEF Classify, TerminalRun
  <2>3. runStatus = "awaiting-data"
    BY <1>5, <2>2 DEF ClassifyOpen, ScheduleVerdict, IInv, TypeOK, Phase
  <2> QED BY <1>4, <2>3
<1>6. ASSUME NEW row \in LeaseFacts, NothingToReport(row)
      PROVE  Classify(row) \notin {"interrupted", "partial", "failed", "stale-lease"}
  <2>1. row # "stale" /\ runStatus \in {"absent", "awaiting-data", "completed", "skipped-closed-session"}
    BY <1>6 DEF NothingToReport, IInv, TypeOK, StoreTypeOK, RunStatus, TerminalRun
  <2>2. phase \in Phase
    BY DEF IInv, TypeOK
  <2>3. CASE runStatus = "awaiting-data"
    <3>1. Classify(row) = ClassifyOpen(row)
      BY <2>1, <2>3 DEF Classify, TerminalRun
    <3>2. MidFlight = {}
      BY <1>4, <2>3
    <3> QED BY <2>3, <3>1, <3>2 DEF ClassifyOpen
  <2>4. CASE runStatus # "awaiting-data"
    BY <2>1, <2>2, <2>4 DEF Classify, ClassifyUnstarted, ScheduleVerdict, Phase
  <2> QED BY <2>3, <2>4
<1> QED BY <1>2, <1>3, <1>5, <1>6 DEF AdviceIsSound

\* What "storage recover" tells an operator is true at every moment of what the
\* runners do: "safe" never hides a member between its claim and its settling.
THEOREM AdviceHolds == ASSUME Exclusive PROVE Spec => []AdviceIsSound
<1>1. IInv /\ XInv => AdviceIsSound
  BY AdviceFollows
<1> QED BY <1>1, OwnershipInvariance, PTL

-----------------------------------------------------------------------------
(* The refinement of OfficialSession, step by step *)

StageIn(status) == IF status = "pending" THEN "untouched"
                   ELSE IF status = "running" THEN "claimed"
                   ELSE "settled"

LEMMA AbstractStutter ==
  ASSUME UNCHANGED << runStatus, member, book >> PROVE UNCHANGED Promise!vars
BY DEF Promise!vars, Concluded

LEMMA AbstractConclude ==
  ASSUME ~Concluded, UNCHANGED << member, book >>
  PROVE  [Promise!Next]_(Promise!vars)
<1>1. CASE runStatus' \in TerminalRun
  <2>1. Promise!Conclude(runStatus')
    BY <1>1 DEF Promise!Conclude, Concluded
  <2> QED BY <1>1, <2>1 DEF Promise!Next
<1>2. CASE runStatus' \notin TerminalRun
  BY <1>2 DEF Promise!vars, Concluded
<1> QED BY <1>1, <1>2

LEMMA AbstractMember ==
  ASSUME ~Concluded, UNCHANGED << runStatus, book >>, StoreTypeOK, NEW m \in Members,
         \A n \in Members : n # m => member'[n] = member[n],
         \/ member[m] = "pending" /\ member'[m] = "running"
         \/ member'[m] \in SettledMember
  PROVE  [Promise!Next]_(Promise!vars)
<1> DEFINE stage == [n \in Members |-> StageIn(member[n])]
           stageP == [n \in Members |-> StageIn(member'[n])]
<1>1. CASE member[m] = "pending" /\ member'[m] = "running"
  <2>1. Promise!Claim(m)
    BY <1>1 DEF Promise!Claim, Concluded
  <2> QED BY <2>1 DEF Promise!Next
<1>2. CASE member'[m] \in SettledMember /\ member[m] \in {"pending", "running"}
  <2>1. Promise!SettleMember(m)
    BY <1>2 DEF Promise!SettleMember, Concluded, SettledMember
  <2> QED BY <2>1 DEF Promise!Next
<1>3. CASE member'[m] \in SettledMember /\ member[m] \in SettledMember
  <2>1. UNCHANGED Promise!vars
    BY <1>3 DEF Promise!vars, Concluded, SettledMember
  <2> QED BY <2>1
<1> QED BY <1>1, <1>2, <1>3 DEF StoreTypeOK, MemberStatus

LEMMA AbstractTrade ==
  ASSUME ~Concluded, UNCHANGED << runStatus, member >>, NEW m \in Members, NEW s \in Snapshots,
         book \in [Members -> Seq(Snapshots)], book[m] = << >>, member[m] = "running", Books(m, s)
  PROVE  [Promise!Next]_(Promise!vars)
<1>1. /\ book' = [book EXCEPT ![m] = << s >>] /\ Len(book[m]) = 0 /\ Len(book'[m]) = 1
      /\ \A n \in Members : n # m => book'[n] = book[n]
  BY DEF Books
<1>2. Promise!TradeOnce(m)
  BY <1>1 DEF Promise!TradeOnce, Concluded
<1> QED BY <1>2 DEF Promise!Next

LEMMA StepKeepsPromise ==
  ASSUME IInv, XInv, [Next]_vars PROVE [Promise!Next]_(Promise!vars)
<1>1. TypeOK /\ StoreTypeOK
  BY DEF IInv, TypeOK
<1>2. ASSUME NEW r \in Runners, pc[r] \in Owning \ {"owned", "release"} PROVE ~Concluded /\ StageOf(r)
  BY <1>2 DEF XInv, Staged, StageOf, Concluded
<1>3. CASE UNCHANGED << runStatus, member, book >>
  BY <1>3, AbstractStutter
<1>4. ASSUME NEW r \in Runners, Ensure(r) PROVE [Promise!Next]_(Promise!vars)
  <2>1. EnsureRun /\ UNCHANGED book
    BY <1>4 DEF Ensure, LeaveAlone, Postpone, SkipClosedSession, SkipMissedSession,
       ExpireAwaitingData, BeginExecution, EnsureStep
  <2>2. CASE runStatus = "absent"
    BY <2>1, <2>2, AbstractConclude DEF EnsureRun, Concluded, TerminalRun
  <2>3. CASE runStatus # "absent"
    BY <2>1, <2>3, AbstractStutter DEF EnsureRun
  <2> QED BY <2>2, <2>3
<1>5. ASSUME NEW r \in Runners, MarkRunning(r) \/ WriteOutcome(r) PROVE [Promise!Next]_(Promise!vars)
  BY <1>2, <1>5, AbstractConclude DEF MarkRunning, WriteOutcome, SetStatus, Owning
<1>6. ASSUME NEW r \in Runners, NEW m \in Members, NEW s \in SettledMember, FinishMember(m, s),
             pc[r] \in Owning \ {"owned", "release"}, UNCHANGED book
      PROVE  [Promise!Next]_(Promise!vars)
  <2>1. /\ \A n \in Members : n # m => member'[n] = member[n]
        /\ member'[m] = s
        /\ UNCHANGED runStatus
    BY <1>1, <1>6, FinishIs DEF XInv, Settled
  <2> QED BY <1>1, <1>2, <1>6, <2>1, AbstractMember
<1>7. ASSUME NEW r \in Runners, RecoverMember(r) \/ CloseMember(r) \/ CompleteMember(r) \/ FailMember(r)
      PROVE  [Promise!Next]_(Promise!vars)
  <2>1. /\ pc[r] \in {"recover", "close", "closeFinish", "complete", "finishFailed"}
        /\ pc[r] \in Owning \ {"owned", "release"} /\ UNCHANGED book
    BY <1>7 DEF RecoverMember, CloseMember, CompleteMember, FailMember, Owning, Executing
  <2>2. PICK m \in Members, s \in SettledMember : FinishMember(m, s) \/ UNCHANGED storeVars
    <3>1. ClosingStatus(task[r].closing) \in SettledMember /\ {"completed", "failed", "interrupted"} \subseteq SettledMember
      BY DEF ClosingStatus, SettledMember
    <3>2. task[r].todo \in SUBSET Members
      BY <1>1, TaskIs DEF Task
    <3>3. pc[r] \in {"closeFinish", "complete", "finishFailed"} => cur[r] \in Members
      BY DEF IInv, Working, Executing
    <3>4. CASE RecoverMember(r)
      BY <3>1, <3>2, <3>4, MembersAssumption DEF RecoverMember
    <3>5. CASE CloseMember(r)
      BY <3>1, <3>2, <3>3, <3>5 DEF CloseMember, CloseSettle
    <3>6. CASE CompleteMember(r) \/ FailMember(r)
      BY <3>1, <3>3, <3>6 DEF CompleteMember, FailMember
    <3> QED BY <1>7, <3>4, <3>5, <3>6
  <2>4. CASE UNCHANGED storeVars
    BY <2>1, <2>4, AbstractStutter DEF storeVars
  <2> QED BY <1>6, <2>1, <2>2, <2>4
<1>8. ASSUME NEW r \in Runners, ClaimMember(r) PROVE [Promise!Next]_(Promise!vars)
  <2>1. PICK m \in task[r].todo : StartMember(m) \/ UNCHANGED storeVars
    BY <1>8 DEF ClaimMember
  <2>2. m \in Members /\ pc[r] \in Owning \ {"owned", "release"} /\ UNCHANGED book
    BY <1>1, <1>8, TaskIs DEF Task, ClaimMember, Owning
  <2>3. CASE StartMember(m)
    <3>1. /\ member[m] = "pending" /\ member'[m] = "running" /\ UNCHANGED runStatus
          /\ \A n \in Members : n # m => member'[n] = member[n]
      BY <1>1, <2>2, <2>3 DEF StartMember, StoreTypeOK
    <3> QED BY <1>1, <1>2, <2>2, <3>1, AbstractMember
  <2>4. CASE UNCHANGED storeVars
    BY <2>2, <2>4, AbstractStutter DEF storeVars
  <2> QED BY <2>1, <2>3, <2>4
<1>9. ASSUME NEW r \in Runners, Trade(r) \/ TradeRaises(r) PROVE [Promise!Next]_(Promise!vars)
  <2>1. pc[r] = "trade" /\ pc[r] \in Executing /\ pc[r] \in Owning \ {"owned", "release"} /\ UNCHANGED storeVars
    BY <1>9 DEF Trade, TradeRaises, Executing, Owning
  <2>2. /\ cur[r] \in Members /\ task[r].captured \in Snapshots
        /\ book[cur[r]] = << >> /\ member[cur[r]] = "running"
    BY <1>2, <2>1 DEF IInv, Working, Once, StageOf, Only
  <2>3. CASE UNCHANGED book
    BY <2>1, <2>3, AbstractStutter DEF storeVars
  <2>4. CASE Books(cur[r], task[r].captured)
    BY <1>1, <1>2, <2>1, <2>2, <2>4, AbstractTrade DEF storeVars, TypeOK
  <2> QED BY <1>9, <2>3, <2>4 DEF Trade, TradeRaises
<1>10. ASSUME NEW r \in Runners, BindSnapshot(r) PROVE UNCHANGED << runStatus, member, book >>
  BY <1>10 DEF BindSnapshot, SetSnapshot
<1>11. ASSUME NEW r \in Runners,
              \/ Decide(r) \/ Enter(r) \/ Refused(r) \/ Release(r) \/ Reload(r) \/ Capture(r)
              \/ BindRefused(r) \/ CloseObserve(r) \/ CloseDone(r) \/ LoopDone(r)
              \/ RecordCycle(r) \/ RecordOfficial(r) \/ RecordPartial(r) \/ RecordRaises(r)
              \/ ReadOutcome(r) \/ Crash(r) \/ Abort(r)
       PROVE  UNCHANGED << runStatus, member, book >>
  BY <1>11 DEF Decide, Enter, Refused, Release, Reload, Capture, MethodologyInvalid,
     NeedsReauthentication, SnapshotUnavailable, PreflightMisconfigured, PreflightNotReady,
     PreflightReady, Capturing, BindRefused, CloseObserve, CloseDone, LoopDone, RecordCycle,
     RecordOfficial, RecordPartial, RecordRaises, ReadOutcome, Crash, Abort, storeVars
<1>12. CASE Tick \/ LeaseRunsOut \/ UNCHANGED vars
  BY <1>3, <1>12 DEF Tick, LeaseRunsOut, vars, storeVars
<1> QED BY <1>3, <1>4, <1>5, <1>7, <1>8, <1>9, <1>10, <1>11, <1>12
        DEF Next, Proceed, Settle, Execute

\* The orchestrator, its stores and its lease implement what OfficialSession
\* promises: every step of a session is one of its steps or changes nothing it sees.
THEOREM ImplementsOfficialSession == ASSUME Exclusive PROVE Spec => KeepsPromise
<1>1. Init => Promise!Init
  BY DEF Init, StoreInit, Promise!Init, Concluded, TerminalRun
<1>2. IInv /\ XInv /\ [Next]_vars => [Promise!Next]_(Promise!vars)
  BY StepKeepsPromise
<1> QED BY <1>1, <1>2, OwnershipInvariance, PTL DEF Spec, KeepsPromise, Promise!Spec

-----------------------------------------------------------------------------
(* Rows and observations, which no transaction spans *)

\* What the owner of a member has seen the observation store accept.
Witnessed ==
  \A r \in Runners :
    /\ pc[r] = "complete" => observation[cur[r]] = "official"
    /\ pc[r] = "finishFailed" => observation[cur[r]] = "partial"

EInv == EvidenceAgrees /\ Witnessed

\* Between two places of the loop, or of anything but _execute_member, what the
\* owner has seen is not asked for.
LEMMA EvidenceStep ==
  ASSUME XInv, EInv, NEW r \in Runners, pc[r] \in Owning, Moves(r), EvidenceAgrees',
         pc'[r] = "complete" => observation'[cur'[r]] = "official",
         pc'[r] = "finishFailed" => observation'[cur'[r]] = "partial"
  PROVE  EInv'
<1>1. \A q \in Runners : q # r => pc'[q] \notin {"complete", "finishFailed"}
  BY Alone DEF XInv, Moves, Owning, Executing
<1> QED BY <1>1 DEF EInv, Witnessed

LEMMA EvidenceKept ==
  ASSUME EInv, UNCHANGED << member, observation >>,
         \A q \in Runners : \/ pc'[q] \notin {"complete", "finishFailed"}
                            \/ pc'[q] = pc[q] /\ cur'[q] = cur[q]
  PROVE  EInv'
BY DEF EInv, EvidenceAgrees, Witnessed

LEMMA EvidenceOfFinish ==
  ASSUME IInv, XInv, EInv, NEW r \in Runners, NEW m \in Members, NEW s \in SettledMember,
         FinishMember(m, s), s = "completed" <=> observation[m] = "official",
         pc[r] \in Owning, Moves(r), pc'[r] \notin {"complete", "finishFailed"},
         UNCHANGED observation
  PROVE  EInv'
<1>1. /\ \A n \in Members : n # m => member'[n] = member[n]
      /\ member'[m] = s
  BY FinishIs DEF IInv, TypeOK, XInv, Settled
<1>2. EvidenceAgrees'
  BY <1>1 DEF EInv, EvidenceAgrees
<1> QED BY <1>2, EvidenceStep

LEMMA EvidenceOfClosing ==
  ASSUME StrictObservations, IInv, XInv, EInv, NEW r \in Runners, CloseObserve(r) \/ CloseMember(r)
  PROVE  EInv'
<1>1. /\ pc[r] \in {"close", "closeFinish"} /\ pc[r] \in Owning /\ StageOf(r) /\ TypeOK
      /\ task[r].todo \in SUBSET Members
  BY TaskIs DEF CloseObserve, CloseMember, XInv, Staged, Owning, IInv, Task
<1>2. \A m \in task[r].todo : member[m] = "pending" /\ observation[m] # "official"
  BY <1>1 DEF StageOf, Only, EInv, EvidenceAgrees
<1>3. CASE CloseObserve(r)
  <2>1. PICK m \in task[r].todo :
          IF RecordAccepted(m, ClosingRow(task[r].closing))
          THEN Record(m, ClosingRow(task[r].closing)) /\ GotoMember(r, "closeFinish", m)
          ELSE Unwind(r) /\ UNCHANGED observation
    BY <1>3 DEF CloseObserve
  <2>2. Moves(r) /\ pc'[r] \in {"closeFinish", "release"}
    BY <1>1, <2>1, GotoIs, GotoMemberIs DEF Unwind
  <2>3. \A n \in Members :
          \/ observation'[n] = observation[n]
          \/ n = m /\ observation'[n] # "official" /\ observation[n] # "official"
    BY <1>1, <1>2, <2>1 DEF Record, ClosingRow, TypeOK
  <2>4. EvidenceAgrees'
    BY <1>1, <1>2, <1>3, <2>3 DEF CloseObserve, storeVars, EInv, EvidenceAgrees
  <2> QED BY <1>1, <2>2, <2>4, EvidenceStep
<1>4. CASE CloseMember(r)
  <2>1. PICK m \in task[r].todo : CloseSettle(r, m)
    BY <1>1, <1>4 DEF CloseMember, StageOf
  <2>2. /\ ClosingStatus(task[r].closing) \in SettledMember
        /\ ClosingStatus(task[r].closing) # "completed"
    BY DEF ClosingStatus, SettledMember
  <2>3. Moves(r) /\ pc'[r] \in {"close", "release"}
    BY <1>1, <2>1, GotoIs DEF CloseSettle, Unwind
  <2>4. UNCHANGED observation
    BY <1>4 DEF CloseMember
  <2>5. CASE UNCHANGED storeVars
    BY <1>1, <2>3, <2>4, <2>5, EvidenceStep DEF storeVars, EInv, EvidenceAgrees
  <2>6. CASE FinishMember(m, ClosingStatus(task[r].closing))
    BY <1>1, <1>2, <2>2, <2>3, <2>4, <2>6, EvidenceOfFinish
  <2> QED BY <2>1, <2>5, <2>6 DEF CloseSettle
<1> QED BY <1>3, <1>4

\* A refused row leaves the exception path before the member is disowned.
LEMMA EvidenceOfRecording ==
  ASSUME StrictObservations, IInv, XInv, EInv, NEW r \in Runners,
         RecordOfficial(r) \/ RecordPartial(r)
  PROVE  EInv'
<1>1. /\ pc[r] \in Executing /\ pc[r] \in Owning /\ StageOf(r) /\ TypeOK
      /\ cur[r] \in Members /\ member[cur[r]] = "running"
      /\ UNCHANGED member
  BY DEF RecordOfficial, RecordPartial, XInv, Staged, StageOf, Only, Executing, Owning, IInv,
     Working, storeVars
<1>2. CASE RecordOfficial(r)
  <2>1. CASE RecordAccepted(cur[r], "official")
    <3>1. /\ observation'[cur[r]] = "official"
          /\ \A n \in Members : n # cur[r] => observation'[n] = observation[n]
      BY <1>1, <1>2, <2>1 DEF RecordOfficial, RecordAccepted, Record, TypeOK
    <3>2. Moves(r) /\ pc'[r] = "complete" /\ cur'[r] = cur[r]
      BY <1>1, <1>2, <2>1, GotoMemberIs DEF RecordOfficial
    <3>3. EvidenceAgrees'
      BY <1>1, <3>1 DEF EInv, EvidenceAgrees
    <3> QED BY <1>1, <3>1, <3>2, <3>3, EvidenceStep
  <2>2. CASE ~RecordAccepted(cur[r], "official")
    <3>1. Moves(r) /\ pc'[r] = "recordPartial" /\ UNCHANGED observation
      BY <1>1, <1>2, <2>2, GotoMemberIs DEF RecordOfficial
    <3> QED BY <1>1, <3>1, EvidenceStep DEF EInv, EvidenceAgrees
  <2> QED BY <2>1, <2>2
<1>3. CASE RecordPartial(r)
  <2>1. CASE RecordAccepted(cur[r], "partial")
    <3>1. /\ observation'[cur[r]] = "partial" /\ observation[cur[r]] # "official"
          /\ \A n \in Members : n # cur[r] => observation'[n] = observation[n]
      BY <1>1, <1>3, <2>1 DEF RecordPartial, RecordAccepted, Record, TypeOK
    <3>2. Moves(r) /\ pc'[r] = "finishFailed" /\ cur'[r] = cur[r]
      BY <1>1, <1>3, <2>1, GotoMemberIs DEF RecordPartial
    <3>3. EvidenceAgrees'
      BY <1>1, <3>1 DEF EInv, EvidenceAgrees
    <3> QED BY <1>1, <3>1, <3>2, <3>3, EvidenceStep
  <2>2. CASE ~RecordAccepted(cur[r], "partial")
    <3>1. Moves(r) /\ pc'[r] = "release" /\ UNCHANGED observation
      BY <1>1, <1>3, <2>2, GotoIs DEF RecordPartial, Unwind
    <3> QED BY <1>1, <3>1, EvidenceStep DEF EInv, EvidenceAgrees
  <2> QED BY <2>1, <2>2
<1> QED BY <1>2, <1>3

\* A member that recovery or the loop finishes gets the row its observation asks for.
LEMMA EvidenceOfFinishing ==
  ASSUME IInv, XInv, EInv, NEW r \in Runners,
         RecoverMember(r) \/ CompleteMember(r) \/ FailMember(r)
  PROVE  EInv'
<1>1. pc[r] \in Owning /\ TypeOK /\ UNCHANGED observation
  BY DEF RecoverMember, CompleteMember, FailMember, Owning, Executing, IInv
<1>2. PICK m \in Members, s \in SettledMember :
        /\ FinishMember(m, s) \/ UNCHANGED storeVars
        /\ s = "completed" <=> observation[m] = "official"
        /\ Moves(r) /\ pc'[r] \in {"recover", "loop", "release"}
  <2>1. {"completed", "failed", "interrupted"} \subseteq SettledMember
    BY DEF SettledMember
  <2>2. CASE RecoverMember(r)
    <3>1. PICK m \in task[r].todo :
            LET status == IF observation[m] = "official" THEN "completed" ELSE "interrupted" IN
            \/ FinishMember(m, status) /\ Goto(r, "recover", Dropped(r, m))
            \/ Unwind(r) /\ UNCHANGED storeVars
      BY <2>2 DEF RecoverMember
    <3>2. m \in Members
      BY <1>1, TaskIs DEF Task
    <3>3. Moves(r) /\ pc'[r] \in {"recover", "release"}
      BY <1>1, <3>1, GotoIs DEF Unwind
    <3> QED BY <2>1, <3>1, <3>2, <3>3
  <2>3. CASE CompleteMember(r) \/ FailMember(r)
    <3>1. cur[r] \in Members
      BY <2>3 DEF CompleteMember, FailMember, IInv, Working, Executing
    <3>2. Moves(r) /\ pc'[r] \in {"loop", "release"}
      BY <1>1, <2>3, GotoIs DEF CompleteMember, FailMember, Unwind
    <3>3. /\ CompleteMember(r) => observation[cur[r]] = "official"
          /\ FailMember(r) => observation[cur[r]] = "partial"
      BY DEF CompleteMember, FailMember, EInv, Witnessed
    <3> QED BY <2>1, <2>3, <3>1, <3>2, <3>3 DEF CompleteMember, FailMember
  <2> QED BY <2>2, <2>3
<1>3. CASE FinishMember(m, s)
  BY <1>1, <1>2, <1>3, EvidenceOfFinish
<1>4. CASE UNCHANGED storeVars
  BY <1>1, <1>2, <1>4, EvidenceStep DEF storeVars, EInv, EvidenceAgrees
<1> QED BY <1>2, <1>3, <1>4

LEMMA EvidenceOfClaim ==
  ASSUME IInv, XInv, EInv, NEW r \in Runners, ClaimMember(r) PROVE EInv'
<1>1. pc[r] = "loop" /\ pc[r] \in Owning /\ StageOf(r) /\ TypeOK /\ UNCHANGED observation
  BY DEF ClaimMember, XInv, Staged, Owning, IInv
<1>2. PICK m \in task[r].todo :
        \/ StartMember(m) /\ GotoMember(r, "trade", m)
        \/ Goto(r, "loop", Dropped(r, m)) /\ UNCHANGED storeVars
  BY DEF ClaimMember
<1>3. m \in Members /\ member[m] = "pending"
  BY <1>1, TaskIs DEF Task, StageOf, Only
<1>4. Moves(r) /\ pc'[r] \in {"trade", "loop"}
  BY <1>1, <1>2, GotoIs, GotoMemberIs
<1>5. \A n \in Members :
        \/ member'[n] = member[n]
        \/ n = m /\ member'[n] = "running"
  BY <1>1, <1>2, <1>3 DEF StartMember, TypeOK, StoreTypeOK, storeVars
<1>6. EvidenceAgrees'
  BY <1>1, <1>3, <1>5 DEF EInv, EvidenceAgrees
<1> QED BY <1>1, <1>4, <1>6, EvidenceStep

\* Every other step leaves both tables alone and takes nobody to where the owner
\* has seen a row accepted.
LEMMA EvidenceElsewhere ==
  ASSUME TypeOK, EInv, NEW r \in Runners,
         \/ Decide(r) \/ Enter(r) \/ Refused(r) \/ Release(r) \/ Ensure(r) \/ MarkRunning(r)
         \/ Reload(r) \/ Capture(r) \/ BindSnapshot(r) \/ BindRefused(r) \/ CloseDone(r)
         \/ LoopDone(r) \/ Trade(r) \/ TradeRaises(r) \/ RecordCycle(r) \/ RecordRaises(r)
         \/ ReadOutcome(r) \/ WriteOutcome(r) \/ Crash(r) \/ Abort(r)
  PROVE  EInv'
<1>1. UNCHANGED << member, observation >>
  BY DEF Decide, Enter, Refused, Release, Ensure, LeaveAlone, Postpone, SkipClosedSession,
     SkipMissedSession, ExpireAwaitingData, BeginExecution, EnsureStep, EnsureRun, MarkRunning,
     SetStatus, Reload, Capture, MethodologyInvalid, NeedsReauthentication, SnapshotUnavailable,
     PreflightMisconfigured, PreflightNotReady, PreflightReady, Capturing, BindSnapshot,
     SetSnapshot, BindRefused, CloseDone, LoopDone, Trade, TradeRaises, RecordCycle,
     RecordRaises, ReadOutcome, WriteOutcome, Crash, Abort, storeVars
<1>2. \/ \E l \in {"idle", "decided", "owned", "mark", "recover", "capture", "bind", "loop",
                   "close", "finalRead", "write", "release"} : \E t : Goto(r, l, t)
      \/ \E l \in {"recordCycle", "recordPartial", "recordOfficial"} : GotoMember(r, l, cur[r])
  <2>1. CASE Decide(r) \/ Enter(r) \/ Refused(r) \/ Release(r) \/ Crash(r) \/ Abort(r)
    BY <2>1 DEF Decide, Enter, Refused, Release, Crash, Abort, Unwind
  <2>2. CASE Ensure(r) \/ MarkRunning(r) \/ Reload(r)
    BY <2>2 DEF Ensure, LeaveAlone, Postpone, SkipClosedSession, SkipMissedSession,
       ExpireAwaitingData, BeginExecution, GotoWrite, BeginClosing, MarkRunning, Reload
  <2>3. CASE Capture(r) \/ BindSnapshot(r) \/ BindRefused(r)
    BY <2>3 DEF Capture, MethodologyInvalid, NeedsReauthentication, SnapshotUnavailable,
       PreflightMisconfigured, PreflightNotReady, PreflightReady, BindSnapshot, BindRefused,
       Close, GotoWrite
  <2>4. CASE CloseDone(r) \/ LoopDone(r) \/ ReadOutcome(r) \/ WriteOutcome(r)
    BY <2>4 DEF CloseDone, LoopDone, ReadOutcome, WriteOutcome, GotoWrite
  <2>5. CASE Trade(r) \/ TradeRaises(r) \/ RecordCycle(r) \/ RecordRaises(r)
    BY <2>5 DEF Trade, TradeRaises, RecordCycle, RecordRaises
  <2> QED BY <2>1, <2>2, <2>3, <2>4, <2>5
<1>3. Moves(r) /\ pc'[r] \notin {"complete", "finishFailed"}
  BY <1>2, GotoIs, GotoMemberIs
<1> QED BY <1>1, <1>3, EvidenceKept DEF Moves

LEMMA StepEvidence ==
  ASSUME StrictObservations, IInv, XInv, EInv, [Next]_vars PROVE EInv'
<1>1. TypeOK
  BY DEF IInv
<1>2. CASE Tick \/ LeaseRunsOut \/ UNCHANGED vars
  BY <1>2, EvidenceKept DEF Tick, LeaseRunsOut, vars, storeVars, localVars
<1>3. ASSUME NEW r \in Runners, Decide(r) \/ Proceed(r) \/ RecordRaises(r) \/ Crash(r) \/ Abort(r)
      PROVE  EInv'
  <2>1. CASE RecoverMember(r) \/ CompleteMember(r) \/ FailMember(r) \/ ClaimMember(r)
    BY <2>1, EvidenceOfFinishing, EvidenceOfClaim
  <2>2. CASE CloseObserve(r) \/ CloseMember(r) \/ RecordOfficial(r) \/ RecordPartial(r)
    BY <2>2, EvidenceOfClosing, EvidenceOfRecording
  <2> QED BY <1>1, <1>3, <2>1, <2>2, EvidenceElsewhere DEF Proceed, Settle, Execute
<1> QED BY <1>2, <1>3 DEF Next

\* A completed member has an official observation, and an official observation is
\* never disowned, where the store refuses a conflicting row.
THEOREM EvidenceIsKept ==
  ASSUME Exclusive, StrictObservations PROVE Spec => []EvidenceAgrees
<1>1. Init => EInv
  BY DEF Init, StoreInit, EInv, EvidenceAgrees, Witnessed
<1>2. IInv /\ XInv /\ EInv /\ [Next]_vars => EInv'
  BY StepEvidence
<1>3. EInv => EvidenceAgrees
  BY DEF EInv
<1> QED BY <1>1, <1>2, <1>3, OwnershipInvariance, PTL DEF Spec

=============================================================================
