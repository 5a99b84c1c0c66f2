------------------------- MODULE CohortReview_proofs -------------------------
(***************************************************************************)
(* Theorems about CohortReview for every calendar whose closures the scan  *)
(* reaches across, any cohort, areas, thresholds and number of operators.  *)
(***************************************************************************)
EXTENDS CohortReview, Scheduling_proofs, FiniteSetTheorems

Completed == { d \in Sessions : runs[d] = "completed" }

\* A session with a run has fallen due; one with a snapshot has been executed since;
\* only the execution of a session with one leaves an observation of what its
\* members did; and a completed one has them all.
Executed ==
  \A d \in Sessions :
    /\ runs[d] # "absent" => Due(d) <= now
    /\ d \in bound => runs[d] \in {"running"} \union Recorded
    /\ \A m \in Members : slot[d][m] \in {"official", "partial"} => d \in bound
    /\ runs[d] = "completed" => \A m \in Members : slot[d][m] = "official"

\* A key with entries has a current one, and the revision a clerk has in hand follows
\* one that is there.
Chained ==
  /\ RevisionsFormChain
  /\ \A e \in entries : Current(e.key) # {}
  /\ \A c \in Clerks : work[c] # Nothing /\ work[c].revision > 0 =>
       \E f \in entries : f.key = work[c].key /\ f.revision = work[c].revision - 1

\* An operator who records a decision, or is about to, has completed sessions to
\* decide about.
Earned ==
  (\/ \E e \in entries : e.key \in DecisionKeys
   \/ \E c \in Clerks : work[c].key \in DecisionKeys)
    => Cardinality(Completed) >= ReviewTarget

IInv == TypeOK /\ Executed /\ Chained /\ Earned

-----------------------------------------------------------------------------
(* The calendar *)

\* A session that has fallen due is at or before the cutoff.
LEMMA DueIsBelowCutoff ==
  ASSUME NEW t \in 0..Days * DayTicks - 1, NEW d \in TradingDays, Due(d) <= t
  PROVE  MostRecentDue(t) # NoDay /\ d <= MostRecentDue(t)
<1>1. 1 \in TradingDays /\ d \in Nat /\ d > 0 /\ Due(d) \in Int /\ Due(1) \in Int
  BY Clock, ReviewAssumption
<1>2. Due(1) <= t
  <2>1. CASE d = 1
    BY <2>1
  <2>2. CASE d # 1
    BY <1>1, <2>2, DueIncreases
  <2> QED BY <2>1, <2>2
<1>3. t \in Due(1)..Days * DayTicks - 1
  BY <1>1, <1>2
<1>4. DueSessions(t) # {}
  BY <1>3, LookbackAssumption DEF LookbackReaches
<1> QED BY <1>4, MostRecentDueIsLatest

-----------------------------------------------------------------------------
(* The sessions *)

LEMMA SessionsAreFinite ==
  /\ Sessions \subseteq TradingDays
  /\ \A S \in SUBSET Sessions : IsFiniteSet(S) /\ Cardinality(S) \in Nat
<1>1. IsFiniteSet(Sessions)
  BY FS_Subset, CalendarAssumption DEF Sessions
<1> QED BY <1>1, FS_Subset, FS_CardinalityType DEF Sessions

\* What is recorded of completed sessions stands while the sessions go on.
LEMMA EntriesKept ==
  ASSUME IInv, UNCHANGED << entries, work >>, TypeOK', Executed',
         \A d \in Sessions : runs[d] = "completed" => runs'[d] = "completed"
  PROVE  IInv'
<1>1. Chained'
  BY DEF IInv, Chained, RevisionsFormChain, Current, Of
<1>2. Cardinality(Completed) <= Cardinality(Completed')
  BY SessionsAreFinite, FS_Subset DEF Completed
<1>3. Cardinality(Completed) \in Nat /\ Cardinality(Completed') \in Nat
  BY SessionsAreFinite DEF Completed
<1>4. Earned'
  BY <1>2, <1>3, GateAssumption DEF IInv, Earned
<1> QED BY <1>1, <1>4 DEF IInv

LEMMA InitInv == Init => IInv
<1> SUFFICES ASSUME Init PROVE IInv
  OBVIOUS
<1>1. now \in 0..Days * DayTicks - 1
  <2>1. 1 * DayTicks <= Days * DayTicks /\ Days * DayTicks \in Nat
    BY Clock, TimesMonotone
  <2> QED BY <2>1, Clock DEF Init
<1>2. TypeOK
  BY <1>1 DEF Init, TypeOK, RunStatus, Slots
<1>3. Executed
  BY DEF Init, Executed
<1>4. Chained
  BY DEF Init, Chained, RevisionsFormChain
<1>5. Earned
  <2>1. \A c \in Clerks : work[c].key \notin DecisionKeys
    BY DEF Init, Nothing, DecisionKeys
  <2> QED BY <2>1 DEF Init, Earned
<1> QED BY <1>2, <1>3, <1>4, <1>5 DEF IInv

LEMMA TickInv == ASSUME IInv, Tick PROVE IInv'
<1>1. now' \in 0..Days * DayTicks - 1 /\ now <= now' /\ now \in Int /\ now' \in Int
  BY Clock DEF IInv, TypeOK, Tick
<1>2. UNCHANGED << runs, slot, bound, entries, work >>
  BY DEF Tick
<1>3. TypeOK'
  BY <1>1, <1>2 DEF IInv, TypeOK
<1>4. Executed'
  BY <1>1, <1>2, Clock, SessionsAreFinite DEF IInv, Executed
<1> QED BY <1>2, <1>3, <1>4, EntriesKept

\* A step of one session.
LEMMA DayStep ==
  ASSUME IInv, NEW d \in Sessions, Session(d),
         NEW status \in RunStatus \ {"absent"}, runs' = [runs EXCEPT ![d] = status],
         NEW seen \in [Members -> Slots], slot' = [slot EXCEPT ![d] = seen],
         NEW held \in BOOLEAN, bound' = IF held THEN bound \union {d} ELSE bound,
         Due(d) <= now,
         d \in bound' => status \in {"running"} \union Recorded,
         \A m \in Members : seen[m] \in {"official", "partial"} => d \in bound',
         status = "completed" => \A m \in Members : seen[m] = "official",
         runs[d] = "completed" => status = "completed"
  PROVE  IInv'
<1>1. UNCHANGED << now, entries, work >>
  BY DEF Session
<1>2. /\ runs'[d] = status /\ slot'[d] = seen
      /\ \A e \in Sessions : e # d =>
           runs'[e] = runs[e] /\ slot'[e] = slot[e] /\ (e \in bound' <=> e \in bound)
  BY DEF IInv, TypeOK
<1>3. TypeOK'
  BY <1>1 DEF IInv, TypeOK
<1>4. Executed'
  BY <1>1, <1>2 DEF IInv, Executed
<1> QED BY <1>1, <1>2, <1>3, <1>4, EntriesKept

LEMMA Verdicts ==
  ASSUME NEW d \in Sessions, now \in Int, Verdict(d) \in {"due", "late", "missed"}
  PROVE  Due(d) <= now
BY Clock, SessionsAreFinite DEF Verdict, Evaluate

\* Settling the members still unsettled leaves no trace of an execution.
LEMMA SettleIs ==
  ASSUME TypeOK, NEW d \in Sessions, NEW what \in {"missing", "error"}, Settle(d, what)
  PROVE  \E seen \in [Members -> Slots] :
           /\ slot' = [slot EXCEPT ![d] = seen]
           /\ \A m \in Members : seen[m] = IF slot[d][m] = "none" THEN what ELSE slot[d][m]
<1> DEFINE seen == [m \in Members |-> IF m \in Unsettled(d) THEN what ELSE slot[d][m]]
<1>1. slot' = [slot EXCEPT ![d] = seen]
  BY DEF Settle
<1>2. seen \in [Members -> Slots]
  BY DEF TypeOK, Slots
<1>3. \A m \in Members : seen[m] = IF slot[d][m] = "none" THEN what ELSE slot[d][m]
  BY DEF Unsettled, Settled
<1> QED BY <1>1, <1>2, <1>3

LEMMA SlotsAre ==
  ASSUME IInv, NEW d \in Sessions
  PROVE  /\ slot[d] \in [Members -> Slots] /\ slot = [slot EXCEPT ![d] = slot[d]]
         /\ runs[d] \in RunStatus /\ runs = [runs EXCEPT ![d] = runs[d]] /\ now \in Int
         /\ runs[d] # "absent" => Due(d) <= now
         /\ \A m \in Members : slot[d][m] \in {"official", "partial"} => d \in bound
         /\ d \in bound => runs[d] \in {"running"} \union Recorded
BY DEF IInv, TypeOK, Executed

LEMMA BeginInv ==
  ASSUME IInv, NEW d \in Sessions, Begin(d) \/ Wait(d) \/ Bind(d) PROVE IInv'
<1>1. PICK status \in {"running", "awaiting-data"}, held \in BOOLEAN :
        /\ Session(d) /\ runs' = [runs EXCEPT ![d] = status] /\ slot' = [slot EXCEPT ![d] = slot[d]]
        /\ bound' = IF held THEN bound \union {d} ELSE bound
        /\ status = "running" \/ (~held /\ d \notin bound)
        /\ runs[d] # "completed"
        /\ Due(d) <= now
  <2>1. CASE Begin(d)
    <3>1. Due(d) <= now
      BY <2>1, SlotsAre, Verdicts DEF Begin, ShouldRun
    <3> QED BY <2>1, <3>1, SlotsAre DEF Begin
  <2>2. CASE Wait(d)
    BY <2>2, SlotsAre DEF Wait
  <2>3. CASE Bind(d)
    BY <2>3, SlotsAre DEF Bind
  <2> QED BY <2>1, <2>2, <2>3
<1>2. status \in RunStatus \ {"absent"} /\ status # "completed"
  BY DEF RunStatus
<1>3. d \in bound' => status \in {"running"} \union Recorded
  BY <1>1
<1>4. \A m \in Members : slot[d][m] \in {"official", "partial"} => d \in bound'
  BY <1>1, SlotsAre
<1>5. slot[d] \in [Members -> Slots]
  BY SlotsAre
<1> HIDE DEF IInv
<1> QED BY <1>1, <1>2, <1>3, <1>4, <1>5, DayStep

LEMMA RefuseInv ==
  ASSUME IInv, NEW d \in Sessions, NEW what \in {"missing", "error"}, Refuse(d, what)
  PROVE  IInv'
<1>1. /\ Session(d) /\ runs[d] = "running" /\ d \notin bound
      /\ runs' = [runs EXCEPT ![d] = "failed"] /\ bound' = bound /\ Settle(d, what)
  BY DEF Refuse
<1>2. PICK seen \in [Members -> Slots] :
           /\ slot' = [slot EXCEPT ![d] = seen]
           /\ \A m \in Members : seen[m] = IF slot[d][m] = "none" THEN what ELSE slot[d][m]
  BY <1>1, SettleIs DEF IInv
<1>3. "failed" \in RunStatus \ {"absent"} /\ "failed" \in Recorded
  BY DEF RunStatus, Recorded
<1>4. \A m \in Members : seen[m] \in {"official", "partial"} => d \in bound'
  BY <1>1, <1>2, SlotsAre
<1>5. Due(d) <= now
  BY <1>1, SlotsAre
<1>6. bound' = IF FALSE THEN bound \union {d} ELSE bound
  BY <1>1
<1> QED BY <1>1, <1>2, <1>3, <1>4, <1>5, <1>6, DayStep

LEMMA ExecuteInv ==
  ASSUME IInv, NEW d \in Sessions, NEW m \in Members, NEW what \in {"official", "partial", "error"},
         Execute(d, m, what)
  PROVE  IInv'
<1> DEFINE seen == [slot[d] EXCEPT ![m] = what]
<1>1. /\ Session(d) /\ runs[d] = "running" /\ d \in bound /\ UNCHANGED << runs, bound >>
      /\ slot' = [slot EXCEPT ![d] = seen]
  BY SlotsAre DEF Execute
<1>2. seen \in [Members -> Slots]
  BY SlotsAre DEF Slots
<1>3. "running" \in RunStatus \ {"absent"} /\ runs' = [runs EXCEPT ![d] = "running"]
  BY <1>1, SlotsAre DEF RunStatus
<1>4. Due(d) <= now /\ bound' = IF FALSE THEN bound \union {d} ELSE bound
  BY <1>1, SlotsAre
<1> HIDE DEF seen
<1> QED BY <1>1, <1>2, <1>3, <1>4, DayStep

LEMMA ConcludeInv == ASSUME IInv, NEW d \in Sessions, Conclude(d) PROVE IInv'
<1> DEFINE official == { m \in Members : slot[d][m] = "official" }
<1>1. PICK status \in {"completed", "partial", "failed"} :
        /\ runs' = [runs EXCEPT ![d] = status]
        /\ status = "completed" => official = Members
  BY DEF Conclude
<1>2. Session(d) /\ runs[d] = "running" /\ bound' = bound /\ slot' = [slot EXCEPT ![d] = slot[d]]
  BY SlotsAre DEF Conclude
<1>3. status \in RunStatus \ {"absent"} /\ status \in Recorded
  BY DEF RunStatus, Recorded
<1>4. status = "completed" => \A m \in Members : slot[d][m] = "official"
  BY <1>1
<1>5. Due(d) <= now /\ bound' = IF FALSE THEN bound \union {d} ELSE bound
  BY <1>2, SlotsAre
<1>6. /\ slot[d] \in [Members -> Slots]
      /\ \A m \in Members : slot[d][m] \in {"official", "partial"} => d \in bound'
  BY <1>2, SlotsAre
<1> QED BY <1>1, <1>2, <1>3, <1>4, <1>5, <1>6, DayStep

LEMMA MissInv == ASSUME IInv, NEW d \in Sessions, Miss(d) PROVE IInv'
<1>1. /\ Session(d) /\ runs[d] \notin Recorded /\ runs' = [runs EXCEPT ![d] = "missed"]
      /\ bound' = bound /\ Due(d) <= now
  BY SlotsAre, Verdicts DEF Miss
<1>2. PICK seen \in [Members -> Slots] :
        /\ slot' = [slot EXCEPT ![d] = seen]
        /\ \A m \in Members : seen[m] \in {"official", "partial"} => slot[d][m] = seen[m]
  <2>1. CASE \E what \in {"missing", "error"} : Settle(d, what)
    BY <2>1, SettleIs DEF IInv
  <2>2. CASE \E m \in Unsettled(d) :
               slot' = [slot EXCEPT ![d] = [n \in Members |->
                          IF n \in Unsettled(d) \ {m} THEN "error" ELSE slot[d][n]]]
    <3>1. PICK m \in Unsettled(d) :
             slot' = [slot EXCEPT ![d] = [n \in Members |->
                        IF n \in Unsettled(d) \ {m} THEN "error" ELSE slot[d][n]]]
      BY <2>2
    <3> DEFINE seen == [n \in Members |-> IF n \in Unsettled(d) \ {m} THEN "error" ELSE slot[d][n]]
    <3>2. seen \in [Members -> Slots]
      BY SlotsAre DEF Slots
    <3> QED BY <3>1, <3>2
  <2> QED BY <2>1, <2>2 DEF Miss
<1>3. "missed" \in RunStatus \ {"absent"} /\ "missed" \in Recorded /\ "completed" \in Recorded
  BY DEF RunStatus, Recorded
<1>4. \A m \in Members : seen[m] \in {"official", "partial"} => d \in bound'
  BY <1>1, <1>2, SlotsAre
<1>5. bound' = IF FALSE THEN bound \union {d} ELSE bound
  BY <1>1
<1> QED BY <1>1, <1>2, <1>3, <1>4, <1>5, DayStep

-----------------------------------------------------------------------------
(* The entries *)

Keys == CheckKeys \union DecisionKeys

\* A check's key names an observation and an area, a decision's a member.
LEMMA KindsOfKeys == \A k \in DecisionKeys : k \notin CheckKeys
<1> SUFFICES ASSUME NEW k \in DecisionKeys, k \in CheckKeys PROVE FALSE
  OBVIOUS
<1>1. PICK m \in Members : k = << m >>
  BY DEF DecisionKeys
<1>2. PICK d \in Sessions, n \in Members, a \in Areas : k = << d, n, a >>
  BY DEF CheckKeys
<1>3. DOMAIN k = 1..1
  BY <1>1
<1>4. DOMAIN k = 1..3
  BY <1>2
<1> QED BY <1>3, <1>4

LEMMA EntryIs ==
  ASSUME TypeOK, NEW e \in entries
  PROVE  e.key \in Keys /\ e.revision \in Nat
BY DEF TypeOK, Entries, Keys

\* The sessions do not move while an entry is recorded.
LEMMA SessionsKept ==
  ASSUME IInv, UNCHANGED sessionVars
  PROVE  Executed' /\ Completed' = Completed
BY DEF IInv, Executed, sessionVars, Completed

\* Every decision a command may record is about completed sessions.
LEMMA DecisionsAreDue ==
  ASSUME IInv, NEW key \in Recordable, key \in DecisionKeys
  PROVE  Cardinality(Completed) >= ReviewTarget
<1>1. PICK t \in 0..Days * DayTicks - 1 : key \in Checkable(t) \union Decidable(t)
  BY DEF Recordable
<1>2. key \notin CheckKeys
  BY KindsOfKeys
<1>3. Cardinality(CompletedDue(t, runs)) >= ReviewTarget
  BY <1>1, <1>2 DEF Checkable, Decidable
<1>4. CompletedDue(t, runs) \subseteq Completed
  BY DEF CompletedDue, Evidence, Timed, Completed, IInv, TypeOK
<1>5. Completed \in SUBSET Sessions
  BY DEF Completed
<1>6. /\ Cardinality(CompletedDue(t, runs)) <= Cardinality(Completed)
      /\ Cardinality(CompletedDue(t, runs)) \in Nat /\ Cardinality(Completed) \in Nat
  BY <1>4, <1>5, SessionsAreFinite, FS_Subset
<1> QED BY <1>3, <1>6, GateAssumption

LEMMA RecordableKeys == Recordable \subseteq Keys
BY DEF Recordable, Checkable, Decidable, Keys

LEMMA ReadInv == ASSUME IInv, NEW c \in Clerks, NEW key \in Recordable, Read(c, key) PROVE IInv'
<1> DEFINE top == CHOOSE e \in Current(key) : TRUE
           revision == IF Of(key) = {} THEN 0 ELSE top.revision + 1
           w == [key |-> key, revision |-> revision]
<1>1. UNCHANGED << sessionVars, entries >> /\ work' = [work EXCEPT ![c] = w]
  BY DEF Read
<1>2. Of(key) # {} => top \in entries /\ top.key = key /\ top.revision \in Nat
  <2> SUFFICES ASSUME Of(key) # {} PROVE top \in entries /\ top.key = key /\ top.revision \in Nat
    OBVIOUS
  <2>1. Current(key) # {}
    BY DEF Of, IInv, Chained
  <2>2. top \in Current(key)
    BY <2>1
  <2> QED BY <2>2, EntryIs DEF Current, Of, IInv
<1>3. revision \in Nat /\ (revision > 0 => \E f \in entries : f.key = key /\ f.revision = revision - 1)
  <2> HIDE DEF top
  <2>1. CASE Of(key) = {}
    BY <2>1
  <2>2. CASE Of(key) # {}
    <3>1. revision = top.revision + 1 /\ revision - 1 = top.revision
      BY <1>2, <2>2
    <3> QED BY <1>2, <2>2, <3>1
  <2> QED BY <2>1, <2>2
<1>4. w \in [key : Keys, revision : Nat]
  BY <1>3, RecordableKeys
<1>5. TypeOK'
  BY <1>1, <1>4 DEF IInv, TypeOK, sessionVars, Keys
<1>6. work'[c] = w /\ \A b \in Clerks : b # c => work'[b] = work[b]
  BY <1>1 DEF IInv, TypeOK
<1> HIDE DEF revision
<1>7. Chained'
  BY <1>1, <1>3, <1>6 DEF IInv, Chained, RevisionsFormChain, Current, Of
<1>8. Earned'
  BY <1>1, <1>6, SessionsKept, DecisionsAreDue DEF IInv, Earned
<1> QED BY <1>1, <1>5, <1>7, <1>8, SessionsKept DEF IInv

LEMMA InsertInv ==
  ASSUME IInv, NEW c \in Clerks, NEW content \in Contents(work[c].key), Insert(c, content)
  PROVE  IInv'
<1>0. PICK key \in Keys, revision \in Nat :
        work[c] # Nothing /\ key = work[c].key /\ revision = work[c].revision
  BY DEF Insert, IInv, TypeOK, Keys
<1> DEFINE new == [key |-> key, revision |-> revision, content |-> content]
<1>1. /\ work[c] # Nothing
      /\ \A e \in entries : e.key = key => e.revision # revision
      /\ entries' = entries \union {new}
      /\ work' = [work EXCEPT ![c] = Nothing]
      /\ UNCHANGED sessionVars
  BY <1>0 DEF Insert, Entry, Of
<1>2. content \in Contents(key)
  BY <1>0
<1>3. new \in Entries
  BY <1>2 DEF Entries, Contents, Keys
<1>4. TypeOK'
  BY <1>1, <1>3 DEF IInv, TypeOK, sessionVars
<1>5. /\ revision > 0 => \E f \in entries : f.key = key /\ f.revision = revision - 1
  BY <1>0 DEF IInv, Chained
<1>6. work'[c] = Nothing /\ \A b \in Clerks : b # c => work'[b] = work[b]
  BY <1>1 DEF IInv, TypeOK
<1>7. new.key = key /\ new.revision = revision
  OBVIOUS
<1> HIDE DEF new
<1>8. RevisionsFormChain'
  BY <1>1, <1>5, <1>7 DEF IInv, Chained, RevisionsFormChain
<1>9. \A e \in entries' : Current(e.key)' # {}
  <2> SUFFICES ASSUME NEW e \in entries' PROVE Current(e.key)' # {}
    OBVIOUS
  <2>1. CASE e.key # key
    <3>1. Of(e.key)' = Of(e.key) /\ e \in entries
      BY <1>1, <1>7, <2>1 DEF Of
    <3> QED BY <3>1 DEF IInv, Chained, Current
  <2>2. CASE e.key = key
    <3>1. Of(key)' = Of(key) \union {new}
      BY <1>1, <1>7 DEF Of
    <3>2. CASE Of(key) = {}
      <4>1. new \in Current(key)'
        BY <1>2, <1>7, <3>1, <3>2 DEF Current
      <4> QED BY <2>2, <4>1
    <3>3. CASE Of(key) # {}
      <4>1. PICK top \in Of(key) : \A f \in Of(key) : f.revision <= top.revision
        BY <3>3 DEF IInv, Chained, Current, Of
      <4>2. \A f \in Of(key) : f.revision \in Nat
        BY EntryIs DEF Of, IInv
      <4>3. CASE revision <= top.revision
        <5>1. top \in Current(key)'
          BY <1>7, <3>1, <4>1, <4>3 DEF Current
        <5> QED BY <2>2, <5>1
      <4>4. CASE ~ (revision <= top.revision)
        <5>1. new \in Current(key)'
          BY <1>2, <1>7, <3>1, <4>1, <4>2, <4>4 DEF Current
        <5> QED BY <2>2, <5>1
      <4> QED BY <4>3, <4>4
    <3> QED BY <3>2, <3>3
  <2> QED BY <2>1, <2>2
<1>10. Chained'
  BY <1>1, <1>6, <1>8, <1>9 DEF IInv, Chained
<1>11. Earned'
  <2>1. Completed' = Completed
    BY <1>1, SessionsKept
  <2> QED BY <1>0, <1>1, <1>6, <1>7, <2>1 DEF IInv, Earned, Nothing, DecisionKeys
<1> QED BY <1>1, <1>4, <1>10, <1>11, SessionsKept DEF IInv

LEMMA GiveUpInv == ASSUME IInv, NEW c \in Clerks, GiveUp(c) PROVE IInv'
<1>1. /\ UNCHANGED << sessionVars, entries >>
      /\ work' \in [Clerks -> [key : CheckKeys \union DecisionKeys, revision : Nat] \union {Nothing}]
      /\ work'[c] = Nothing /\ \A b \in Clerks : b # c => work'[b] = work[b]
  BY DEF GiveUp, IInv, TypeOK
<1>2. TypeOK'
  BY <1>1 DEF IInv, TypeOK, sessionVars
<1>3. Chained'
  BY <1>1 DEF IInv, Chained, RevisionsFormChain, Current, Of
<1>4. Nothing.key \notin DecisionKeys
  BY DEF Nothing, DecisionKeys
<1>5. Earned'
  BY <1>1, <1>4, SessionsKept DEF IInv, Earned
<1> QED BY <1>1, <1>2, <1>3, <1>5, SessionsKept DEF IInv

LEMMA StepInv == IInv /\ [Next]_vars => IInv'
<1> SUFFICES ASSUME IInv, [Next]_vars PROVE IInv'
  OBVIOUS
<1>1. CASE UNCHANGED vars
  <2>1. TypeOK' /\ Executed'
    BY <1>1 DEF IInv, TypeOK, Executed, vars, sessionVars
  <2> QED BY <1>1, <2>1, EntriesKept DEF vars, sessionVars
<1>2. ASSUME NEW d \in Sessions,
             \/ Begin(d) \/ Wait(d) \/ Bind(d) \/ Conclude(d) \/ Miss(d)
             \/ \E what \in {"missing", "error"} : Refuse(d, what)
             \/ \E m \in Members, what \in {"official", "partial", "error"} : Execute(d, m, what)
      PROVE  IInv'
  BY <1>2, BeginInv, RefuseInv, ExecuteInv, ConcludeInv, MissInv
<1>3. ASSUME NEW c \in Clerks,
             \/ \E key \in Recordable : Read(c, key)
             \/ \E content \in Contents(work[c].key) : Insert(c, content)
             \/ GiveUp(c)
      PROVE  IInv'
  BY <1>3, ReadInv, InsertInv, GiveUpInv
<1> QED BY <1>1, <1>2, <1>3, TickInv DEF Next

-----------------------------------------------------------------------------
(* What the gate reads *)

LEMMA ReviewableIs ==
  ASSUME TypeOK
  PROVE  Reviewable(now, runs, slot) =
           { o \in Sessions \X Members :
               slot[o[1]][o[2]] = "official" /\ o[1] \in Counting(now, runs) }
BY DEF TypeOK, Reviewable, Judged, Observed

LEMMA JudgedIs ==
  ASSUME TypeOK
  PROVE  Judged(Observed(slot, {"missing", "partial", "official"}), now, runs) =
           { o \in Sessions \X Members :
               /\ slot[o[1]][o[2]] \in {"missing", "partial", "official"}
               /\ o[1] \in Counting(now, runs) }
BY DEF TypeOK, Judged, Observed

\* A session that has been executed, or should have been, counts.
LEMMA Counts ==
  ASSUME NEW t \in 0..Days * DayTicks - 1, NEW status \in [Sessions -> RunStatus],
         NEW d \in Sessions, status[d] # "absent", Due(d) <= t,
         Timing(d, t, status[d]) \in {"executed", "overdue"}
  PROVE  d \in Counting(t, status)
<1>1. d \in TradingDays /\ d \in DOMAIN status
  BY SessionsAreFinite
<1>2. MostRecentDue(t) # NoDay /\ d <= MostRecentDue(t)
  BY <1>1, DueIsBelowCutoff
<1>3. d \notin Outstanding(t, status)
  BY DEF Outstanding, Timed
<1> QED BY <1>1, <1>2, <1>3 DEF Counting

LEMMA RecordedCounts ==
  ASSUME IInv, NEW d \in Sessions, runs[d] \in Recorded
  PROVE  d \in Counting(now, runs) /\ d \in Evidence(now, runs)
<1>1. runs[d] # "absent" /\ Timing(d, now, runs[d]) = "executed" /\ d \in DOMAIN runs
  BY DEF Recorded, Timing, Unexecuted, IInv, TypeOK
<1>2. /\ now \in 0..Days * DayTicks - 1 /\ runs \in [Sessions -> RunStatus] /\ Due(d) <= now
  BY <1>1 DEF IInv, TypeOK, Executed
<1>3. d \in Counting(now, runs)
  BY <1>1, <1>2, Counts
<1> QED BY <1>1, <1>3 DEF Evidence, Timed

LEMMA CompletedIsDue == ASSUME IInv PROVE CompletedDue(now, runs) = Completed
<1>1. CompletedDue(now, runs) \subseteq Completed
  BY DEF CompletedDue, Evidence, Timed, Completed, IInv, TypeOK
<1>2. Completed \subseteq CompletedDue(now, runs)
  BY RecordedCounts DEF CompletedDue, Completed, Recorded
<1> QED BY <1>1, <1>2

LEMMA GateIs ==
  ASSUME TypeOK, NEW official, official = Reviewable(now, runs, slot)
  PROVE  /\ Gate["accountingStates"] = AccountingStates(official, CurrentChecks # {},
              CoveredObservations(official), OpenObservations(official))
         /\ Gate["operatorDecisions"] = OperatorDecisions(Decided)
         /\ Gate["dataReadiness"] = DataReadiness(
              Judged(Observed(slot, {"missing", "partial", "official"}), now, runs), slot)
         /\ Gate["reproducibility"] = Reproducibility(Evidence(now, runs),
              Observed(slot, {"missing", "partial", "official"}),
              Judged(Observed(slot, {"missing", "partial", "official"}), now, runs), bound)
         /\ GateStatus(Gate) = "pass" =>
              \A rule \in GateRules : Gate[rule] \notin Failures /\ Gate[rule] # "insufficient"
<1> DEFINE judged == Judged(Observed(slot, {"missing", "partial", "official"}), now, runs)
<1>1. { o \in judged : slot[o[1]][o[2]] = "official" } = official
  BY JudgedIs, ReviewableIs
<1>2. Gate = Assess(now, runs, slot, bound, CurrentChecks # {}, CoveredObservations(official),
                    OpenObservations(official), Decided)
  BY DEF Gate
<1>3. /\ Gate["accountingStates"] = AccountingStates({ o \in judged : slot[o[1]][o[2]] = "official" },
           CurrentChecks # {}, CoveredObservations(official), OpenObservations(official))
      /\ Gate["operatorDecisions"] = OperatorDecisions(Decided)
      /\ Gate["dataReadiness"] = DataReadiness(judged, slot)
      /\ Gate["reproducibility"] = Reproducibility(Evidence(now, runs),
           Observed(slot, {"missing", "partial", "official"}), judged, bound)
  <2> HIDE DEF judged
  <2> QED BY <1>2 DEF Assess, GateRules, judged
<1>4. GateStatus(Gate) = "pass" =>
        \A rule \in GateRules : Gate[rule] \notin Failures /\ Gate[rule] # "insufficient"
  BY DEF GateStatus, Some
<1> QED BY <1>1, <1>3, <1>4

\* An observation that is covered by the review has a current check in every area.
LEMMA CurrentIs ==
  ASSUME TypeOK, NEW d \in Sessions, NEW m \in Members, NEW a \in Areas,
         NEW e \in Current(<< d, m, a >>)
  PROVE  /\ e \in Of(<< d, m, a >>) /\ e \in entries /\ e \in CurrentChecks
         /\ e.content \in Findings
         /\ \A f \in Of(<< d, m, a >>) : f.revision <= e.revision
<1>1. << d, m, a >> \in CheckKeys
  BY DEF CheckKeys
<1>2. /\ e \in Of(<< d, m, a >>) /\ e \in entries /\ e.key = << d, m, a >>
      /\ \A f \in Of(<< d, m, a >>) : f.revision <= e.revision
  BY DEF Current, Of
<1>3. e \in CurrentChecks
  BY <1>1 DEF CurrentChecks
<1>4. e.content \in Findings
  <2>1. e \in Entries /\ e.key \notin DecisionKeys
    BY <1>1, <1>2, KindsOfKeys DEF TypeOK
  <2> QED BY <2>1 DEF Entries
<1> QED BY <1>2, <1>3, <1>4

-----------------------------------------------------------------------------
(* Theorems *)

THEOREM Invariance == Spec => []IInv
BY InitInv, StepInv, PTL DEF Spec

\* What is recorded of the sessions, the entries and what a clerk has in hand keep
\* their types.
THEOREM TypeCorrect == Spec => []TypeOK
<1>1. IInv => TypeOK
  BY DEF IInv
<1> QED BY <1>1, Invariance, PTL

\* The history of every entry is one line of revisions without gaps, however many
\* operators correct it at once and wherever their commands die.
THEOREM HistoryIsALine == Spec => []RevisionsFormChain
<1>1. IInv => RevisionsFormChain
  BY DEF IInv, Chained
<1> QED BY <1>1, Invariance, PTL

\* A decision on record stands on enough completed sessions, and the cohort stays
\* under review from then on.
THEOREM DecisionsStandOnEvidence == Spec => []DecidedOnEvidence
<1>1. IInv => DecidedOnEvidence
  <2> SUFFICES ASSUME IInv, NEW e \in entries, e.key \in DecisionKeys
               PROVE  /\ Cardinality({ d \in Sessions : runs[d] = "completed" }) >= ReviewTarget
                      /\ ShownPhase \in ReviewDuePhases
    BY DEF DecidedOnEvidence
  <2>1. Cardinality(Completed) >= ReviewTarget
    BY DEF IInv, Earned
  <2>2. Cardinality(CompletedDue(now, runs)) >= ReviewTarget
    BY <2>1, CompletedIsDue
  <2>3. ShownPhase \in ReviewDuePhases
    BY <2>2 DEF ShownPhase, Phase, ReviewDuePhases
  <2> QED BY <2>1, <2>3 DEF Completed
<1> QED BY <1>1, Invariance, PTL

\* Where the review asks for no fewer sessions than the gate's history floor (both
\* are 30), a gate that passes rests on enough sessions with their snapshots, no
\* failed execution, and a complete review that leaves nothing open.
THEOREM PassesAreEarned ==
  ASSUME MinSessions <= ReviewTarget
  PROVE  Spec => []PassIsEarned
<1>1. IInv => PassIsEarned
  <2> SUFFICES ASSUME IInv, GateStatus(Gate) = "pass" PROVE PassIsEarned
    BY DEF PassIsEarned
  <2> DEFINE official == Reviewable(now, runs, slot)
             judged == { d \in Sessions : runs[d] \in Recorded }
             observed == Observed(slot, {"missing", "partial", "official"})
             counted == Judged(observed, now, runs)
  <2>1. /\ AccountingStates(official, CurrentChecks # {}, CoveredObservations(official),
                            OpenObservations(official)) = "pass"
        /\ OperatorDecisions(Decided) = "pass"
        /\ DataReadiness(counted, slot) = "pass"
        /\ Reproducibility(Evidence(now, runs), observed, counted, bound) = "pass"
    <3>1. TypeOK /\ {"accountingStates", "operatorDecisions", "dataReadiness", "reproducibility"}
                      \subseteq GateRules
      BY DEF IInv, GateRules
    <3>2. \A rule \in GateRules : Gate[rule] \notin Failures /\ Gate[rule] # "insufficient"
      BY <3>1, GateIs
    <3> QED BY <3>1, <3>2, GateIs DEF AccountingStates, OperatorDecisions, DataReadiness,
               Reproducibility, Failures
  <2>2. judged \subseteq Evidence(now, runs)
    BY RecordedCounts
  <2>3. judged \subseteq bound
    BY <2>1, <2>2 DEF Reproducibility
  <2>4. Cardinality(judged) >= MinSessions
    <3>1. PICK e \in entries : e.key \in DecisionKeys
      <4>1. Decided # {}
        BY <2>1 DEF OperatorDecisions
      <4> QED BY <4>1 DEF Decided, Current, Of, DecisionKeys
    <3>2. Cardinality(Completed) >= ReviewTarget
      BY <3>1 DEF IInv, Earned
    <3>3. Completed \in SUBSET judged /\ judged \in SUBSET Sessions /\ Completed \in SUBSET Sessions
      BY DEF Completed, Recorded
    <3>4. /\ Cardinality(Completed) <= Cardinality(judged)
          /\ Cardinality(Completed) \in Nat /\ Cardinality(judged) \in Nat
      <4> HIDE DEF judged
      <4> QED BY <3>3, SessionsAreFinite, FS_Subset
    <3> HIDE DEF judged
    <3> QED BY <3>2, <3>4, GateAssumption
  <2>5. ASSUME NEW d \in judged, NEW m \in Members PROVE slot[d][m] # "partial"
    <3> SUFFICES ASSUME slot[d][m] = "partial" PROVE FALSE
      OBVIOUS
    <3>1. << d, m >> \in counted
      BY <2>5, RecordedCounts, JudgedIs DEF IInv
    <3> HIDE DEF counted
    <3> QED BY <2>1, <3>1 DEF DataReadiness
  <2>6. ASSUME NEW d \in judged, NEW m \in Members, slot[d][m] = "official", NEW a \in Areas
        PROVE  \E e \in Of(<< d, m, a >>) :
                 /\ e.content = "settled"
                 /\ \A f \in Of(<< d, m, a >>) : f.revision <= e.revision
    <3>1. << d, m >> \in official
      BY <2>6, RecordedCounts, ReviewableIs DEF IInv
    <3>2. CoveredObservations(official) = official /\ OpenObservations(official) = {}
      <4> HIDE DEF official
      <4> QED BY <2>1 DEF AccountingStates
    <3> HIDE DEF official
    <3>3. PICK e \in Current(<< d, m, a >>) : TRUE
      <4>1. << d, m >> \in CoveredObservations(official)
        BY <3>1, <3>2
      <4> QED BY <4>1 DEF CoveredObservations
    <3>4. e.content # "open"
      <4>1. << d, m >> \notin OpenObservations(official)
        BY <3>2
      <4> QED BY <3>1, <3>3, <4>1 DEF OpenObservations
    <3> QED BY <3>3, <3>4, CurrentIs DEF IInv, Findings
  <2> QED BY <2>3, <2>4, <2>5, <2>6 DEF PassIsEarned
<1> QED BY <1>1, Invariance, PTL

\* Where no more decisions are asked for than there are members (one is), a review
\* that is owed and has nothing left to do satisfies both of the gate's rules about it.
THEOREM NothingLeftIsEnough ==
  ASSUME MinDecisions <= Cardinality(Members)
  PROVE  Spec => []NothingLeftSatisfiesTheGate
<1>1. IInv => NothingLeftSatisfiesTheGate
  <2> SUFFICES ASSUME IInv, Cardinality(CompletedDue(now, runs)) >= ReviewTarget, ~WorkLeft(now)
               PROVE  Gate["accountingStates"] = "pass" /\ Gate["operatorDecisions"] = "pass"
    BY DEF NothingLeftSatisfiesTheGate
  <2> DEFINE official == Reviewable(now, runs, slot)
  <2>1. /\ CoveredObservations(official) = official
        /\ \A e \in CurrentChecks : e.content # "open"
        /\ Decided = Members
    BY DEF WorkLeft
  <2>2. PICK d \in Completed : TRUE
    <3>1. Completed # {}
      BY CompletedIsDue, FS_EmptySet, GateAssumption
    <3> QED BY <3>1
  <2>3. PICK m \in Members : TRUE
    BY GateAssumption
  <2>4. << d, m >> \in official
    <3>1. d \in Sessions /\ slot[d][m] = "official" /\ runs[d] \in Recorded
      BY DEF Completed, Recorded, IInv, Executed
    <3> QED BY <3>1, RecordedCounts, ReviewableIs DEF IInv
  <2>5. official \subseteq Sessions \X Members
    BY ReviewableIs DEF IInv
  <2>6. CurrentChecks # {}
    <3>1. PICK a \in Areas : TRUE
      BY GateAssumption
    <3>2. << d, m >> \in CoveredObservations(official)
      BY <2>1, <2>4
    <3>3. Current(<< d, m, a >>) # {}
      BY <3>2 DEF CoveredObservations
    <3> QED BY <3>3, CurrentIs DEF IInv, Completed
  <2>7. OpenObservations(official) = {}
    <3> SUFFICES ASSUME NEW o \in official, NEW a \in Areas,
                        NEW e \in Current(<< o[1], o[2], a >>), e.content = "open"
                 PROVE  FALSE
      BY DEF OpenObservations
    <3>1. o[1] \in Sessions /\ o[2] \in Members
      BY <2>5
    <3> HIDE DEF official
    <3> QED BY <2>1, <3>1, CurrentIs DEF IInv
  <2>8. AccountingStates(official, CurrentChecks # {}, CoveredObservations(official),
                         OpenObservations(official)) = "pass"
    <3>1. official # {}
      BY <2>4
    <3> HIDE DEF official
    <3> QED BY <2>1, <2>6, <2>7, <3>1 DEF AccountingStates
  <2>9. OperatorDecisions(Decided) = "pass"
    <3>1. Cardinality(Members) \in Nat
      BY GateAssumption, FS_CardinalityType
    <3> QED BY <2>1, <2>3, <3>1, GateAssumption DEF OperatorDecisions
  <2> QED BY <2>8, <2>9, GateIs DEF IInv
<1> QED BY <1>1, Invariance, PTL

\* No step takes an observation back, or a snapshot, and a session with one is only
\* concluded.
LEMMA ObservationsStay ==
  ASSUME IInv, [Next]_vars, NEW d \in Sessions, NEW m \in Members, slot[d][m] = "official"
  PROVE  /\ slot'[d][m] = "official"
         /\ now <= now' /\ now \in Int /\ now' \in Int
         /\ runs'[d] = runs[d] \/ runs'[d] \in Recorded
<1>1. now \in Int /\ slot \in [Sessions -> [Members -> Slots]] /\ runs \in [Sessions -> RunStatus]
  BY DEF IInv, TypeOK
<1>2. d \in bound /\ runs[d] \in {"running"} \union Recorded
  BY DEF IInv, Executed
<1>3. CASE Tick \/ UNCHANGED vars
  BY <1>1, <1>3 DEF Tick, vars, sessionVars
<1>4. ASSUME NEW c \in Clerks,
             \/ \E key \in Recordable : Read(c, key)
             \/ \E content \in Contents(work[c].key) : Insert(c, content)
             \/ GiveUp(c)
      PROVE  UNCHANGED sessionVars
  BY <1>4 DEF Read, Insert, GiveUp
<1>5. ASSUME NEW e \in Sessions,
             \/ Begin(e) \/ Wait(e) \/ Bind(e) \/ Conclude(e) \/ Miss(e)
             \/ \E what \in {"missing", "error"} : Refuse(e, what)
             \/ \E n \in Members, what \in {"official", "partial", "error"} : Execute(e, n, what)
      PROVE  /\ now' = now /\ slot'[d][m] = "official"
             /\ runs'[d] = runs[d] \/ runs'[d] \in Recorded
  <2>1. CASE Begin(e) \/ Wait(e) \/ Bind(e)
    BY <1>1, <1>2, <2>1 DEF Begin, Wait, Bind, Session, Recorded
  <2>2. CASE Conclude(e)
    BY <1>1, <2>2 DEF Conclude, Session, Recorded
  <2>3. CASE \E n \in Members, what \in {"official", "partial", "error"} : Execute(e, n, what)
    BY <1>1, <2>3 DEF Execute, Session, Unsettled, Settled
  <2>4. CASE \E what \in {"missing", "error"} : Refuse(e, what)
    BY <1>1, <2>4 DEF Refuse, Session, Settle, Unsettled, Settled, Recorded
  <2>5. CASE Miss(e)
    <3>1. now' = now /\ (runs'[d] = runs[d] \/ runs'[d] \in Recorded)
      BY <1>1, <2>5 DEF Miss, Session, Recorded
    <3>2. CASE \E what \in {"missing", "error"} : Settle(e, what)
      BY <1>1, <3>1, <3>2 DEF Settle, Unsettled, Settled
    <3>3. CASE \E n \in Unsettled(e) :
                 slot' = [slot EXCEPT ![e] = [k \in Members |->
                            IF k \in Unsettled(e) \ {n} THEN "error" ELSE slot[e][k]]]
      BY <1>1, <3>1, <3>3 DEF Unsettled, Settled
    <3> QED BY <2>5, <3>2, <3>3, <3>1 DEF Miss
  <2> QED BY <1>5, <2>1, <2>2, <2>3, <2>4, <2>5
<1> QED BY <1>1, <1>3, <1>4, <1>5 DEF Next, sessionVars

\* An official observation that counts never stops counting.
THEOREM EvidenceIsNeverLost == Spec => EvidenceStands
<1>1. IInv /\ IInv' /\ [Next]_vars =>
        [Reviewable(now, runs, slot) \subseteq Reviewable(now', runs', slot')]_vars
  <2> SUFFICES ASSUME IInv, IInv', [Next]_vars, NEW o \in Reviewable(now, runs, slot)
               PROVE  o \in Reviewable(now', runs', slot')
    OBVIOUS
  <2>1. PICK d \in Sessions, m \in Members :
          o = << d, m >> /\ slot[d][m] = "official" /\ d \in Counting(now, runs)
    BY ReviewableIs DEF IInv
  <2>2. /\ slot'[d][m] = "official" /\ now <= now' /\ now \in Int /\ now' \in Int
        /\ runs'[d] = runs[d] \/ runs'[d] \in Recorded
    BY <2>1, ObservationsStay
  <2>3. runs[d] \in {"running"} \union Recorded /\ d \in TradingDays
    BY <2>1, SessionsAreFinite DEF IInv, Executed
  <2>4. Timing(d, now', runs'[d]) \in {"executed", "overdue"}
    <3>1. CASE runs'[d] \in Recorded
      BY <3>1 DEF Recorded, Timing, Unexecuted
    <3>2. CASE runs[d] = "running" /\ runs'[d] = "running"
      <4>1. Timing(d, now, "running") \in {"executed", "overdue"}
        <5>1. d \notin Outstanding(now, runs) /\ d \in DOMAIN runs
          BY <2>1 DEF Counting
        <5>2. Timing(d, now, "running") \notin
                {"upcoming", "awaiting-execution", "awaiting-provider-data", "closed-session"}
          BY <3>2, <5>1 DEF Outstanding, Timed
        <5> QED BY <5>2 DEF Timing
      <4>2. Due(d) \in Int /\ Grace \in Int /\ now >= Due(d) /\ now - Due(d) > Grace
        <5>1. Evaluate(d, now, {}) \notin {"skipped-closed-session", "pending", "due"}
          BY <4>1 DEF Timing, Unexecuted
        <5> QED BY <2>2, <2>3, <5>1, Clock, PolicyAssumption DEF Evaluate
      <4>3. now' >= Due(d) /\ now' - Due(d) > Grace
        BY <2>2, <4>2
      <4>4. Evaluate(d, now', {}) \in {"late", "missed"}
        BY <2>2, <2>3, <4>2, <4>3 DEF Evaluate
      <4> QED BY <3>2, <4>4 DEF Timing, Unexecuted, ShouldRun
    <3> QED BY <2>2, <2>3, <3>1, <3>2
  <2>5. d \in Counting(now', runs')
    <3>1. /\ now' \in 0..Days * DayTicks - 1 /\ runs' \in [Sessions -> RunStatus]
          /\ runs'[d] # "absent"
      BY <2>2, <2>3 DEF IInv, TypeOK, Recorded
    <3>2. Due(d) <= now'
      BY <3>1 DEF IInv, Executed
    <3> QED BY <2>4, <3>1, <3>2, Counts
  <2>6. DOMAIN slot' = Sessions
    BY DEF IInv, TypeOK
  <2> QED BY <2>1, <2>2, <2>5, <2>6 DEF Reviewable, Judged, Observed
<1> QED BY <1>1, StepInv, Invariance, PTL DEF Spec, EvidenceStands

=============================================================================
