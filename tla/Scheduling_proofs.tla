-------------------------- MODULE Scheduling_proofs --------------------------
(***************************************************************************)
(* Lemmas about the calendar arithmetic of Scheduling, for every calendar  *)
(* and policy: what its choices return and how instants, days and due      *)
(* times are ordered.                                                      *)
(***************************************************************************)
EXTENDS Scheduling, WellFoundedInduction, TLAPS

\* Every nonempty set of naturals has the least element Earliest names.
LEMMA EarliestIsLeast ==
  ASSUME NEW S \in SUBSET Nat, S # {}
  PROVE  Earliest(S) \in S /\ \A e \in S : Earliest(S) <= e
<1> DEFINE R == OpToRel(<, Nat)
<1>1. \A e, d \in Nat : e < d => << e, d >> \in R
  BY DEF OpToRel
<1>2. IsWellFoundedOn(R, Nat)
  BY NatLessThanWellFounded
<1> HIDE DEF R
<1>3. PICK d \in S : \A e \in S : ~ (<< e, d >> \in R)
  BY <1>2, WFMin
<1>4. S \subseteq Nat
  OBVIOUS
<1>5. \A e \in S : ~ (e < d)
  BY <1>1, <1>3, <1>4, Zenon
<1>6. \A e \in S : d <= e
  BY <1>4, <1>5
<1> QED BY <1>6 DEF Earliest

\* Every nonempty bounded set of naturals has the greatest element Latest names.
LEMMA LatestIsGreatest ==
  ASSUME NEW S \in SUBSET Nat, S # {}, NEW b \in Nat, \A e \in S : e <= b
  PROVE  Latest(S) \in S /\ \A e \in S : e <= Latest(S)
<1> DEFINE mirror == { b - e : e \in S }
<1>1. mirror \in SUBSET Nat /\ mirror # {}
  <2>1. \A e \in S : b - e \in Nat
    OBVIOUS
  <2>2. PICK e \in S : TRUE
    OBVIOUS
  <2>3. b - e \in mirror
    OBVIOUS
  <2> QED BY <2>1, <2>3
<1>2. PICK m \in mirror : \A x \in mirror : m <= x
  <2> HIDE DEF mirror
  <2> QED BY <1>1, EarliestIsLeast
<1>3. PICK d \in S : m = b - d
  BY <1>2
<1>4. \A e \in S : b - d <= b - e
  BY <1>2, <1>3
<1>5. \A e \in S : e <= d
  <2> TAKE e \in S
  <2>1. e \in Nat /\ d \in Nat /\ b - d <= b - e
    BY <1>3, <1>4
  <2> QED BY <2>1
<1> QED BY <1>5 DEF Latest

-----------------------------------------------------------------------------
(* Instants and days *)

LEMMA Clock ==
  /\ DayTicks \in Nat /\ DayTicks > 0 /\ Days \in Nat /\ Days > 0
  /\ \A d \in TradingDays :
       /\ d \in Nat /\ d > 0 /\ SessionClose(d) \in 0..DayTicks - 1
       /\ Due(d) \in Int /\ (d - 1) * DayTicks \in Int /\ (d - 1) * DayTicks <= Due(d)
<1>1. DayTicks \in Nat /\ DayTicks > 0 /\ Days \in Nat /\ Days > 0 /\ DecisionDelay \in Nat
  BY CalendarAssumption, ClockAssumption, PolicyAssumption
<1>2. ASSUME NEW d \in TradingDays
      PROVE  /\ d \in Nat /\ d > 0 /\ SessionClose(d) \in 0..DayTicks - 1
             /\ Due(d) \in Int /\ (d - 1) * DayTicks \in Int /\ (d - 1) * DayTicks <= Due(d)
  <2>1. d \in Nat /\ d > 0 /\ SessionClose(d) \in 0..DayTicks - 1
    BY CalendarAssumption, ClockAssumption DEF SessionClose
  <2> DEFINE start == (d - 1) * DayTicks
  <2>2. start \in Int /\ Due(d) = start + SessionClose(d) + DecisionDelay
    BY <1>1, <2>1 DEF Due
  <2> HIDE DEF start
  <2>3. Due(d) \in Int /\ start <= Due(d)
    BY <1>1, <2>1, <2>2
  <2> QED BY <2>1, <2>2, <2>3 DEF start
<1> QED BY <1>1, <1>2

LEMMA TimesMonotone == \A a, b, c \in Nat : a <= b => a * c <= b * c
<1> SUFFICES ASSUME NEW a \in Nat, NEW b \in Nat, NEW c \in Nat, a <= b PROVE a * c <= b * c
  OBVIOUS
<1>1. PICK x \in Nat : b = a + x
  <2>1. b - a \in Nat /\ b = a + (b - a)
    OBVIOUS
  <2> QED BY <2>1
<1>2. b * c = a * c + x * c /\ a * c \in Nat /\ x * c \in Nat
  BY <1>1
<1> QED BY <1>2

\* Sessions fall due in the order of their days.
LEMMA DueIncreases ==
  ASSUME NEW d \in TradingDays, NEW e \in TradingDays, d < e
  PROVE  Due(d) < Due(e)
<1>1. /\ d \in Nat /\ e \in Nat /\ d <= e - 1 /\ d > 0
      /\ SessionClose(d) \in Nat /\ SessionClose(d) < DayTicks /\ SessionClose(e) \in Nat
  BY Clock
<1> DEFINE from == (d - 1) * DayTicks
           to == (e - 1) * DayTicks
<1>2. from \in Int /\ to \in Int /\ from + DayTicks <= to
  <2>1. d - 1 \in Nat /\ d \in Nat /\ e - 1 \in Nat
    BY <1>1
  <2>2. d * DayTicks <= to
    BY <1>1, <2>1, Clock, TimesMonotone
  <2>3. d * DayTicks = from + DayTicks
    BY <1>1, Clock
  <2> QED BY <2>1, <2>2, <2>3, Clock
<1>3. Due(d) = from + SessionClose(d) + DecisionDelay /\ Due(e) = to + SessionClose(e) + DecisionDelay
  BY DEF Due
<1> HIDE DEF from, to
<1> QED BY <1>1, <1>2, <1>3, Clock, PolicyAssumption

\* An instant of a day is before the days that follow it.
LEMMA TodayBounds ==
  ASSUME NEW t \in Nat
  PROVE  Today(t) \in Nat /\ t < Today(t) * DayTicks
<1> DEFINE k == t \div DayTicks
<1>1. k \in Nat /\ t < (k + 1) * DayTicks
  BY Clock
<1> HIDE DEF k
<1> QED BY <1>1 DEF Today, k

\* An instant of the days that pass is on one of them.
LEMMA TodayIsADay ==
  ASSUME NEW t \in 0..Days * DayTicks - 1
  PROVE  Today(t) \in 1..Days
<1>1. DayTicks \in Nat /\ Days \in Nat /\ t \in Nat
  BY CalendarAssumption, ClockAssumption
<1>2. DayTicks > 0
  BY ClockAssumption
<1> DEFINE k == t \div DayTicks
<1>3. k \in Nat /\ k * DayTicks <= t
  BY <1>1, <1>2
<1> HIDE DEF k
<1>4. k < Days
  <2>1. Days * DayTicks \in Int /\ k * DayTicks < Days * DayTicks
    BY <1>1, <1>3
  <2>2. CASE k >= Days
    <3>1. PICK x \in Nat : k = Days + x
      BY <1>1, <1>3, <2>2
    <3>2. k * DayTicks = Days * DayTicks + x * DayTicks /\ x * DayTicks \in Nat
      BY <1>1, <3>1
    <3> QED BY <2>1, <3>2
  <2> QED BY <1>1, <1>3, <2>2
<1> QED BY <1>1, <1>3, <1>4 DEF Today, k

-----------------------------------------------------------------------------
(* The most recent due session *)

\* The most recent due session is one of the days that have begun.
LEMMA MostRecentDueIsADay ==
  ASSUME NEW t \in 0..Days * DayTicks - 1, MostRecentDue(t) # NoDay
  PROVE  MostRecentDue(t) \in 1..Days
<1> DEFINE due == DueSessions(t)
<1>1. due # {} /\ MostRecentDue(t) = Latest(due)
  BY DEF MostRecentDue
<1>2. Today(t) \in 1..Days
  BY TodayIsADay
<1>3. due \in SUBSET Nat /\ (\A e \in due : e \in Nat /\ e # 0 /\ e <= Today(t))
  BY CalendarAssumption DEF DueSessions
<1> DEFINE today == Today(t)
<1>4. today \in Nat /\ today <= Days /\ Days \in Nat
  BY <1>2, CalendarAssumption
<1> HIDE DEF due
<1>5. Latest(due) \in due
  <2>1. \A e \in due : e <= today
    BY <1>3
  <2> HIDE DEF today
  <2> QED BY <1>1, <1>3, <1>4, <2>1, LatestIsGreatest
<1>6. Latest(due) \in Nat /\ Latest(due) # 0 /\ Latest(due) <= today
  BY <1>3, <1>5
<1> HIDE DEF today
<1> QED BY <1>1, <1>4, <1>6

\* Where the scan finds a session at all, the one it finds is due and the latest due
\* one there is, however far back the others lie.
LEMMA MostRecentDueIsLatest ==
  ASSUME NEW t \in 0..Days * DayTicks - 1, DueSessions(t) # {}
  PROVE  /\ MostRecentDue(t) \in TradingDays /\ MostRecentDue(t) # NoDay /\ Due(MostRecentDue(t)) <= t
         /\ \A d \in TradingDays : Due(d) <= t => d <= MostRecentDue(t)
<1>1. t \in Nat /\ t \in Int
  OBVIOUS
<1> DEFINE due == DueSessions(t)
           today == Today(t)
<1>2. today \in Nat /\ t < today * DayTicks
  BY <1>1, TodayBounds
<1>3. due \in SUBSET Nat /\ \A e \in due : e \in TradingDays /\ Due(e) <= t /\ e <= today /\ today - Lookback <= e
  BY CalendarAssumption DEF DueSessions
<1>4. MostRecentDue(t) = Latest(due)
  BY DEF MostRecentDue
<1>5. Latest(due) \in due /\ \A e \in due : e <= Latest(due)
  <2>1. due # {}
    OBVIOUS
  <2> HIDE DEF due, today
  <2> QED BY <1>2, <1>3, <2>1, LatestIsGreatest
<1>6. MostRecentDue(t) \in TradingDays /\ MostRecentDue(t) # NoDay /\ Due(MostRecentDue(t)) <= t
  BY <1>3, <1>4, <1>5, CalendarAssumption
<1>7. ASSUME NEW d \in TradingDays, Due(d) <= t
      PROVE  d <= MostRecentDue(t)
  <2>1. d \in Nat /\ d > 0 /\ (d - 1) * DayTicks \in Int /\ (d - 1) * DayTicks <= t
    BY <1>1, <1>7, Clock
  <2>2. d <= today
    <3>1. CASE d > today
      <4>1. d - 1 \in Nat /\ today <= d - 1
        BY <1>2, <2>1, <3>1
      <4>2. today * DayTicks <= (d - 1) * DayTicks
        BY <1>2, <4>1, Clock, TimesMonotone
      <4>3. today * DayTicks \in Int
        BY <1>2, Clock
      <4> HIDE DEF today
      <4> QED BY <1>1, <1>2, <2>1, <4>2, <4>3
    <3> QED BY <1>2, <2>1, <3>1
  <2>3. CASE d \in due
    BY <1>4, <1>5, <2>3
  <2>4. CASE d \notin due
    <3>1. ~ (today - Lookback <= d)
      BY <1>7, <2>2, <2>4 DEF DueSessions
    <3>2. Latest(due) \in Nat /\ today - Lookback <= Latest(due)
      BY <1>3, <1>5
    <3> HIDE DEF today, due
    <3>3. d <= Latest(due)
      BY <1>2, <2>1, <3>1, <3>2, PolicyAssumption
    <3> QED BY <1>4, <3>3
  <2> QED BY <2>3, <2>4
<1> QED BY <1>6, <1>7

=============================================================================
