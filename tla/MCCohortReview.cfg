\* Two trading days and the first instant of a third, a due and then a late session each; one session reviewed in one area suffices to pass.
CONSTANTS
  Days = 3
  TradingDays = {1, 3, 4}
  EarlyDays = {}
  DayTicks = 1
  RegularClose = 0
  EarlyClose = 0
  DecisionDelay = 0
  Grace = 0
  Unlimited = Unlimited
  MaxCatchup = Unlimited
  Lookback = 3
  NoDay = NoDay
  Members = {m1, m2}
  NonControl = {m1, m2}
  Areas = {a1}
  MinSessions = 1
  MinPercent = 98
  MinOverlap = 1
  MinDecisions = 1
  ReviewTarget = 1
  Clerks = {c1, c2}
  Actions = {keep}
  MaxEntries = 4
  MaxFlawed = 1
SPECIFICATION Spec
SYMMETRY Symmetry
CHECK_DEADLOCK FALSE
INVARIANTS
  RevisionsFormChain
  DecidedOnEvidence
  PassIsEarned
  NothingLeftSatisfiesTheGate
PROPERTIES
  EvidenceStands
