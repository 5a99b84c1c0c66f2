\* Two invocations at once over days 2 to 4, the third a holiday, the second an early close; DEFAULT_POLICY.
CONSTANTS
  Days = 4
  TradingDays = {1, 2, 4, 5}
  EarlyDays   = {2}
  DayTicks = 3
  RegularClose = 2
  EarlyClose   = 1
  DecisionDelay = 0
  Grace = 1
  Unlimited  = Unlimited
  MaxCatchup = Unlimited
  Lookback = 2
  NoDay = NoDay
  CohortStart = 2
  HistorySessions = 2
  Runners = {r1, r2}
  NamedDays  = {2, 3}
  MayCrash = TRUE
SPECIFICATION Spec
SYMMETRY Symmetry
INVARIANTS
  AlertsStayTrue
  OneWindow
  GapsAreVisible
