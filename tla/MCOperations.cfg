\* Alerts: three processes, the code's three attempts, every configuration.
\* Data: two sessions, a price and a filings member, one fault.
\* Founding: three creations that take turns, two of whatever can go wrong.
CONSTANTS
  Senders = {p1, p2, p3}
  MaxAttempts = 3
  spy = spy
  momentum = momentum
  value = value
  Last = 2
  Symbols = {spy}
  Benchmark = spy
  Members = {momentum, value}
  Universe <- MCUniverse
  Rosters <- MCRosters
  MaxFaults = 1
  Creators = {p1, p2}
  Names = {1, 2, 3}
  Plans <- MCPlans
  MaxCalls = 3
  MaxMishaps = 2
  p1 = p1
  p2 = p2
SPECIFICATION MCSpec
INVARIANTS
  RecordIsHonest
  DecidesOnSettledBars
  AllOrNothing
  ManifestVouches
PROPERTIES
  SentOrVisible
  WaitingResolves
CHECK_DEADLOCK FALSE
