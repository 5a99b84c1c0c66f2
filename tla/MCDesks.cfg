\* Orders: two processes and three orders of one fingerprint; a cap of one trade a day.
\* Backups: two that take turns within two seconds, two faults; two rows are added
\* to the source and may be removed.
\* Replay: three downloads by two processes over two pairs of symbol and session.
CONSTANTS
  Desks = {d1, d2}
  Invocations = {n1, n2, n3}
  Requests = {q1}
  MaxTrades = 1
  NoId = NoId
  Nothing = Nothing
  MaxRows = 2
  MaxStamp = 2
  MaxFaults = 2
  Slots = 3
  Payloads <- MCPayloads
  Errors = {"timeout"}
  Universes <- MCUniverses
  MaxRevision = 2
  MaxDownloads = 3
SPECIFICATION MCSpec
SYMMETRY Symmetry
INVARIANTS
  PlacedIsRecorded
  TokenBuysOneOrder
  RacesAreBounded
  HaltHolds
  ManifestSpeaksTrue
  ResearchIsSound
CHECK_DEADLOCK FALSE
