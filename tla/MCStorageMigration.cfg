\* Two operators, seven sources, and up to two faults at any of them.
CONSTANTS
  Operators = {p, q}
  Sources = {man, reg, pap, runs, ev1, ev2, use}
  man = man
  reg = reg
  pap = pap
  runs = runs
  ev1 = ev1
  ev2 = ev2
  use = use
  a = a
  b = b
  old = old
  new = new
  Names = {a, b}
  Sessions = {old, new}
  Kind <- MCKind
  Rank <- MCRank
  Owner <- MCOwner
  Expected <- MCExpected
  Observed <- MCObserved
  Registered = {a, b}
  Faulty = {man, reg, pap, runs, ev1, ev2, use}
  MaxFaults = 2
  NoSource = NoSource
SPECIFICATION Spec
INVARIANTS
  ImportedWhole
  PassedMeansWhole
  RegistryComesFirst
PROPERTIES
  Resumes
