---------------------------- MODULE MCOperations ----------------------------
(***************************************************************************)
(* Small protocols that share nothing, in one state space: the initial     *)
(* state picks the one that runs, and the variables of the others rest.    *)
(***************************************************************************)
EXTENDS CohortAlerts, TLC

CONSTANTS
  spy, momentum, value, p1, p2,
  Last, Symbols, Benchmark, Members, Universe, Rosters, MaxFaults,
  Creators, Names, Plans, MaxCalls, MaxMishaps

VARIABLES
  world,  \* the protocol that runs
  needs, now, published, filed, cache, capture, bound, status, faults,
  backend, sleeve, manifest, creation, calls, mishaps

alertVars == << channelLive, slow, delivery, attempts, stale, at, marked, plain, repeats >>
dataVars == << needs, now, published, filed, cache, capture, bound, status, faults >>
foundingVars == << backend, sleeve, manifest, creation, calls, mishaps >>

\* A member on price histories beside one on filings, or on a macro series.
MCRosters == { momentum :> {"history"} @@ value :> {"filings"},
               momentum :> {"macro"} @@ value :> {} }

MCUniverse == [m \in {momentum, value} |-> {spy}]

Data == INSTANCE CohortPreflight

ASSUME DataAssumption == Data!PreflightAssumption

\* Plans that agree on the first member, and one that leaves the last one out.
MCPlans == { 1 :> "cash" @@ 2 :> "momentum" @@ 3 :> "value",
             1 :> "cash" @@ 2 :> "reversal" @@ 3 :> "value",
             1 :> "cash" @@ 2 :> "momentum" }

Founding == INSTANCE CohortFounding WITH
  Members <- Names, MaxFaults <- MaxMishaps, Overlap <- FALSE

ASSUME FoundingAssumption == Founding!FoundingAssumption

\* At rest no step is enabled that fairness asks for: the alert has been sent,
\* and no session has closed.
AlertsAtRest ==
  /\ delivery = "sent" /\ attempts = 1 /\ stale = FALSE
  /\ channelLive = FALSE /\ slow = FALSE
  /\ at = [p \in Senders |-> "idle"] /\ marked = [p \in Senders |-> FALSE]
  /\ plain = 0 /\ repeats = 0

DataAtRest == Data!Init /\ needs[value] = {}

FoundingAtRest == Founding!Init /\ backend = "shared"

MCInit ==
  \/ world = "alerts" /\ Init /\ DataAtRest /\ FoundingAtRest
  \/ world = "data" /\ Data!Init /\ AlertsAtRest /\ FoundingAtRest
  \/ world = "founding" /\ Founding!Init /\ AlertsAtRest /\ DataAtRest

AlertStep ==
  world = "alerts" /\ Next /\ UNCHANGED << world, dataVars, foundingVars >>

DataStep ==
  world = "data" /\ Data!Next /\ UNCHANGED << world, alertVars, foundingVars >>

FoundingStep ==
  world = "founding" /\ Founding!Next /\ UNCHANGED << world, alertVars, dataVars >>

MCSpec ==
  /\ MCInit /\ [][AlertStep \/ DataStep \/ FoundingStep]_<< world, alertVars, dataVars, foundingVars >>
  /\ Fairness /\ Data!Fairness

\* CohortPreflight: no cohort decides on a bar that is not the session's settled one.
DecidesOnSettledBars == Data!DecidesOnSettledBars

\* CohortPreflight: waiting is what resolves a wait.
WaitingResolves == Data!WaitingResolves

\* CohortFounding: a creation leaves a whole cohort or none.
AllOrNothing == Founding!AllOrNothing

\* CohortFounding: a stored manifest has every member it states.
ManifestVouches == Founding!ManifestVouches

=============================================================================
