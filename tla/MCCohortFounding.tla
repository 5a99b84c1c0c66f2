--------------------------- MODULE MCCohortFounding ---------------------------
EXTENDS CohortFounding, TLC

\* One plan, asked for twice.
MCPlans == { 1 :> "cash" @@ 2 :> "momentum" @@ 3 :> "value" }

===============================================================================
