------------------------- MODULE MCStorageMigration -------------------------
EXTENDS StorageMigration, TLC

CONSTANTS man, reg, pap, runs, ev1, ev2, use, a, b, old, new

MCKind == man :> "cohort_manifest" @@ reg :> "registry" @@ pap :> "paper" @@ runs :> "runs"
          @@ ev1 :> "evaluation" @@ ev2 :> "evaluation" @@ use :> "usage"

\* data/cohort_sleeves/ comes before data/cohorts/ and data/registry.
MCRank == ev1 :> 0 @@ pap :> 1 @@ ev2 :> 2 @@ man :> 3 @@ runs :> 4 @@ reg :> 5 @@ use :> 6

MCOwner == pap :> a @@ ev1 :> a @@ ev2 :> b

\* The older session ran before the run store existed.
MCExpected == old :> {} @@ new :> {a, b}
MCObserved == ev1 :> {old, new} @@ ev2 :> {old, new}

Symmetry == Permutations(Operators)

=============================================================================
