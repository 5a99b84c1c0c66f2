-------------------------- MODULE MCCohortSchedule --------------------------
EXTENDS CohortSchedule, TLC

Symmetry == Permutations(Runners)

=============================================================================
