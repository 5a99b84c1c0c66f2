---------------------------- MODULE MCCohortRun ----------------------------
EXTENDS RecoveryAdvice, TLC

Symmetry ==
  Permutations(Members) \union Permutations(Snapshots) \union Permutations(Runners)

=============================================================================
