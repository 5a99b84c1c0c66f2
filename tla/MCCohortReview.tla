--------------------------- MODULE MCCohortReview ---------------------------
EXTENDS CohortReview, TLC

Symmetry ==
  Permutations(Clerks) \union Permutations(Members) \union Permutations(Areas)
    \union Permutations(Actions)

=============================================================================
