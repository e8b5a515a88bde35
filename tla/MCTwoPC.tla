------------------------------- MODULE MCTwoPC -------------------------------
EXTENDS TwoPC, TLC

Symmetry == Permutations(Participants \ ReadOnly) \cup Permutations(Resolvers)
=============================================================================
