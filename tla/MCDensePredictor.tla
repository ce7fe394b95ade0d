-------------------------- MODULE MCDensePredictor --------------------------
\* Model-checking definitions for DensePredictor.
EXTENDS DensePredictor, TLC

DenseSymmetry ==
    Permutations(Threads) \cup Permutations(Sessions) \cup Permutations(Patterns \ Static)
=============================================================================
