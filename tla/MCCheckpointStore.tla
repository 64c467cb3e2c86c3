-------------------------- MODULE MCCheckpointStore --------------------------
EXTENDS CheckpointStore, TLC

Symmetry == Permutations(Callers) \cup Permutations(Identities)
=============================================================================
