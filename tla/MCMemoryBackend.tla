--------------------------- MODULE MCMemoryBackend ---------------------------
EXTENDS MemoryBackend, TLC

Symmetry == Permutations(Jobs) \cup Permutations(Consumers)
=============================================================================
