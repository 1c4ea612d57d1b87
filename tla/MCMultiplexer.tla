--------------------------- MODULE MCMultiplexer ---------------------------
EXTENDS Multiplexer, TLC
Symmetry == Permutations(Threads)
=============================================================================
