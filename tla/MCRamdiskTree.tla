--------------------------- MODULE MCRamdiskTree ---------------------------
\* RamdiskTree with a few addresses and names, for TLC.
EXTENDS RamdiskTree, TLC

Symmetry == Permutations(Files)
=============================================================================
