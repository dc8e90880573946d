--------------------------- MODULE MCRamdiskFile ---------------------------
\* RamdiskFile with blocks of two bytes and pages of two blocks, for TLC.
EXTENDS RamdiskFile, TLC
=============================================================================
