--------------------------- MODULE MCRamdiskQuota ---------------------------
\* RamdiskQuota with a few threads and names, for TLC.
EXTENDS RamdiskQuota, TLC

CONSTANTS a, b, c

\* Two names in one directory, a third in another.
MCHome == (a :> "home") @@ (b :> "home") @@ (c :> "tmp")

Symmetry == Permutations(Threads) \cup Permutations({a, b})
=============================================================================
