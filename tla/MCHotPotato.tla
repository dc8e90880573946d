----------------------------- MODULE MCHotPotato -----------------------------
\* HotPotato on small rings, for TLC.
EXTENDS HotPotato, TLC

\* The processes that run on a host of their own; the others share one.
CONSTANT Far

MCHost == [p \in Procs |-> IF p \in Far THEN p ELSE "near"]

\* The processes on one host are interchangeable until they have an index.
Symmetry == Permutations(Procs \ Far) \cup Permutations(Far)

=============================================================================
