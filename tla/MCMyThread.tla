----------------------------- MODULE MCMyThread -----------------------------
\* MyThread on a small set of addresses, for TLC.
EXTENDS MyThread, TLC

\* Addresses other than the root's and semaphores are interchangeable.
Symmetry == Permutations(Threads \ {Root}) \cup Permutations(Sems)

=============================================================================
