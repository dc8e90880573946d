---------------------------- MODULE MCLinkedList ----------------------------
\* LinkedList with a few cells, for TLC.
EXTENDS LinkedList, TLC

Symmetry == Permutations(Cells) \cup Permutations(Items)
=============================================================================
