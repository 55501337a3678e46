---- MODULE MCSlaWorker ----
EXTENDS SlaWorker, TLC
Symmetry == Permutations(Process)
====
