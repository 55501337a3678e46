---- MODULE MCCaseFile ----
EXTENDS CaseFile, TLC
Symmetry == Permutations(Officer)
====
