----------------------------- MODULE MCReports -----------------------------
EXTENDS Reports, TLC

WorkerSymmetry == Permutations(Workers)

=============================================================================
