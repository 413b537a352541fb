--------------------------- MODULE MCPrintSpool ---------------------------
EXTENDS PrintSpool, TLC

PrintSymmetry == Permutations(Jobs) \cup Permutations(Kms) \cup Permutations(Agents)

=============================================================================
