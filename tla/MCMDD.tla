------------------------------- MODULE MCMDD -------------------------------
EXTENDS MDDClients

\* The nodes are interchangeable.
Permuted == Permutations(Node)
=============================================================================
