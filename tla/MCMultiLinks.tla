---------------------------- MODULE MCMultiLinks ----------------------------
EXTENDS MultiLinks, TLC

Symmetry == Permutations(Conn) \cup Permutations(Account) \cup Permutations(Probe)
=============================================================================
