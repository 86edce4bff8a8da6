-------------------------- MODULE MCConnectionUse --------------------------
EXTENDS ConnectionUse, TLC

Identities == Permutations(Connections) \cup Permutations(Requests)
=============================================================================
