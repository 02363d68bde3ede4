-------------------------- MODULE MCClientSession --------------------------
EXTENDS ClientSession, TLC

Symmetry == Permutations(Students) \union Permutations(Threads)
=============================================================================
