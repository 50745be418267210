------------------------------- MODULE MCLog -------------------------------
EXTENDS Log, TLC

Symmetry == Permutations(Proc)
=============================================================================
