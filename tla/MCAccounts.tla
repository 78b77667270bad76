------------------------------ MODULE MCAccounts ------------------------------
EXTENDS Accounts, TLC

CONSTANTS p1, p2, i1, i2, h1

Symmetry == Permutations(Ids)
=============================================================================
