------------------------------ MODULE MCConsole ------------------------------
EXTENDS Console, TLC

CONSTANTS p1, p2, p3
=============================================================================
