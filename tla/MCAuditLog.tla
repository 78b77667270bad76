------------------------------ MODULE MCAuditLog ------------------------------
EXTENDS AuditLog, TLC

CONSTANTS p1, p2
=============================================================================
