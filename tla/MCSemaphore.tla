----------------------------- MODULE MCSemaphore -----------------------------
(* The session gate on a small instance: more callers than permits.          *)
EXTENDS Semaphore
=============================================================================
