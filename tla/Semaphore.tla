------------------------------ MODULE Semaphore ------------------------------
(***************************************************************************)
(* jumpserver/concurrency.ts, class Semaphore: the process-wide session    *)
(* gate (maxSessions).  A permit that is given back while somebody waits   *)
(* is handed to the oldest waiter without ever becoming available, so the  *)
(* counter `available` and the queue `waiters` must never disagree.        *)
(*                                                                         *)
(* A caller p is                                                           *)
(*   "idle"      it never held a permit;                                   *)
(*   "waiting"   its resolve function is in `waiters`;                     *)
(*   "woken"     its promise is resolved, its continuation has not run;    *)
(*   "holding"   it has a releaser it has not called;                      *)
(*   "released"  its releaser has been called.                             *)
(* JavaScript runs one continuation at a time: each action is the code     *)
(* between two awaits.                                                     *)
(***************************************************************************)
EXTENDS Naturals, Sequences, FiniteSets

CONSTANTS Batchers,    \* concurrent calls of acquire()
          MaxSessions  \* the constructor's argument after Math.max(1, Math.floor(size))

ASSUME MaxSessionsAssumption == MaxSessions \in Nat \ {0}

VARIABLES available,  \* free permits
          waiters,    \* resolve functions of the waiting callers, oldest first
          gatePc      \* where each caller stands

gateVars == <<available, waiters, gatePc>>

GateStates == {"idle", "waiting", "woken", "holding", "released"}

\* The callers a permit has been given to, whether or not they have noticed.
Granted == {p \in Batchers : gatePc[p] \in {"woken", "holding"}}

Waiting == {p \in Batchers : gatePc[p] = "waiting"}

GateInit == /\ available = MaxSessions
            /\ waiters = <<>>
            /\ gatePc = [p \in Batchers |-> "idle"]

\* acquire(), the synchronous path: a permit is free.
AcquireNow(p) ==
    /\ gatePc[p] \in {"idle", "released"}
    /\ available > 0
    /\ available' = available - 1
    /\ gatePc' = [gatePc EXCEPT ![p] = "holding"]
    /\ UNCHANGED waiters

\* waiters.push(resolve)
Enqueued(p) == Append(waiters, p)

\* acquire(), the path that waits.
AcquireWait(p) ==
    /\ gatePc[p] \in {"idle", "released"}
    /\ available = 0
    /\ waiters' = Enqueued(p)
    /\ gatePc' = [gatePc EXCEPT ![p] = "waiting"]
    /\ UNCHANGED available

\* The continuation of a woken acquire() builds its releaser.
Resume(p) ==
    /\ gatePc[p] = "woken"
    /\ gatePc' = [gatePc EXCEPT ![p] = "holding"]
    /\ UNCHANGED <<available, waiters>>

\* Mutant: the releaser without its `released` flag.
MutReleaseAgain(p) == gatePc[p] \in {"holding", "released"}

\* The `released` flag makes a second call of a releaser a no-op: only a
\* caller that still holds its permit gets past it.
ReleaseGuard(p) == gatePc[p] = "holding"

\* Mutant: the waiter is shifted off the queue and its promise forgotten.
MutForgetWaiter(p) == [gatePc EXCEPT ![p] = "released"]

\* next(): the promise of the oldest waiter, if there is one, is resolved.
Handed(p) ==
    IF waiters = <<>>
    THEN [gatePc EXCEPT ![p] = "released"]
    ELSE [gatePc EXCEPT ![p] = "released", ![Head(waiters)] = "woken"]

\* waiters.shift()
Shifted == IF waiters = <<>> THEN <<>> ELSE Tail(waiters)

\* A permit becomes free only when nobody takes it over.
Freed == IF waiters = <<>> THEN available + 1 ELSE available

\* The function releaser() returns.
Release(p) ==
    /\ ReleaseGuard(p)
    /\ gatePc' = Handed(p)
    /\ waiters' = Shifted
    /\ available' = Freed

GateStep(p) == AcquireNow(p) \/ AcquireWait(p) \/ Resume(p) \/ Release(p)

GateNext == \E p \in Batchers : GateStep(p)

\* A woken continuation runs, and runTargetBatch calls release in a finally:
\* nothing makes a caller ask for a permit.
GateFairness == \A p \in Batchers : WF_gateVars(Resume(p) \/ Release(p))

GateSpec == GateInit /\ [][GateNext]_gateVars
FairGateSpec == GateSpec /\ GateFairness
-----------------------------------------------------------------------------
GateTypeOK == /\ available \in 0 .. MaxSessions
              /\ waiters \in Seq(Batchers)
              /\ gatePc \in [Batchers -> GateStates]

(* Every permit is either free or given to exactly one caller: a release    *)
(* neither loses one nor creates one (concurrency.ts:103-115).              *)
PermitsConserved == available + Cardinality(Granted) = MaxSessions

(* A newcomer never takes a permit past somebody who waits: while the queue *)
(* is not empty no permit is free (concurrency.ts:94-101 takes the short    *)
(* path on `available` alone, without looking at the queue).                *)
NoBarging == waiters # <<>> => available = 0

(* The queue holds exactly the callers whose promise is pending, each once: *)
(* a release never resolves somebody who is not waiting.                    *)
QueueIsWaiting ==
    /\ {waiters[i] : i \in DOMAIN waiters} = Waiting
    /\ \A i, j \in DOMAIN waiters : waiters[i] = waiters[j] => i = j

\* The gate is a permit pool.
Pool == INSTANCE PermitPool
            WITH Procs <- Batchers, Size <- MaxSessions, holders <- Granted
PoolSpec == Pool!Spec
=============================================================================
