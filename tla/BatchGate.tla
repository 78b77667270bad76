------------------------------ MODULE BatchGate ------------------------------
(***************************************************************************)
(* How SessionManager.runTargetBatch combines the process-wide session     *)
(* gate (Semaphore) with the manager's own queue (SessionMutex): a batch   *)
(* takes a permit first, then waits for its turn on its conversation's     *)
(* PTY, and gives the permit back when the turn is over.  run, enter,      *)
(* leave and startJob use the queue without asking the gate.               *)
(***************************************************************************)
EXTENDS Semaphore, SessionMutex

\* The callers that ask the gate are those that run batches.
ASSUME BatchersAssumption == Batchers \subseteq Callers

VARIABLE stage  \* batch -> "idle", "acquiring", "queued" or "leaving"

batchVars == <<gateVars, vars, stage>>

BatchInit == /\ GateInit
             /\ Init
             /\ stage = [b \in Batchers |-> "idle"]

\* Bound: batches that wait for a permit will need a turn each.
Booked(m) ==
    tail[m] + Cardinality({b \in Batchers : Home[b] = m /\ stage[b] = "acquiring"})

\* runTargetBatch asks the gate.
Ask(b) ==
    /\ stage[b] = "idle"
    /\ Booked(Home[b]) < MaxTurns
    /\ AcquireNow(b) \/ AcquireWait(b)
    /\ stage' = [stage EXCEPT ![b] = "acquiring"]
    /\ UNCHANGED vars

\* The gate's continuation: the batch has its permit.
WakeUp(b) ==
    /\ Resume(b)
    /\ UNCHANGED <<vars, stage>>

\* await sessionGate.acquire()
HasPermit(b) == gatePc[b] = "holding"

\* runTargetBatchGated queues its turn.  acquire() does not look at the
\* signal: a batch cancelled before this point is a batch cancelled right
\* after it.
Submit(b) ==
    /\ stage[b] = "acquiring"
    /\ HasPermit(b)
    /\ Enqueue(b)
    /\ stage' = [stage EXCEPT ![b] = "queued"]
    /\ UNCHANGED gateVars

\* run, enter, leave or startJob queues its turn: no permit.
PlainCall(c) ==
    /\ c \notin Batchers
    /\ Booked(Home[c]) < MaxTurns
    /\ Enqueue(c)
    /\ UNCHANGED <<gateVars, stage>>

\* A turn starts.
TurnStarts(c) ==
    /\ Enter(c)
    /\ UNCHANGED <<gateVars, stage>>

Cancel(c) ==
    /\ Abort(c)
    /\ UNCHANGED <<gateVars, stage>>

\* Mutant: no finally, a turn that throws keeps its permit.
MutKeepPermit(b) == [stage EXCEPT ![b] = IF aborted[b] THEN "idle" ELSE "leaving"]

\* The try block of runTargetBatch is over.
Leaving(b) == [stage EXCEPT ![b] = "leaving"]

\* A turn ends, or is dropped by the queue.
TurnEnds(c) ==
    /\ Finish(c) \/ Drop(c)
    /\ stage' = IF c \in Batchers THEN Leaving(c) ELSE stage
    /\ UNCHANGED gateVars

\* finally { release?.() }
GiveBack(b) ==
    /\ stage[b] = "leaving"
    /\ Release(b)
    /\ stage' = [stage EXCEPT ![b] = "idle"]
    /\ UNCHANGED vars

BatchStep(b) == Ask(b) \/ WakeUp(b) \/ Submit(b) \/ GiveBack(b)
TurnStep(c) == PlainCall(c) \/ TurnStarts(c) \/ TurnEnds(c) \/ Cancel(c)

BatchNext == (\E b \in Batchers : BatchStep(b)) \/ (\E c \in Callers : TurnStep(c))

\* Continuations run and every turn is bounded by its own deadlines; nobody
\* has to call or to cancel.
BatchFairness ==
    /\ \A b \in Batchers : WF_batchVars(WakeUp(b) \/ Submit(b) \/ GiveBack(b))
    /\ \A c \in Callers : WF_batchVars(TurnStarts(c) \/ TurnEnds(c))

BatchSpec == BatchInit /\ [][BatchNext]_batchVars
FairBatchSpec == BatchSpec /\ BatchFairness
-----------------------------------------------------------------------------
BatchTypeOK == /\ GateTypeOK
               /\ TypeOK
               /\ stage \in [Batchers -> {"idle", "acquiring", "queued", "leaving"}]

(* Holding a permit while waiting for the queue, behind a caller that needs *)
(* no permit, never blocks the process: every batch ends.                   *)
EveryBatchEnds == \A b \in Batchers : stage[b] = "acquiring" ~> stage[b] = "idle"
=============================================================================
