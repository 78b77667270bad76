----------------------------- MODULE SessionMutex -----------------------------
(***************************************************************************)
(* jumpserver/mutex.ts: the serial queue in front of each SessionManager.  *)
(* run(fn) links a new gate behind the last one (`tail`), awaits the gate  *)
(* before it, then runs fn and resolves its own gate.  There is no list of *)
(* waiters and no counter: order and exclusion exist only because every    *)
(* gate is resolved exactly once, by the call that created it.             *)
(*                                                                         *)
(* Gates are numbered per manager in the order run() was called; gate 0 is *)
(* the Promise.resolve() the queue starts with.                            *)
(***************************************************************************)
EXTENDS Naturals, FiniteSets

CONSTANTS Managers,  \* one queue each (one per conversation)
          Callers,   \* concurrent operations
          Home,      \* the manager an operation is addressed to
          MaxTurns   \* bound: how many times run() is called on one manager

ASSUME HomeAssumption == Home \in [Callers -> Managers]
ASSUME TurnsAssumption == MaxTurns \in Nat

VARIABLES tail,      \* manager -> number of the last gate
          resolved,  \* manager -> the gates that are resolved
          mine,      \* caller -> the gate its current call created
          pc,        \* caller -> "idle", "queued" (awaits prev) or "running"
          aborted    \* caller -> its AbortSignal

vars == <<tail, resolved, mine, pc, aborted>>

Init == /\ tail = [m \in Managers |-> 0]
        /\ resolved = [m \in Managers |-> {0}]
        /\ mine = [c \in Callers |-> 0]
        /\ pc = [c \in Callers |-> "idle"]
        /\ aborted = [c \in Callers |-> FALSE]

\* const prev = this.tail
Prev(c) == mine[c] - 1

\* release()
Opened(c) == [resolved EXCEPT ![Home[c]] = @ \cup {mine[c]}]

\* run(fn, signal): this.tail = gate.
Enqueue(c) ==
    /\ pc[c] = "idle"
    /\ tail[Home[c]] < MaxTurns
    /\ tail' = [tail EXCEPT ![Home[c]] = @ + 1]
    /\ mine' = [mine EXCEPT ![c] = tail[Home[c]] + 1]
    /\ pc' = [pc EXCEPT ![c] = "queued"]
    /\ aborted' = [aborted EXCEPT ![c] = FALSE]
    /\ UNCHANGED resolved

\* The client cancels its request.
Abort(c) ==
    /\ pc[c] # "idle"
    /\ aborted' = [aborted EXCEPT ![c] = TRUE]
    /\ UNCHANGED <<tail, resolved, mine, pc>>

\* Mutant: the call awaits any earlier gate instead of the one before it.
MutAnyGate(c) == \E g \in resolved[Home[c]] : g < mine[c]

\* await prev
PrevResolved(c) == Prev(c) \in resolved[Home[c]]

\* The queue reaches the call and its fn starts.
Enter(c) ==
    /\ pc[c] = "queued"
    /\ PrevResolved(c)
    /\ ~aborted[c]
    /\ pc' = [pc EXCEPT ![c] = "running"]
    /\ UNCHANGED <<tail, resolved, mine, aborted>>

\* The queue reaches a call whose signal fired while it waited: fn never runs.
Drop(c) ==
    /\ pc[c] = "queued"
    /\ PrevResolved(c)
    /\ aborted[c]
    /\ resolved' = Opened(c)
    /\ pc' = [pc EXCEPT ![c] = "idle"]
    /\ UNCHANGED <<tail, mine, aborted>>

\* fn settles, by returning or by throwing: the finally resolves the gate.
Finish(c) ==
    /\ pc[c] = "running"
    /\ resolved' = Opened(c)
    /\ pc' = [pc EXCEPT ![c] = "idle"]
    /\ UNCHANGED <<tail, mine, aborted>>

Step(c) == Enqueue(c) \/ Abort(c) \/ Enter(c) \/ Drop(c) \/ Finish(c)

Next == \E c \in Callers : Step(c)

\* Continuations run, and every operation of the manager is bounded by a
\* deadline of its own, so fn settles.  Nobody has to call or to abort.
Fairness == \A c \in Callers : WF_vars(Enter(c) \/ Drop(c) \/ Finish(c))

Spec == Init /\ [][Next]_vars
FairSpec == Spec /\ Fairness
-----------------------------------------------------------------------------
TypeOK == /\ tail \in [Managers -> Nat]
          /\ resolved \in [Managers -> SUBSET Nat]
          /\ \A m \in Managers : \A g \in resolved[m] : g <= tail[m]
          /\ mine \in [Callers -> Nat]
          /\ pc \in [Callers -> {"idle", "queued", "running"}]
          /\ aborted \in [Callers -> BOOLEAN]

Running(m) == {c \in Callers : Home[c] = m /\ pc[c] = "running"}

(* Two operations never use the same PTY at once (mutex.ts:1, "connect /   *)
(* enter / exec / leave all run one at a time").                           *)
OneAtATime ==
    \A c, d \in Callers :
        Home[c] = Home[d] /\ pc[c] = "running" /\ pc[d] = "running" => c = d

(* The call that runs was made before every call that still waits, also    *)
(* when calls between them were aborted and dropped.                       *)
FirstComeFirstServed ==
    \A c, d \in Callers :
        Home[c] = Home[d] /\ pc[c] = "running" /\ pc[d] = "queued"
            => mine[c] < mine[d]
=============================================================================
