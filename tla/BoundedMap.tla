------------------------------ MODULE BoundedMap ------------------------------
(***************************************************************************)
(* jumpserver/concurrency.ts, mapWithConcurrency: a fixed set of workers   *)
(* shares one index `next`, each taking the next item until none is left   *)
(* or the signal has fired.  Promise.all waits for all of them, or rejects *)
(* as soon as one throws -- without stopping the others.                   *)
(*                                                                         *)
(* Each action is the code between two awaits: the settling of an item     *)
(* and the taking of the next one are one step.                            *)
(***************************************************************************)
EXTENDS Naturals, FiniteSets

CONSTANTS Items,     \* number of items
          Limit      \* options.concurrency, floored and at least 1

ASSUME ItemsAssumption == Items \in Nat \ {0}
ASSUME LimitAssumption == Limit \in Nat \ {0}

Workers == 1 .. (IF Limit < Items THEN Limit ELSE Items)
Nothing == 0

VARIABLES next,     \* the index of the next item (from 1)
          at,       \* worker -> the item it awaits, or Nothing
          ended,    \* workers whose promise has settled
          results,  \* index -> the item its value was computed from, or Nothing
          settled,  \* how many items have settled
          signal,   \* the AbortSignal has fired
          aborted,  \* some worker saw the signal
          call      \* "running", "resolved", "aborted" or "rejected"

vars == <<next, at, ended, results, settled, signal, aborted, call>>

Indices == 1 .. Items

\* results[index] = await worker(item, index)
Stored(i) == [results EXCEPT ![i] = i]

\* const index = next; next += 1, in one synchronous step.
Claimed(n) == n + 1

\* settled += 1
Counted == settled + 1

\* The workers are started in one synchronous loop: each takes an item, or
\* all of them see a signal that fired before the call.
Init ==
    /\ signal \in BOOLEAN
    /\ aborted = signal
    /\ at = [w \in Workers |-> IF signal THEN Nothing ELSE w]
    /\ next = IF signal THEN 1 ELSE Cardinality(Workers) + 1
    /\ ended = IF signal THEN Workers ELSE {}
    /\ results = [i \in Indices |-> Nothing]
    /\ settled = 0
    /\ call = "running"

\* The client cancels a request that has not been answered; once all workers
\* have ended, the answer follows before any other event.
Fire ==
    /\ ~signal
    /\ call = "running"
    /\ ended # Workers
    /\ signal' = TRUE
    /\ UNCHANGED <<next, at, ended, results, settled, aborted, call>>

\* Mutant: the loop does not look at the signal again.
MutNoCheck == FALSE

\* options.signal?.aborted === true
SignalSeen == signal

\* The top of the for loop: worker w takes the next item, or ends.
LoopTop(w) ==
    /\ aborted' = (aborted \/ SignalSeen)
    /\ next' = IF SignalSeen THEN next ELSE Claimed(next)
    /\ LET takes == ~SignalSeen /\ next <= Items
       IN  /\ at' = [at EXCEPT ![w] = IF takes THEN next ELSE Nothing]
           /\ ended' = IF takes THEN ended ELSE ended \cup {w}

\* Worker w's item resolves: its value is stored, it is counted, onSettled
\* cannot throw, and the loop goes round.
Settle(w) ==
    /\ at[w] # Nothing
    /\ results' = Stored(at[w])
    /\ settled' = Counted
    /\ LoopTop(w)
    /\ UNCHANGED <<signal, call>>

\* Worker w's item throws: its promise rejects, and Promise.all with it.
Throw(w) ==
    /\ at[w] # Nothing
    /\ at' = [at EXCEPT ![w] = Nothing]
    /\ ended' = ended \cup {w}
    /\ call' = IF call = "running" THEN "rejected" ELSE call
    /\ UNCHANGED <<next, results, settled, signal, aborted>>

\* Promise.all(workers): every worker's promise has settled.
AllEnded == ended = Workers

\* if (aborted) throw new AbortRequestedError(); return results
Outcome == IF aborted THEN "aborted" ELSE "resolved"

\* Promise.all(workers) resolves.
AllDone ==
    /\ AllEnded
    /\ call = "running"
    /\ call' = Outcome
    /\ UNCHANGED <<next, at, ended, results, settled, signal, aborted>>

Next == \/ Fire \/ AllDone
        \/ \E w \in Workers : Settle(w) \/ Throw(w)

-----------------------------------------------------------------------------
TypeOK == /\ next \in 1 .. Items + Limit + 1
          /\ at \in [Workers -> Indices \cup {Nothing}]
          /\ ended \subseteq Workers
          /\ results \in [Indices -> Indices \cup {Nothing}]
          /\ settled \in 0 .. Items
          /\ signal \in BOOLEAN
          /\ aborted \in BOOLEAN
          /\ call \in {"running", "resolved", "aborted", "rejected"}

\* No worker takes a new item.
TakesNothing == \A w \in Workers : at'[w] \in {at[w], Nothing}

(* Once the signal has fired no further target is entered, although each    *)
(* worker learns of it on its own (concurrency.ts:12, "the whole run aborts *)
(* promptly").  Not so of a call rejected for another reason, such as a     *)
(* denied target: its other workers go on.                                  *)
NothingTakenAfterCancel == [][signal => TakesNothing]_vars
=============================================================================
