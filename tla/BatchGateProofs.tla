--------------------------- MODULE BatchGateProofs ---------------------------
(***************************************************************************)
(* For any number of managers, callers, permits and turns: the gate        *)
(* conserves its permits, serves nobody past a waiter and implements       *)
(* PermitPool; the promise chain gives mutual exclusion and                *)
(* first-come-first-served order.                                          *)
(*                                                                         *)
(* Conservation alone is not inductive: a release must know that the head  *)
(* of the queue really is a waiting caller, and permits are only countable *)
(* when the set of grants is finite.  GateInv adds both.                   *)
(*                                                                         *)
(* Exclusion does not follow from the state of two callers alone.  The     *)
(* chain works because the resolved gates form a prefix of the gates       *)
(* (PrefixResolved) and because an unfinished call owns a gate of its own  *)
(* that is not resolved (OwnGate).                                         *)
(*                                                                         *)
(* Batches, which ask the process-wide gate before they queue, are a       *)
(* behaviour of both parts (BatchQueues, BatchAsksGate), so what is proved *)
(* of the parts holds of the whole.  That no more batches run than there   *)
(* are permits is a fact of neither: a batch with a turn is one whose      *)
(* permit is held (PermitInHand), which a release by another batch keeps   *)
(* because it hands its permit to somebody who waits.                      *)
(***************************************************************************)
EXTENDS BatchGate, FiniteSetTheorems, TLAPS

(* The gate.                                                               *)

GateInv == /\ GateTypeOK
           /\ IsFiniteSet(Granted)
           /\ PermitsConserved
           /\ NoBarging
           /\ QueueIsWaiting

(* The next five lemmas say what each step does to the set of grants.      *)

(* A caller that takes the short path joins the grants.                    *)
LEMMA AcquireNowGrants ==
    ASSUME GateTypeOK, NEW p \in Batchers, AcquireNow(p)
    PROVE  Granted' = Granted \cup {p} /\ p \notin Granted
BY DEF GateTypeOK, AcquireNow, Granted, GateStates

(* A caller that starts to wait changes no grant.                          *)
LEMMA AcquireWaitGrants ==
    ASSUME GateTypeOK, NEW p \in Batchers, AcquireWait(p)
    PROVE  Granted' = Granted
BY DEF GateTypeOK, AcquireWait, Granted, GateStates

(* A woken caller was already granted its permit.                          *)
LEMMA ResumeGrants ==
    ASSUME GateTypeOK, NEW p \in Batchers, Resume(p)
    PROVE  Granted' = Granted
BY DEF GateTypeOK, Resume, Granted, GateStates

(* With nobody waiting, a release takes the caller out of the grants.      *)
LEMMA ReleaseFrees ==
    ASSUME GateTypeOK, NEW p \in Batchers, Release(p), waiters = <<>>
    PROVE  Granted' = Granted \ {p} /\ p \in Granted
BY DEF GateTypeOK, Release, ReleaseGuard, Handed, Granted, GateStates

(* With a waiter q at the head of the queue, it takes the place of p.      *)
LEMMA ReleaseHandsOver ==
    ASSUME GateTypeOK, QueueIsWaiting, NEW p \in Batchers, Release(p), waiters # <<>>
    PROVE  /\ Head(waiters) \in Batchers
           /\ Head(waiters) \notin Granted
           /\ p \in Granted
           /\ Granted' = (Granted \ {p}) \cup {Head(waiters)}
  <1> DEFINE q == Head(waiters)
  <1>1. q = waiters[1] /\ 1 \in DOMAIN waiters /\ q \in Batchers
    BY DEF GateTypeOK
  <1>2. gatePc[q] = "waiting"
    BY <1>1 DEF QueueIsWaiting, Waiting
  <1>3. gatePc[p] = "holding" /\ q # p
    BY <1>2 DEF Release, ReleaseGuard
  <1>4. gatePc' = [gatePc EXCEPT ![p] = "released", ![q] = "woken"]
    BY DEF Release, Handed
  <1>5. QED
    BY <1>1, <1>2, <1>3, <1>4 DEF GateTypeOK, Granted, GateStates

(* The initial pool is full and nobody waits.                              *)
LEMMA GateInitInv == GateInit => GateInv
  <1> SUFFICES ASSUME GateInit PROVE GateInv
    OBVIOUS
  <1>1. Granted = {} /\ Waiting = {}
    BY DEF GateInit, Granted, Waiting
  <1>2. Cardinality(Granted) = 0 /\ IsFiniteSet(Granted)
    BY <1>1, FS_EmptySet
  <1>3. GateTypeOK
    BY MaxSessionsAssumption DEF GateInit, GateTypeOK, GateStates
  <1>4. QueueIsWaiting
    BY <1>1 DEF GateInit, QueueIsWaiting
  <1>5. QED
    BY <1>2, <1>3, <1>4, MaxSessionsAssumption
       DEF GateInit, GateInv, PermitsConserved, NoBarging

(* The short path of acquire().                                            *)
LEMMA GateAcquireNowKeeps ==
    ASSUME GateInv, NEW p \in Batchers, AcquireNow(p)
    PROVE  GateInv'
  <1> USE DEF GateInv
  <1>1. Granted' = Granted \cup {p} /\ p \notin Granted
    BY AcquireNowGrants
  <1>2. IsFiniteSet(Granted') /\ Cardinality(Granted') = Cardinality(Granted) + 1
    BY <1>1, FS_AddElement
  <1>3. Cardinality(Granted) \in Nat
    BY FS_CardinalityType
  <1>4. GateTypeOK'
    BY MaxSessionsAssumption DEF AcquireNow, GateTypeOK, GateStates
  <1>5. PermitsConserved'
    BY <1>2, <1>3, MaxSessionsAssumption DEF AcquireNow, GateTypeOK, PermitsConserved
  <1>6. waiters = <<>>
    BY DEF NoBarging, AcquireNow, GateTypeOK
  <1>7. Waiting' = Waiting
    BY DEF AcquireNow, Waiting, GateTypeOK, GateStates
  <1>8. QueueIsWaiting' /\ NoBarging'
    BY <1>6, <1>7 DEF QueueIsWaiting, NoBarging, AcquireNow
  <1>9. QED
    BY <1>2, <1>4, <1>5, <1>8

(* The path of acquire() that waits.                                       *)
LEMMA AcquireWaitKeeps ==
    ASSUME GateInv, NEW p \in Batchers, AcquireWait(p)
    PROVE  GateInv'
  <1> USE DEF GateInv
  <1> DEFINE n == Len(waiters)
  <1>1. Granted' = Granted
    BY AcquireWaitGrants
  <1>2. /\ waiters \in Seq(Batchers) /\ n \in Nat
        /\ waiters' = Append(waiters, p)
        /\ gatePc' = [gatePc EXCEPT ![p] = "waiting"]
        /\ available' = available /\ available = 0
    BY DEF AcquireWait, Enqueued, GateTypeOK
  <1>3. /\ DOMAIN waiters' = 1 .. (n + 1)
        /\ waiters'[n + 1] = p
        /\ \A i \in 1 .. n : waiters'[i] = waiters[i]
    BY <1>2
  <1>4. p \notin Waiting /\ Waiting' = Waiting \cup {p}
    BY <1>2 DEF Waiting, GateTypeOK, GateStates, AcquireWait
  <1>5. GateTypeOK'
    BY <1>2 DEF GateTypeOK, GateStates
  <1>6. QueueIsWaiting'
    <2>1. DOMAIN waiters = 1 .. n
      BY <1>2
    <2>2. \A i \in 1 .. n : waiters[i] # p
      BY <1>4, <2>1 DEF QueueIsWaiting
    <2>3. {waiters'[i] : i \in DOMAIN waiters'} = Waiting'
      BY <1>2, <1>3, <1>4, <2>1 DEF QueueIsWaiting
    <2>4. \A i, j \in DOMAIN waiters' : waiters'[i] = waiters'[j] => i = j
      <3> SUFFICES ASSUME NEW i \in 1 .. (n + 1), NEW j \in 1 .. (n + 1),
                          waiters'[i] = waiters'[j]
                   PROVE  i = j
        BY <1>3
      <3>1. CASE i \in 1 .. n /\ j \in 1 .. n
        BY <3>1, <1>3, <2>1 DEF QueueIsWaiting
      <3>2. CASE i = n + 1 \/ j = n + 1
        BY <3>2, <1>2, <1>3, <2>2
      <3>3. QED
        BY <3>1, <3>2, <1>2
    <2>5. QED
      BY <2>3, <2>4 DEF QueueIsWaiting
  <1>7. PermitsConserved' /\ NoBarging'
    BY <1>1, <1>2 DEF PermitsConserved, NoBarging
  <1>8. QED
    BY <1>1, <1>5, <1>6, <1>7

(* The continuation of a woken caller.                                     *)
LEMMA ResumeKeeps ==
    ASSUME GateInv, NEW p \in Batchers, Resume(p)
    PROVE  GateInv'
  <1> USE DEF GateInv
  <1>1. Granted' = Granted
    BY ResumeGrants
  <1>2. Waiting' = Waiting
    BY DEF Resume, Waiting, GateTypeOK, GateStates
  <1>3. GateTypeOK'
    BY DEF Resume, GateTypeOK, GateStates
  <1>4. QED
    BY <1>1, <1>2, <1>3
       DEF Resume, PermitsConserved, NoBarging, QueueIsWaiting

(* The releaser, with nobody and with somebody in the queue.               *)
LEMMA ReleaseKeeps ==
    ASSUME GateInv, NEW p \in Batchers, Release(p)
    PROVE  GateInv'
  <1> USE DEF GateInv
  <1>1. CASE waiters = <<>>
    <2>1. Granted' = Granted \ {p} /\ p \in Granted
      BY <1>1, ReleaseFrees
    <2>2. /\ IsFiniteSet(Granted')
          /\ Cardinality(Granted') = Cardinality(Granted) - 1
      BY <2>1, FS_RemoveElement
    <2>3. Cardinality(Granted) \in Nat /\ Cardinality(Granted') \in Nat
      BY <2>2, FS_CardinalityType
    <2>4. waiters' = <<>> /\ available' = available + 1
      BY <1>1 DEF Release, Shifted, Freed
    <2>5. PermitsConserved' /\ available' \in 0 .. MaxSessions
      BY <2>2, <2>3, <2>4, MaxSessionsAssumption DEF PermitsConserved, GateTypeOK
    <2>6. gatePc' = [gatePc EXCEPT ![p] = "released"] /\ gatePc[p] = "holding"
      BY <1>1 DEF Release, ReleaseGuard, Handed
    <2>7. Waiting' = Waiting
      BY <2>6 DEF Waiting, GateTypeOK, GateStates
    <2>8. GateTypeOK'
      BY <2>4, <2>5, <2>6 DEF GateTypeOK, GateStates
    <2>9. QueueIsWaiting' /\ NoBarging'
      BY <1>1, <2>4, <2>7 DEF QueueIsWaiting, NoBarging
    <2>10. QED
      BY <2>2, <2>5, <2>8, <2>9
  <1>2. CASE waiters # <<>>
    <2> DEFINE q == Head(waiters)
               n == Len(waiters)
    <2>1. /\ q \in Batchers /\ q \notin Granted /\ p \in Granted
          /\ Granted' = (Granted \ {p}) \cup {q}
      BY <1>2, ReleaseHandsOver
    <2>2. /\ IsFiniteSet(Granted \ {p})
          /\ Cardinality(Granted \ {p}) = Cardinality(Granted) - 1
      BY <2>1, FS_RemoveElement
    <2>3. /\ IsFiniteSet(Granted')
          /\ Cardinality(Granted') = Cardinality(Granted \ {p}) + 1
      BY <2>1, <2>2, FS_AddElement
    <2>4. Cardinality(Granted') = Cardinality(Granted)
      BY <2>2, <2>3, FS_CardinalityType
    <2>5. /\ waiters \in Seq(Batchers) /\ n \in Nat \ {0} /\ q = waiters[1]
          /\ waiters' = Tail(waiters) /\ available' = available
          /\ gatePc' = [gatePc EXCEPT ![p] = "released", ![q] = "woken"]
      BY <1>2 DEF Release, Handed, Shifted, Freed, GateTypeOK
    <2>6. /\ DOMAIN waiters = 1 .. n /\ DOMAIN waiters' = 1 .. (n - 1)
          /\ \A i \in 1 .. (n - 1) : waiters'[i] = waiters[i + 1]
          /\ waiters' \in Seq(Batchers)
      BY <2>5
    <2>7. GateTypeOK'
      BY <2>1, <2>5, <2>6 DEF GateTypeOK, GateStates
    <2>8. Waiting' = Waiting \ {q}
      BY <2>1, <2>5 DEF Waiting, Granted, GateTypeOK, GateStates
    <2>9. \A i \in 1 .. n : i # 1 => waiters[i] # q
      BY <2>5, <2>6 DEF QueueIsWaiting
    <2>10. {waiters'[i] : i \in DOMAIN waiters'} = Waiting'
      <3>1. \A i \in DOMAIN waiters' : waiters'[i] \in Waiting'
        BY <2>5, <2>6, <2>8, <2>9 DEF QueueIsWaiting
      <3>2. ASSUME NEW w \in Waiting'
            PROVE  \E i \in DOMAIN waiters' : waiters'[i] = w
        <4>1. PICK k \in 1 .. n : waiters[k] = w
          BY <3>2, <2>6, <2>8 DEF QueueIsWaiting
        <4>2. k # 1
          BY <3>2, <4>1, <2>5, <2>8
        <4>3. k - 1 \in 1 .. (n - 1) /\ (k - 1) + 1 = k
          BY <4>1, <4>2, <2>5
        <4>4. waiters'[k - 1] = w
          BY <4>1, <4>3, <2>6
        <4>5. QED
          BY <4>3, <4>4, <2>6
      <3>3. QED
        BY <3>1, <3>2
    <2>11. \A i, j \in DOMAIN waiters' : waiters'[i] = waiters'[j] => i = j
      <3> SUFFICES ASSUME NEW i \in 1 .. (n - 1), NEW j \in 1 .. (n - 1),
                          waiters'[i] = waiters'[j]
                   PROVE  i = j
        BY <2>6
      <3>1. i + 1 \in 1 .. n /\ j + 1 \in 1 .. n /\ waiters[i + 1] = waiters[j + 1]
        BY <2>5, <2>6
      <3>2. QED
        BY <3>1, <2>6 DEF QueueIsWaiting
    <2>12. QueueIsWaiting'
      BY <2>10, <2>11 DEF QueueIsWaiting
    <2>13. NoBarging' /\ PermitsConserved'
      BY <1>2, <2>4, <2>5 DEF NoBarging, PermitsConserved
    <2>14. QED
      BY <2>3, <2>7, <2>12, <2>13
  <1>3. QED
    BY <1>1, <1>2

(* Every step, and every stutter, keeps the inductive invariant.           *)
LEMMA GateNextKeeps == GateInv /\ [GateNext]_gateVars => GateInv'
  <1> SUFFICES ASSUME GateInv, [GateNext]_gateVars PROVE GateInv'
    OBVIOUS
  <1>1. ASSUME NEW p \in Batchers, GateStep(p) PROVE GateInv'
    BY <1>1, GateAcquireNowKeeps, AcquireWaitKeeps, ResumeKeeps, ReleaseKeeps DEF GateStep
  <1>2. CASE UNCHANGED gateVars
    BY <1>2 DEF gateVars, GateInv, GateTypeOK, Granted, Waiting, PermitsConserved,
                NoBarging, QueueIsWaiting
  <1>3. QED
    BY <1>1, <1>2 DEF GateNext

(* The inductive invariant holds of every behaviour of the gate.           *)
LEMMA GateInvariance == GateSpec => []GateInv
  <1>1. QED
    BY GateInitInv, GateNextKeeps, PTL DEF GateSpec, gateVars

(* Type correctness of the gate.                                           *)
THEOREM GateTypeCorrect == GateSpec => []GateTypeOK
  <1>1. GateInv => GateTypeOK
    BY DEF GateInv
  <1>2. QED
    BY <1>1, GateInvariance, PTL

(* No permit is lost or created, for any number of callers and permits.    *)
THEOREM Conservation == GateSpec => []PermitsConserved
  <1>1. GateInv => PermitsConserved
    BY DEF GateInv
  <1>2. QED
    BY <1>1, GateInvariance, PTL

(* No permit is free while somebody waits.                                 *)
THEOREM Fifo == GateSpec => [](NoBarging /\ QueueIsWaiting)
  <1>1. GateInv => NoBarging /\ QueueIsWaiting
    BY DEF GateInv
  <1>2. QED
    BY <1>1, GateInvariance, PTL

(* Every step of the gate is a step, or a stutter, of the permit pool.     *)
LEMMA StepImplementsPool ==
    ASSUME GateInv, [GateNext]_gateVars
    PROVE  [Pool!Next]_Granted
  <1> USE DEF GateInv
  <1>1. ASSUME NEW p \in Batchers, AcquireNow(p) PROVE Pool!Take(p)
    <2>1. Granted' = Granted \cup {p} /\ p \notin Granted
      BY <1>1, AcquireNowGrants
    <2>2. Cardinality(Granted) < MaxSessions
      BY <1>1, MaxSessionsAssumption, FS_CardinalityType
         DEF AcquireNow, PermitsConserved, GateTypeOK
    <2>3. QED
      BY <2>1, <2>2 DEF Pool!Take, Pool!Cardinality, Pool!IsFiniteSet,
                        Cardinality, IsFiniteSet
  <1>2. ASSUME NEW p \in Batchers, Release(p)
        PROVE  Pool!Give(p) \/ \E q \in Batchers : Pool!HandOver(p, q)
    BY <1>2, ReleaseFrees, ReleaseHandsOver DEF Pool!Give, Pool!HandOver
  <1>3. ASSUME NEW p \in Batchers, AcquireWait(p) \/ Resume(p)
        PROVE  Granted' = Granted
    BY <1>3, AcquireWaitGrants, ResumeGrants
  <1>4. CASE UNCHANGED gateVars
    BY <1>4 DEF gateVars, Granted
  <1>5. QED
    BY <1>1, <1>2, <1>3, <1>4 DEF GateNext, GateStep, Pool!Next

(* The gate implements the permit pool: acquire and the releaser, whatever *)
(* their interleaving, only ever take, give back or hand over one permit.  *)
THEOREM ImplementsPool == GateSpec => PoolSpec
  <1>1. GateInit => Pool!Init
    BY DEF GateInit, Pool!Init, Granted
  <1>2. GateInv /\ [GateNext]_gateVars => [Pool!Next]_Granted
    BY StepImplementsPool
  <1>3. QED
    BY <1>1, <1>2, GateInvariance, PTL
       DEF GateSpec, gateVars, PoolSpec, Pool!Spec
-----------------------------------------------------------------------------
(* The queue.                                                              *)

\* A gate is resolved only after every gate before it.
PrefixResolved ==
    \A m \in Managers : \A g \in resolved[m] : \A h \in Nat :
        h <= g => h \in resolved[m]

\* An unfinished call has a gate that exists, is not resolved and is its own.
OwnGate ==
    \A c \in Callers : pc[c] # "idle" =>
        /\ mine[c] \in 1 .. tail[Home[c]]
        /\ mine[c] \notin resolved[Home[c]]
        /\ \A d \in Callers :
               d # c /\ pc[d] # "idle" /\ Home[d] = Home[c] => mine[d] # mine[c]

\* A running call was let in by the gate before its own.
LetIn == \A c \in Callers : pc[c] = "running" => PrevResolved(c)

IInv == TypeOK /\ PrefixResolved /\ OwnGate /\ LetIn

(* The queue starts empty, with gate 0 resolved.                           *)
LEMMA InitIInv == Init => IInv
BY HomeAssumption
   DEF Init, IInv, TypeOK, PrefixResolved, OwnGate, LetIn

(* A new call creates a gate beyond every other.                           *)
LEMMA EnqueueKeeps ==
    ASSUME IInv, NEW c \in Callers, Enqueue(c)
    PROVE  IInv'
  <1> USE HomeAssumption DEF IInv
  <1> DEFINE m == Home[c]
             n == tail[m] + 1
  <1>0. m \in Managers /\ tail[m] \in Nat /\ n \in Nat /\ n = tail[m] + 1
    BY DEF TypeOK
  <1>1. TypeOK'
    <2>1. tail' \in [Managers -> Nat] /\ mine' \in [Callers -> Nat]
      BY <1>0 DEF TypeOK, Enqueue
    <2>2. \A k \in Managers : \A g \in resolved'[k] : g <= tail'[k]
      BY <1>0 DEF TypeOK, Enqueue
    <2>3. QED
      BY <2>1, <2>2 DEF TypeOK, Enqueue
  <1>2. PrefixResolved'
    BY DEF TypeOK, Enqueue, PrefixResolved
  <1>3. OwnGate'
    <2>1. /\ tail'[m] = n /\ mine'[c] = n
          /\ \A d \in Callers \ {c} : mine'[d] = mine[d] /\ pc'[d] = pc[d]
          /\ \A h \in Managers \ {m} : tail'[h] = tail[h]
          /\ resolved' = resolved
      BY <1>0 DEF TypeOK, Enqueue
    <2>2. n \notin resolved[m] /\ n \in 1 .. n
      BY <1>0 DEF TypeOK
    <2>3. \A d \in Callers \ {c} : pc[d] # "idle" =>
             /\ mine[d] \in 1 .. tail[Home[d]]
             /\ mine[d] \notin resolved[Home[d]]
             /\ Home[d] = m => mine[d] # n
      BY <1>0 DEF OwnGate
    <2>4. \A d \in Callers \ {c} : pc[d] # "idle" =>
             mine[d] \in 1 .. tail'[Home[d]]
      <3> SUFFICES ASSUME NEW d \in Callers \ {c}, pc[d] # "idle"
                   PROVE  mine[d] \in 1 .. tail'[Home[d]]
        OBVIOUS
      <3>1. CASE Home[d] = m
        BY <3>1, <2>1, <2>3, <1>0
      <3>2. CASE Home[d] # m
        BY <3>2, <2>1, <2>3
      <3>3. QED
        BY <3>1, <3>2
    <2>5. QED
      BY <2>1, <2>2, <2>3, <2>4 DEF OwnGate
  <1>4. LetIn'
    BY DEF TypeOK, Enqueue, LetIn, PrevResolved, Prev
  <1>5. QED
    BY <1>1, <1>2, <1>3, <1>4

(* An abort touches no gate.                                               *)
LEMMA AbortKeeps ==
    ASSUME IInv, NEW c \in Callers, Abort(c)
    PROVE  IInv'
BY DEF IInv, TypeOK, Abort, PrefixResolved, OwnGate, LetIn,
       PrevResolved, Prev

(* A call is let in by the gate before its own.                            *)
LEMMA EnterKeeps ==
    ASSUME IInv, NEW c \in Callers, Enter(c)
    PROVE  IInv'
BY DEF IInv, TypeOK, Enter, PrefixResolved, OwnGate, LetIn,
       PrevResolved, Prev

(* A call that ends, dropped or done, resolves the next gate of the prefix.*)
LEMMA OpenKeeps ==
    ASSUME IInv, NEW c \in Callers,
           pc[c] \in {"queued", "running"}, PrevResolved(c),
           resolved' = Opened(c),
           pc' = [pc EXCEPT ![c] = "idle"],
           UNCHANGED <<tail, mine, aborted>>
    PROVE  IInv'
  <1> USE HomeAssumption DEF IInv
  <1>1. mine[c] \in Nat /\ mine[c] >= 1 /\ mine[c] <= tail[Home[c]]
    BY DEF OwnGate, TypeOK
  <1>2. TypeOK'
    BY <1>1 DEF TypeOK, Opened
  <1>3. PrefixResolved'
    <2> SUFFICES ASSUME NEW m \in Managers, NEW g \in resolved'[m],
                        NEW h \in Nat, h <= g
                 PROVE  h \in resolved'[m]
      BY DEF PrefixResolved
    <2>1. CASE m = Home[c] /\ g = mine[c]
      <3>1. h = mine[c] \/ h <= mine[c] - 1
        BY <2>1, <1>1
      <3>2. QED
        BY <2>1, <3>1, <1>1
           DEF PrefixResolved, PrevResolved, Prev, Opened, TypeOK
    <2>2. CASE ~(m = Home[c] /\ g = mine[c])
      <3>1. g \in resolved[m]
        BY <2>2 DEF Opened, TypeOK
      <3>2. h \in resolved[m]
        BY <3>1 DEF PrefixResolved
      <3>3. QED
        BY <3>2 DEF Opened, TypeOK
    <2>3. QED
      BY <2>1, <2>2
  <1>5. OwnGate'
    BY DEF OwnGate, Opened, TypeOK
  <1>6. LetIn'
    BY DEF LetIn, PrevResolved, Prev, Opened, TypeOK
  <1>7. QED
    BY <1>2, <1>3, <1>5, <1>6

(* Every step, and every stutter, keeps the inductive invariant.           *)
LEMMA NextKeeps == IInv /\ [Next]_vars => IInv'
  <1> SUFFICES ASSUME IInv, [Next]_vars PROVE IInv'
    OBVIOUS
  <1>1. ASSUME NEW c \in Callers, Drop(c) PROVE IInv'
    BY <1>1, OpenKeeps DEF Drop
  <1>2. ASSUME NEW c \in Callers, Finish(c) PROVE IInv'
    <2>1. PrevResolved(c)
      BY <1>2 DEF Finish, IInv, LetIn
    <2>2. QED
      BY <1>2, <2>1, OpenKeeps DEF Finish
  <1>3. CASE UNCHANGED vars
    BY <1>3 DEF vars, IInv, TypeOK, PrefixResolved, OwnGate,
                LetIn, PrevResolved, Prev
  <1>4. QED
    BY <1>1, <1>2, <1>3, EnqueueKeeps, AbortKeeps, EnterKeeps DEF Next, Step

(* The inductive invariant holds of every behaviour of the queue.          *)
LEMMA Invariance == Spec => []IInv
  <1>1. QED
    BY InitIInv, NextKeeps, PTL DEF Spec

(* A call that runs has the smallest gate of the unfinished calls.         *)
LEMMA RunnerIsFirst ==
    ASSUME IInv, NEW c \in Callers, NEW d \in Callers, c # d,
           Home[c] = Home[d], pc[c] = "running", pc[d] # "idle"
    PROVE  mine[c] < mine[d]
  <1> USE HomeAssumption DEF IInv
  <1>1. /\ mine[c] \in Nat /\ mine[d] \in Nat
        /\ mine[c] >= 1 /\ mine[d] >= 1
        /\ mine[d] \notin resolved[Home[c]] /\ mine[c] # mine[d]
    BY DEF OwnGate, TypeOK
  <1>2. mine[c] - 1 \in resolved[Home[c]] /\ Home[c] \in Managers
    BY DEF LetIn, PrevResolved, Prev
  <1>3. ~(mine[d] <= mine[c] - 1)
    BY <1>1, <1>2 DEF PrefixResolved
  <1>4. QED
    BY <1>1, <1>3

(* Type correctness of the queue.                                          *)
THEOREM TypeCorrect == Spec => []TypeOK
  <1>1. IInv => TypeOK
    BY DEF IInv
  <1>2. QED
    BY <1>1, Invariance, PTL

(* At most one operation of a manager runs at a time.                      *)
THEOREM MutualExclusion == Spec => []OneAtATime
  <1>1. IInv => OneAtATime
    <2> SUFFICES ASSUME IInv, NEW c \in Callers, NEW d \in Callers,
                        Home[c] = Home[d], pc[c] = "running",
                        pc[d] = "running", c # d
                 PROVE  FALSE
      BY DEF OneAtATime
    <2>1. mine[c] < mine[d] /\ mine[d] < mine[c]
      BY RunnerIsFirst
    <2>2. mine[c] \in Nat /\ mine[d] \in Nat
      BY DEF IInv, TypeOK
    <2>3. QED
      BY <2>1, <2>2
  <1>2. QED
    BY <1>1, Invariance, PTL

(* Operations run in the order they were asked for.                        *)
THEOREM Order == Spec => []FirstComeFirstServed
  <1>1. IInv => FirstComeFirstServed
    BY RunnerIsFirst DEF FirstComeFirstServed
  <1>2. QED
    BY <1>1, Invariance, PTL
-----------------------------------------------------------------------------
(* The batches and the calls beside them.                                  *)

(* A batch in the queue, or with a turn, or on its way out, has its permit, *)
(* and only a batch that was queued has a turn.                            *)
PermitInHand ==
    /\ stage \in [Batchers -> {"idle", "acquiring", "queued", "leaving"}]
    /\ \A b \in Batchers : stage[b] \in {"queued", "leaving"} => HasPermit(b)
    /\ \A b \in Batchers : pc[b] # "idle" => stage[b] = "queued"

(* Whatever happens to a batch is a step of the queue, or none.            *)
LEMMA BatchStepQueues == [BatchNext]_batchVars => [Next]_vars
  <1> SUFFICES ASSUME [BatchNext]_batchVars PROVE [Next]_vars
    OBVIOUS
  <1>1. ASSUME NEW b \in Batchers, BatchStep(b) PROVE [Next]_vars
    <2>1. b \in Callers
      BY BatchersAssumption
    <2>2. QED
      BY <1>1, <2>1 DEF BatchStep, Ask, WakeUp, Submit, GiveBack, Next, Step
  <1>2. ASSUME NEW c \in Callers, TurnStep(c) PROVE [Next]_vars
    BY <1>2 DEF TurnStep, PlainCall, TurnStarts, TurnEnds, Cancel, Next, Step
  <1>3. CASE UNCHANGED batchVars
    BY <1>3 DEF batchVars
  <1>4. QED
    BY <1>1, <1>2, <1>3 DEF BatchNext

(* It is a step of the gate, or none.                                      *)
LEMMA BatchStepAsksGate == [BatchNext]_batchVars => [GateNext]_gateVars
  <1> SUFFICES ASSUME [BatchNext]_batchVars PROVE [GateNext]_gateVars
    OBVIOUS
  <1>1. ASSUME NEW b \in Batchers, BatchStep(b) PROVE [GateNext]_gateVars
    BY <1>1 DEF BatchStep, Ask, WakeUp, Submit, GiveBack, GateStep, GateNext
  <1>2. ASSUME NEW c \in Callers, TurnStep(c) PROVE UNCHANGED gateVars
    BY <1>2 DEF TurnStep, PlainCall, TurnStarts, TurnEnds, Cancel
  <1>3. CASE UNCHANGED batchVars
    BY <1>3 DEF batchVars
  <1>4. QED
    BY <1>1, <1>2, <1>3 DEF BatchNext

(* What batches and plain calls do to the queues is a behaviour of the     *)
(* queues.                                                                 *)
THEOREM BatchQueues == BatchSpec => Spec
  <1>1. BatchInit => Init
    BY DEF BatchInit
  <1>2. QED
    BY <1>1, BatchStepQueues, PTL DEF BatchSpec, Spec

(* What batches do to the gate is a behaviour of the gate, so all that is   *)
(* known of the gate is known of it here.                                  *)
THEOREM BatchAsksGate == BatchSpec => GateSpec
  <1>1. BatchInit => GateInit
    BY DEF BatchInit
  <1>2. QED
    BY <1>1, BatchStepAsksGate, PTL DEF BatchSpec, GateSpec, gateVars

(* With queues and turns around it, the gate is still the permit pool, and *)
(* nobody is served past a batch that waits.                               *)
THEOREM BatchesUsePool ==
    BatchSpec => PoolSpec /\ [](NoBarging /\ QueueIsWaiting)
BY BatchAsksGate, ImplementsPool, Fifo, PTL

(* A release of one batch leaves the others' permits in their hands: who    *)
(* is handed a permit was waiting for one.                                 *)
LEMMA OthersKeepPermits ==
    ASSUME GateInv, NEW b \in Batchers, NEW d \in Batchers, d # b,
           \/ AcquireNow(b) \/ AcquireWait(b) \/ Resume(b) \/ Release(b),
           HasPermit(d)
    PROVE  HasPermit(d)'
  <1>1. gatePc \in [Batchers -> GateStates] /\ waiters \in Seq(Batchers)
    BY DEF GateInv, GateTypeOK
  <1>2. CASE Release(b) /\ waiters # <<>>
    <2>1. Head(waiters) = waiters[1] /\ 1 \in DOMAIN waiters
      BY <1>1, <1>2
    <2>2. Head(waiters) \in Batchers /\ gatePc[Head(waiters)] = "waiting"
      BY <1>1, <2>1 DEF GateInv, QueueIsWaiting, Waiting
    <2>3. Head(waiters) # d
      BY <2>2 DEF HasPermit
    <2>4. gatePc' = [gatePc EXCEPT ![b] = "released", ![Head(waiters)] = "woken"]
      BY <1>2 DEF Release, Handed
    <2>5. QED
      BY <1>1, <2>3, <2>4 DEF HasPermit
  <1>3. CASE ~(Release(b) /\ waiters # <<>>)
    BY <1>1, <1>3
       DEF AcquireNow, AcquireWait, Resume, Release, Handed, HasPermit
  <1>4. QED
    BY <1>2, <1>3

(* Every step of a batch, and of the calls beside it, keeps PermitInHand.   *)
LEMMA PermitStaysInHand ==
    ASSUME IInv, GateInv, PermitInHand, [BatchNext]_batchVars
    PROVE  PermitInHand'
  <1> USE DEF PermitInHand
  <1>1. /\ pc \in [Callers -> {"idle", "queued", "running"}]
        /\ gatePc \in [Batchers -> GateStates]
    BY DEF IInv, TypeOK, GateInv, GateTypeOK
  <1>2. ASSUME NEW b \in Batchers, Ask(b) PROVE PermitInHand'
    BY <1>1, <1>2, OthersKeepPermits DEF Ask, vars
  <1>3. ASSUME NEW b \in Batchers, WakeUp(b) PROVE PermitInHand'
    <2>1. HasPermit(b)'
      BY <1>1, <1>3 DEF WakeUp, Resume, HasPermit
    <2>2. QED
      BY <1>1, <1>3, <2>1, OthersKeepPermits DEF WakeUp, vars
  <1>4. ASSUME NEW b \in Batchers, Submit(b) PROVE PermitInHand'
    BY <1>1, <1>4, BatchersAssumption DEF Submit, Enqueue, gateVars, HasPermit
  <1>5. ASSUME NEW b \in Batchers, GiveBack(b) PROVE PermitInHand'
    BY <1>1, <1>5, OthersKeepPermits DEF GiveBack, vars
  <1>6. ASSUME NEW c \in Callers, PlainCall(c) PROVE PermitInHand'
    BY <1>1, <1>6, BatchersAssumption DEF PlainCall, Enqueue, gateVars, HasPermit
  <1>7. ASSUME NEW c \in Callers, TurnStarts(c) \/ Cancel(c) PROVE PermitInHand'
    BY <1>1, <1>7, BatchersAssumption
       DEF TurnStarts, Cancel, Enter, Abort, gateVars, HasPermit
  <1>8. ASSUME NEW c \in Callers, TurnEnds(c) PROVE PermitInHand'
    <2>1. /\ pc[c] # "idle" /\ pc' = [pc EXCEPT ![c] = "idle"] /\ gatePc' = gatePc
          /\ stage' = IF c \in Batchers THEN [stage EXCEPT ![c] = "leaving"] ELSE stage
      BY <1>1, <1>8 DEF TurnEnds, Finish, Drop, Leaving, gateVars
    <2>2. QED
      BY <1>1, <2>1, BatchersAssumption DEF HasPermit
  <1>9. CASE UNCHANGED batchVars
    BY <1>9 DEF batchVars, gateVars, vars, HasPermit
  <1>10. QED
    BY <1>2, <1>3, <1>4, <1>5, <1>6, <1>7, <1>8, <1>9
       DEF BatchNext, BatchStep, TurnStep

(* Whoever has a permit in hand counts against the size of the gate.       *)
LEMMA NoMoreThanPermits ==
    ASSUME GateInv, PermitInHand
    PROVE  Cardinality({b \in Batchers : pc[b] = "running"}) <= MaxSessions
  <1> DEFINE turns == {b \in Batchers : pc[b] = "running"}
             granted == Granted
  <1>1. turns \subseteq granted
    BY DEF PermitInHand, HasPermit, Granted
  <1>2. IsFiniteSet(granted) /\ available + Cardinality(granted) = MaxSessions /\ available \in Nat
    BY MaxSessionsAssumption
       DEF GateInv, PermitsConserved, GateTypeOK
  <1> HIDE DEF turns, granted
  <1>3. Cardinality(turns) <= Cardinality(granted) /\ IsFiniteSet(turns)
    BY <1>1, <1>2, FS_Subset
  <1>4. Cardinality(turns) \in Nat /\ Cardinality(granted) \in Nat
    BY <1>2, <1>3, FS_CardinalityType
  <1>5. QED
    BY <1>2, <1>3, <1>4, MaxSessionsAssumption DEF turns

(* Gate, queue and the stages of the batches keep their types.             *)
THEOREM BatchTypeCorrect == BatchSpec => []BatchTypeOK
  <1>1. BatchInit => PermitInHand
    BY BatchersAssumption DEF BatchInit, Init, GateInit, PermitInHand
  <1>2. BatchSpec => []IInv
    BY BatchQueues, Invariance, PTL
  <1>3. IInv /\ GateInv /\ PermitInHand /\ [BatchNext]_batchVars => PermitInHand'
    BY PermitStaysInHand
  <1>4. IInv /\ GateInv /\ PermitInHand => BatchTypeOK
    BY DEF IInv, GateInv, PermitInHand, BatchTypeOK, GateTypeOK,
           GateStates
  <1>5. QED
    BY <1>1, <1>2, <1>3, <1>4, BatchAsksGate, GateInvariance, PTL DEF BatchSpec

(* Batches and plain calls of a conversation never overlap.                *)
THEOREM BatchExclusion == BatchSpec => []OneAtATime
BY BatchQueues, MutualExclusion, PTL

(* They run in the order they were asked for, permits or not.              *)
THEOREM BatchOrder == BatchSpec => []FirstComeFirstServed
BY BatchQueues, Order, PTL

(* Of all conversations together, no more batches have a turn than there    *)
(* are sessions configured (config.maxSessions).                           *)
THEOREM BatchesHavePermits ==
    BatchSpec => [](Cardinality({b \in Batchers : pc[b] = "running"}) <= MaxSessions)
  <1>1. BatchInit => PermitInHand
    BY BatchersAssumption DEF BatchInit, Init, GateInit, PermitInHand
  <1>2. BatchSpec => []IInv
    BY BatchQueues, Invariance, PTL
  <1>3. IInv /\ GateInv /\ PermitInHand /\ [BatchNext]_batchVars => PermitInHand'
    BY PermitStaysInHand
  <1>4. GateInv /\ PermitInHand
            => Cardinality({b \in Batchers : pc[b] = "running"}) <= MaxSessions
    BY NoMoreThanPermits
  <1>5. QED
    BY <1>1, <1>2, <1>3, <1>4, BatchAsksGate, GateInvariance, PTL DEF BatchSpec
=============================================================================
