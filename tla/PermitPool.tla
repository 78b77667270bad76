----------------------------- MODULE PermitPool -----------------------------
(***************************************************************************)
(* What the session gate promises, without saying how it queues: a pool of *)
(* Size permits.  A caller takes a free permit, gives its permit back, or  *)
(* gives it straight to a caller that has none.  Nobody ever sees more     *)
(* than Size permits out at once.                                          *)
(***************************************************************************)
EXTENDS Naturals, FiniteSets

CONSTANTS Procs,  \* the callers that may ask for a permit
          Size    \* how many permits there are

VARIABLE holders  \* the callers a permit has been given to

TypeOK == /\ holders \subseteq Procs
          /\ IsFiniteSet(holders)

Init == holders = {}

Take(p) == /\ p \notin holders
           /\ Cardinality(holders) < Size
           /\ holders' = holders \cup {p}

Give(p) == /\ p \in holders
           /\ holders' = holders \ {p}

HandOver(p, q) == /\ p \in holders
                  /\ q \notin holders
                  /\ holders' = (holders \ {p}) \cup {q}

Next == \/ \E p \in Procs : Take(p) \/ Give(p)
        \/ \E p, q \in Procs : HandOver(p, q)

Spec == Init /\ [][Next]_holders
=============================================================================
