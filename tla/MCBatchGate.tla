----------------------------- MODULE MCBatchGate -----------------------------
(* Two conversations and one permit: three batches, one plain operation that *)
(* shares the first conversation's queue with a batch.                       *)
EXTENDS BatchGate
CONSTANTS m1, m2, b1, b2, b3, r1
MCManagers == {m1, m2}
MCBatchers == {b1, b2, b3}
MCCallers == {b1, b2, b3, r1}
MCHome == [c \in MCCallers |-> IF c = b3 THEN m2 ELSE m1]
=============================================================================
