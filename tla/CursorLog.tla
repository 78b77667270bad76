------------------------------ MODULE CursorLog ------------------------------
(***************************************************************************)
(* What a job promises to the one who reads its output: a log that only    *)
(* grows, and answers that go through it in order, where whatever an       *)
(* answer leaves out is said to be left out.                               *)
(***************************************************************************)
EXTENDS Naturals, Sequences

VARIABLES log,   \* everything the job has produced
          got,   \* what the reader has been given, oldest first
          told,  \* how much it was told it will not get
          next   \* the cursor it was given with the last answer

vars == <<log, got, told, next>>

Init == /\ log = <<>>
        /\ got = <<>>
        /\ told = 0
        /\ next = 0

Grow == /\ Len(log) <= Len(log')
        /\ SubSeq(log', 1, Len(log)) = log

\* One answer goes through log[next + 1 .. last]: a part of it at the front
\* may be reported as gone, and all the rest is given.
Answer == \E first \in next..Len(log') : \E last \in first..Len(log') :
              /\ got' = got \o SubSeq(log', first + 1, last)
              /\ told' = told + (first - next)
              /\ next' = last

\* A reader that asked for all there is starts over with it.
StartOver == \E first \in 0..Len(log') :
                 /\ got' = SubSeq(log', first + 1, Len(log'))
                 /\ told' = first
                 /\ next' = Len(log')

\* An answer comes with what the log has grown by just before it.
Next == Grow /\ (UNCHANGED <<got, told, next>> \/ Answer \/ StartOver)

Spec == Init /\ [][Next]_vars
=============================================================================
