------------------------------ MODULE JobOutput ------------------------------
(***************************************************************************)
(* The output of one streaming job, from the terminal to its reader.       *)
(*                                                                         *)
(*   terminal-observer.ts  a ring of terminal events with sequence numbers,*)
(*                         capped in events and in bytes;                  *)
(*   job-store.ts          the pump, which harvests the ring into a buffer *)
(*                         of the last Window characters, and read(), a    *)
(*                         cursor into all that was ever harvested;        *)
(*   the reader            (external) an agent that polls, either with the *)
(*                         cursor the store keeps, or with the nextSeq of  *)
(*                         the last answer it received, in which case      *)
(*                         answers may be lost and asked for again.        *)
(*                                                                         *)
(* Characters are numbered in the order they were painted: those of the    *)
(* job from 1, those before its command 0 and below.  A character is one   *)
(* byte.  An event carries the characters from + 1 .. to; an event that is *)
(* no output (input, state, target, error) carries none.                   *)
(***************************************************************************)
EXTENDS Integers, Sequences, FiniteSetsExt

CONSTANTS RingBytes,   \* MAX_TERMINAL_BYTES
          Budgets,     \* what setScrollbackRows makes of the settings: maxEvents
          Window,      \* MAX_JOB_OUTPUT_BYTES
          ReadSizes,   \* maxChars of the reads
          Styles,      \* how the reader asks, out of "implicit" and "explicit"
          MaxChunk,    \* bound: characters in one output event
          MaxPrinted,  \* bound: characters painted
          MaxSeq,      \* bound: events recorded
          MaxLost      \* bound: answers lost

ASSUME JobOutputAssumption ==
    /\ {RingBytes, Window, MaxChunk} \subseteq Nat \ {0}
    /\ {MaxPrinted, MaxSeq, MaxLost} \subseteq Nat
    /\ Budgets \subseteq Nat \ {0} /\ Budgets # {}
    /\ ReadSizes \subseteq Nat \ {0} /\ ReadSizes # {}
    /\ Styles \subseteq {"implicit", "explicit"} /\ Styles # {}

VARIABLES ring,       \* the events kept, oldest first
          cursor,     \* the sequence number of the last event
          maxEvents,  \* the cap of the ring in events
          printed,    \* how many characters the terminal has shown
          ended,      \* history: printed, up to when the job was last the owner
          owned,      \* the conversation is connected and its manager's activeJob is this job
          job,        \* the JobRecord
          log,        \* history: every character harvested
          harvested,  \* history: printed, when the job was last harvested
          reader      \* what the reader knows

ringVars == <<ring, cursor, maxEvents, printed, ended>>
vars == <<ring, cursor, maxEvents, printed, ended, owned, job, log, harvested, reader>>

Over == job.state \in {"STOPPED", "LOST"}

(***************************************************************************)
(* TerminalRingBuffer                                                      *)
(***************************************************************************)
\* outputBytes: events are contiguous, each begins where the one before ends.
Bytes(events) == IF events = <<>> THEN 0 ELSE events[Len(events)].to - events[1].from

Dropping(events, n) == SubSeq(events, n + 1, Len(events))

\* The two loops that drop the oldest events until both caps are respected.
Trimmed(events, cap) ==
    Dropping(events, Min({n \in 0..Len(events) : /\ Len(events) - n <= cap
                                                 /\ Bytes(Dropping(events, n)) <= RingBytes}))

\* push(): an event with n characters, none if it is no output.
Push(n) == /\ cursor' = cursor + 1
           /\ printed' = printed + n
           /\ ring' = Trimmed(Append(ring, [seq |-> cursor + 1, from |-> printed, to |-> printed + n]),
                              maxEvents)
           /\ UNCHANGED maxEvents

Init == /\ maxEvents \in Budgets
        /\ cursor \in 0..1  \* what was on the terminal before the job's command
        /\ ring = [i \in 1..cursor |-> [seq |-> i, from |-> -1, to |-> 0]]
        /\ printed = 0
        /\ ended = 0
        /\ owned = TRUE
        /\ job = [state |-> "RUNNING", lastSeq |-> cursor, output |-> <<>>,
                  producedChars |-> 0, readCursor |-> 0]
        /\ log = <<>>
        /\ harvested = 0
        /\ \E s \in Styles :
               reader = [style |-> s, got |-> <<>>, told |-> 0, next |-> 0, lost |-> 0]

\* recordOutput(): the shell paints, the job's output as long as it owns the shell.
Paint(n) == /\ cursor < MaxSeq /\ printed + n <= MaxPrinted
            /\ Push(n)
            /\ ended' = IF owned /\ job.state = "RUNNING" THEN printed' ELSE ended
            /\ UNCHANGED <<owned, job, log, harvested, reader>>

\* recordInput(), recordState(), recordTarget(), recordError()
Note == /\ cursor < MaxSeq
        /\ Push(0)
        /\ UNCHANGED <<ended, owned, job, log, harvested, reader>>

\* setScrollbackRows(): the settings were changed.
Rebudget(cap) == /\ cap # maxEvents
                 /\ maxEvents' = cap
                 /\ ring' = Trimmed(ring, cap)
                 /\ UNCHANGED <<cursor, printed, ended, owned, job, log, harvested, reader>>

(***************************************************************************)
(* The pump                                                                *)
(***************************************************************************)
\* The events after lastSeq: the end of the ring, which is in the order of seq.
Newer(lastSeq) == {i \in 1..Len(ring) : ring[i].seq > lastSeq}

\* The characters from one event to the end of the ring.
CharactersFrom(i) ==
    [k \in 1..(ring[Len(ring)].to - ring[i].from) |-> ring[i].from + k]

\* Mutant: the event after the last harvested one is skipped.
MutFresh(lastSeq) ==
    IF Newer(lastSeq + 1) = {} THEN <<>> ELSE CharactersFrom(Min(Newer(lastSeq + 1)))

\* snapshotSince(lastSeq), the characters of its events
Fresh(lastSeq) ==
    IF Newer(lastSeq) = {} THEN <<>> ELSE CharactersFrom(Min(Newer(lastSeq)))

Last(s, n) == SubSeq(s, Max({1, Len(s) - n + 1}), Len(s))

\* A running job of a connected owner is harvested; the ring's last event is
\* its cursor, whether or not earlier ones were still there to be read.
Harvest == LET fresh == Fresh(job.lastSeq)
           IN  [job EXCEPT !.lastSeq = IF ring = <<>> THEN @ ELSE Max({@, ring[Len(ring)].seq}),
                           !.output = Last(@ \o fresh, Window),
                           !.producedChars = @ + Len(fresh)]

\* Mutant: no test of the owner, a replaced shell is harvested.
MutHarvests == job.state = "RUNNING"

Harvests == job.state = "RUNNING" /\ owned

\* pump(), the records it may leave: a job whose shell is gone is LOST, one at
\* its maximal duration goes to stop(), one that is over for long is deleted.
Pumped ==
    CASE Harvests -> {Harvest, [Harvest EXCEPT !.state = "VERIFYING"]}
      [] ~Harvests /\ job.state = "RUNNING" -> {[job EXCEPT !.state = "LOST"]}
      [] Over -> {job, [job EXCEPT !.state = "DELETED"]}
      [] OTHER -> {job}

\* What a pump adds to the history.
Remember == /\ log' = log \o (IF Harvests THEN Fresh(job.lastSeq) ELSE <<>>)
            /\ harvested' = IF Harvests THEN printed ELSE harvested

\* The interval, or a list() of some other tool or of the console.
Pump == /\ job' \in Pumped
        /\ Remember
        /\ UNCHANGED <<ringVars, owned, reader>>

(***************************************************************************)
(* stop() and losses; what they do to the shell is SessionManager's        *)
(***************************************************************************)
BeginStop == /\ job.state = "RUNNING"
             /\ job' = [job EXCEPT !.state = "VERIFYING"]
             /\ UNCHANGED <<ringVars, owned, log, harvested, reader>>

EndStop(verified) == /\ job.state = "VERIFYING"
                     /\ job' = [job EXCEPT !.state = IF verified THEN "STOPPED" ELSE "LOST"]
                     /\ owned' = FALSE
                     /\ UNCHANGED <<ringVars, log, harvested, reader>>

\* The wire closes, the session is closed or replaced, the bundle is detached.
Disown == /\ owned
          /\ owned' = FALSE
          /\ UNCHANGED <<ringVars, job, log, harvested, reader>>

(***************************************************************************)
(* read()                                                                  *)
(***************************************************************************)
OutputStart(j) == j.producedChars - Len(j.output)

\* Mutant: the characters evicted from the buffer are not subtracted, the
\* window is cut from the wrong place.
MutWindowOf(j, requested, maxChars) ==
    LET begin == Max({requested, OutputStart(j)})
        chunk == SubSeq(j.output, begin + 1, Min({begin + maxChars, Len(j.output)}))
    IN  [chunk |-> chunk, nextSeq |-> begin + Len(chunk), droppedChars |-> 0]

\* Mutant: the end of the buffer is taken for an index, its last character is
\* never delivered.
MutShortWindow(j, requested, maxChars) ==
    LET begin  == Max({requested, OutputStart(j)})
        offset == Min({begin - OutputStart(j), Len(j.output)})
        chunk  == SubSeq(j.output, offset + 1, Min({offset + maxChars, Len(j.output) - 1}))
    IN  [chunk |-> chunk, nextSeq |-> begin + Len(chunk),
         droppedChars |-> Max({0, OutputStart(j) - requested})]

\* The window of a cursor read that asks for what follows `requested`.
WindowOf(j, requested, maxChars) ==
    LET begin  == Max({requested, OutputStart(j)})
        offset == Min({begin - OutputStart(j), Len(j.output)})
        chunk  == SubSeq(j.output, offset + 1, Min({offset + maxChars, Len(j.output)}))
    IN  [chunk |-> chunk, nextSeq |-> begin + Len(chunk),
         droppedChars |-> Max({0, OutputStart(j) - requested})]

\* The answer reaches the reader, or the reader only knows that it did not.
Arrives(arrived, known) ==
    \/ arrived /\ reader' = known
    \/ /\ ~arrived /\ reader.style = "explicit" /\ reader.lost < MaxLost
       /\ reader' = [reader EXCEPT !.lost = @ + 1]

\* An implicit read sets the cursor, an explicit one only moves it forward.
MovedTo(j, nextSeq) == IF reader.style = "implicit" THEN nextSeq
                       ELSE Max({j.readCursor, nextSeq})

\* read() without `full`.  It begins with a pump(); a read that finds the
\* record deleted answers UNKNOWN_JOB and does no more than Pump.
CursorRead(maxChars, arrived) ==
    /\ Remember
    /\ \E j \in {k \in Pumped : k.state # "DELETED"} :
           LET requested == IF reader.style = "implicit" THEN j.readCursor ELSE reader.next
               window == WindowOf(j, requested, maxChars)
           IN  /\ job' = [j EXCEPT !.readCursor = MovedTo(j, window.nextSeq)]
               /\ Arrives(arrived, [reader EXCEPT !.got = @ \o window.chunk,
                                                  !.told = @ + window.droppedChars,
                                                  !.next = window.nextSeq])
    /\ UNCHANGED <<ringVars, owned>>

\* read() with `full`: the whole buffer, and the cursor is moved behind it.
FullRead(arrived) ==
    /\ Remember
    /\ \E j \in {k \in Pumped : k.state # "DELETED"} :
           /\ job' = [j EXCEPT !.readCursor = j.producedChars]
           /\ Arrives(arrived, [reader EXCEPT !.got = j.output,
                                              !.told = OutputStart(j),
                                              !.next = j.producedChars])
    /\ UNCHANGED <<ringVars, owned>>

Next == \/ \E n \in 1..MaxChunk : Paint(n)
        \/ Note
        \/ \E cap \in Budgets : Rebudget(cap)
        \/ Pump
        \/ BeginStop
        \/ \E verified \in BOOLEAN : EndStop(verified)
        \/ Disown
        \/ \E n \in ReadSizes, arrived \in BOOLEAN : CursorRead(n, arrived)
        \/ \E arrived \in BOOLEAN : FullRead(arrived)

Spec == Init /\ [][Next]_vars

\* The reader goes on asking and does not lose every answer.  No fairness of
\* the interval is needed, as every read pumps.
FairSpec == Spec /\ WF_vars(\E n \in ReadSizes : CursorRead(n, TRUE))

(***************************************************************************)
(* Properties                                                              *)
(***************************************************************************)
Events == [seq : Nat \ {0}, from : Int, to : Int]

\* The ring lists consecutive events up to the last one and is within both of
\* its caps; the buffer is the end of what was harvested (push,
\* setScrollbackRows, pump).
TypeOK == /\ ring \in Seq(Events)
          /\ \A i \in 1..Len(ring) : ring[i].seq = cursor - Len(ring) + i
          /\ Len(ring) <= maxEvents /\ Bytes(ring) <= RingBytes
          /\ cursor \in Nat /\ maxEvents \in Budgets
          /\ printed \in Nat /\ {ended, harvested} \subseteq 0..printed
          /\ owned \in BOOLEAN
          /\ job \in [state : {"RUNNING", "VERIFYING", "STOPPED", "LOST", "DELETED"},
                      lastSeq : 0..cursor, output : Seq(Int),
                      producedChars : Nat, readCursor : Nat]
          /\ job.producedChars = Len(log) /\ job.output = Last(log, Window)
          /\ log \in Seq(Int)
          /\ reader \in [style : Styles, got : Seq(Int), told : Nat, next : Nat, lost : 0..MaxLost]

\* An answer continues where the last one the reader received ended, in order
\* and without repetition, and what the buffer no longer holds is counted in
\* droppedChars, however reads, harvests and lost answers alternate ("safe to
\* retry, never re-consumes old lines", tools-ops.ts:462).
Log == INSTANCE CursorLog WITH got <- reader.got, told <- reader.told, next <- reader.next

LogSpec == Log!Spec

\* As long as the ring still reaches back to the last harvest, a harvest takes
\* up exactly where that ended and leaves no character out, whatever was
\* dropped, trimmed or recorded in between (snapshotSince, setScrollbackRows,
\* lastSeq).  The condition is the test listAssets makes at
\* session-manager.ts:1236, and pump does not make.
RingReachesBack == cursor = job.lastSeq \/ (ring # <<>> /\ ring[1].seq <= job.lastSeq + 1)

HarvestsAreWhole ==
    [][harvested' # harvested /\ RingReachesBack =>
           log' = log \o [i \in 1..(printed - harvested) |-> harvested + i]]_vars

\* No character of before the job's command, and none of what the shell showed
\* after it stopped belonging to the job, is ever handed out as the job's
\* (pump's test of the owner, startSeq).
OnlyItsOwn == \A i \in 1..Len(log) : log[i] \in 1..ended

\* When a job is over, a reader that goes on reading reaches the end of what
\* was harvested, unless the record is deleted first.
CatchesUp == Over ~> (reader.next = job.producedChars \/ job.state = "DELETED")

\* Known not to hold: a job that is over has harvested all it printed,
\* producedChars is the "absolute number of output characters this job has ever
\* produced" (job-store.ts:48-49). What it prints between its last harvest and
\* its stop is read by nobody.
ProducedIsAll == Over => job.producedChars = ended
=============================================================================
