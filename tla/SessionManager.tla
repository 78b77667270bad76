---------------------------- MODULE SessionManager ----------------------------
(***************************************************************************)
(* jumpserver/session-manager.ts with runtime/job-store.ts and             *)
(* runtime/interrupt.ts: one conversation's manager, the session it owns   *)
(* and the streaming jobs that own that session's PTY.                     *)
(*                                                                         *)
(* One queued operation is under way at a time (`turn`; SessionMutex says  *)
(* why).  What waits in the queue, a timer's connect and an idle close     *)
(* among it, is left out: an operation appears when its turn comes, and    *)
(* nothing but its own checks then says whether it may run.  Reconnect     *)
(* timers, wire events, job stops, interrupts and dispose do not queue.    *)
(* What a session operation can do to the session's state is what          *)
(* JumpServerSession allows it.                                            *)
(***************************************************************************)
EXTENDS StateMachine, Naturals, FiniteSets

CONSTANTS Jobs,            \* ids of streaming jobs
          NoJob,           \* model value
          ReconnectLimit,  \* RECONNECT_LIMIT
          AutoReconnect,   \* config.autoReconnect
          BatchSize,       \* bound: the scripts one batch runs
          Weather          \* the sets of disturbances that may come together

AllFaults == {"abort", "dispose", "drop", "interrupt", "late", "slow"}

ASSUME JobsAssumption == Jobs \cap {NoJob, "none", "menu", "shell", "cmd"} = {}
ASSUME LimitAssumption == ReconnectLimit \in Nat /\ BatchSize \in Nat \ {0}
ASSUME AutoReconnectAssumption == AutoReconnect \in BOOLEAN
ASSUME WeatherAssumption == Weather \subseteq SUBSET AllFaults

VARIABLES mgr,    \* the manager's fields; `current`: this.session is not null
          sess,   \* the newest session: its state, its wire, its foreground
          late,   \* a close event that is still owed, by its own or an old wire
          turn,   \* the operation that holds the queue, and its locals
          flush,  \* a turn has settled, flushPendingReconnect comes next
          stops,  \* job -> the probe of its stop (stopInflight)
          irq,    \* the probe of manager.interrupt()
          rec,    \* job -> the state of its JobRecord
          faults  \* the disturbances of this behaviour

vars == <<mgr, sess, late, turn, flush, stops, irq, rec, faults>>

\* A probe runs on the newest session or on one that has been replaced since.
OnNewest == {"probing", "answered"}
Probes == {"none", "oldProbing", "oldAnswered"} \cup OnNewest
Aged(p) == CASE p = "probing"  -> "oldProbing"
             [] p = "answered" -> "oldAnswered"
             [] OTHER          -> p

\* Where a turn awaits.  dialing and menuWait are connect's; pause is the sleep
\* before navigateWithRetry tries again; auditing is startJob's last await.
Stages == {"idle", "password", "dialing", "menuWait", "listing", "leaving", "entering",
           "pause", "approving", "executing", "auditing"}

NoTurn == [op |-> "none", at |-> "idle", job |-> NoJob, healed |-> FALSE,
           retried |-> FALSE, left |-> 0]

Init == /\ mgr = [current |-> FALSE, disposed |-> FALSE, activeJob |-> NoJob,
                  stoppingJob |-> NoJob, attempts |-> 0, timer |-> FALSE,
                  pending |-> FALSE]
        /\ sess = [st |-> "DISCONNECTED", wire |-> "none", fg |-> "none"]
        /\ late = "none"
        /\ turn = NoTurn
        /\ flush = FALSE
        /\ stops = [j \in Jobs |-> "none"]
        /\ irq = "none"
        /\ rec = [j \in Jobs |-> "none"]
        /\ faults \in Weather

LiveNow == mgr.current /\ sess.st \in Live
-----------------------------------------------------------------------------
(* What the manager does to its fields.                                    *)

\* Mutant: only the stop's claim is dropped.
MutKeepClaim(m) == [m EXCEPT !.stoppingJob = NoJob]

\* releasePtyOwnership
Released(m) == [m EXCEPT !.activeJob = NoJob, !.stoppingJob = NoJob]

GivenUp(m) == m.attempts >= ReconnectLimit

\* scheduleReconnect
Scheduled(m) == IF m.disposed \/ GivenUp(m) THEN m
                ELSE [m EXCEPT !.attempts = @ + 1, !.timer = TRUE]

\* onSessionLost; pendingOp is this.session's hasPendingOp().
Lost(m, pendingOp) ==
    CASE m.disposed -> m
      [] ~m.disposed /\ ~AutoReconnect -> Released(m)
      [] ~m.disposed /\ AutoReconnect /\ m.current /\ pendingOp ->
            [Released(m) EXCEPT !.pending = TRUE]
      [] OTHER -> Scheduled(Released(m))

\* Mutant: nobody looks at reconnectPending again.
MutForget(m) == m

\* flushPendingReconnect
Flushed(m) ==
    IF m.disposed \/ ~m.pending THEN m
    ELSE IF LiveNow THEN [m EXCEPT !.pending = FALSE]
    ELSE Scheduled([m EXCEPT !.pending = FALSE])

\* Mutant: a job that is being stopped is the only one that counts.
MutOnlyStopping == mgr.stoppingJob = NoJob

\* assertNoActiveJob
Unclaimed == mgr.stoppingJob = NoJob /\ mgr.activeJob = NoJob

\* A watcher is or may be installed in the session: enter and exec have one
\* most of the time, a probe while it waits for its answer.
MayHaveOp == \/ turn.at \in {"entering", "executing"}
             \/ irq \in OnNewest
             \/ \E j \in Jobs : stops[j] \in OnNewest
PendingOps == IF MayHaveOp THEN BOOLEAN ELSE {FALSE}
-----------------------------------------------------------------------------
(* What closing does to the session.                                       *)

Became(to) == [sess EXCEPT !.st = SetState(@, to)]

\* onWireClose, run by the close of a wire that is there.
Unplugged(st) == IF sess.wire = "none" THEN st ELSE SetState(st, "DISCONNECTED")

\* session.close()
ClosedSession(st) == [st |-> SetState(Unplugged(st), "DISCONNECTED"),
                      wire |-> "none", fg |-> "none"]

\* Mutant: a connect that fails leaves its transport behind.
MutNoTeardown == Became("ERROR")

\* The catch of session.connect: teardownTransport, then ERROR if it is legal.
TornDown == [st |-> SetState(Unplugged(sess.st), "ERROR"), wire |-> "none", fg |-> "none"]

\* onLost comes with it, before the close returns.
AfterClose(m) == IF sess.wire = "none" THEN m ELSE Lost(m, FALSE)

\* stream and client report the close again, later.  One event is kept: a bound.
Owed == IF "late" \in faults /\ sess.wire = "open" THEN "own" ELSE late
-----------------------------------------------------------------------------
(* Turns.                                                                  *)

Quiet == turn = NoTurn
At(stage) == turn.at = stage /\ ~flush

\* The turn goes on as t, or settles: queue()'s finally is then if it has
\* anything to do.
Settling == flush' = (flush \/ mgr.pending)
Turn(t) == turn' = t /\ IF t = NoTurn THEN Settling ELSE UNCHANGED flush

\* Mutant: a transient failure is retried for ever.
MutRetryAgain(t) == t.op \in {"run", "batch", "job"}

\* navigateWithRetry: once, and not for enter.
MayRetry(t) == t.op \in {"run", "batch", "job"} /\ ~t.retried

Move(t, at) == [t EXCEPT !.at = at]

\* Where a failed entry goes.
Failing(t) == {NoTurn} \cup (IF MayRetry(t) THEN {Move(t, "pause")} ELSE {})

\* navigateToTarget, and enter's own way to session.enter: the turns and the
\* session states that can follow from state st.  In a shell, it is the target's
\* or another's.  At the menu, the cooldown may refuse before anything is typed.
\* On an account prompt, the call answers it or is refused; enter may find that
\* it has expired.
Steps(t, st) ==
    CASE st = "SHELL" ->
            {<<IF t.op = "enter" THEN NoTurn ELSE Move(t, "approving"), st>>,
             <<Move(t, "leaving"), st>>}
      [] st = "MENU" ->
            {<<Move(t, "entering"), "ENTERING">>} \cup {<<f, st>> : f \in Failing(t)}
      [] st = "ENTERING" ->
            {<<Move(t, "entering"), st>>, <<NoTurn, st>>}
              \cup (IF t.op = "enter" THEN {<<NoTurn, "UNKNOWN">>} ELSE {})
      [] OTHER -> {<<NoTurn, st>>}

\* The session is in state st and the turn navigates on from there.
Navigate(t, st) ==
    \E step \in Steps(t, st) : /\ Turn(step[1])
                               /\ sess' = [sess EXCEPT !.st = step[2]]

\* An operation is refused by its own checks, or dropped by the queue because
\* its signal has fired.
Refused ==
    /\ Quiet
    /\ Settling
    /\ UNCHANGED <<mgr, sess, late, turn, stops, irq, rec, faults>>

\* The first half of connectLocked, up to resolvePassword.
ConnectLocked(t) ==
    /\ mgr' = [mgr EXCEPT !.timer = FALSE]
    /\ Turn(IF mgr.disposed THEN NoTurn ELSE Move(t, "password"))
    /\ UNCHANGED sess

\* connect, by a caller or by the reconnect timer.
StartConnect ==
    /\ Quiet
    /\ IF LiveNow
       THEN /\ mgr' = [mgr EXCEPT !.timer = FALSE]
            /\ Turn(NoTurn)
            /\ UNCHANGED sess
       ELSE ConnectLocked([NoTurn EXCEPT !.op = "connect"])
    /\ UNCHANGED <<late, stops, irq, rec, faults>>

\* run and runTargetBatch look for a job once they are connected, startJob
\* before; listAssets does not care.
StartNavigation(t) ==
    /\ Quiet
    /\ t.op = "job" => Unclaimed
    /\ IF LiveNow
       THEN /\ t.op \in {"run", "batch"} => Unclaimed
            /\ IF t.op = "list"
               THEN sess.st = "MENU" /\ Turn(Move(t, "listing")) /\ UNCHANGED sess
               ELSE Navigate(t, sess.st)
            /\ UNCHANGED mgr
       ELSE ConnectLocked(t)
    /\ UNCHANGED <<late, stops, irq, rec, faults>>

StartRun == StartNavigation([NoTurn EXCEPT !.op = "run"])
StartBatch == StartNavigation([NoTurn EXCEPT !.op = "batch", !.left = BatchSize])
StartList == StartNavigation([NoTurn EXCEPT !.op = "list"])
StartJob(j) == /\ rec[j] = "none"
               /\ StartNavigation([NoTurn EXCEPT !.op = "job", !.job = j])

\* enter: neither it nor leave asks whether a job owns the shell.
StartEnter ==
    /\ Quiet
    /\ LiveNow
    /\ Navigate([NoTurn EXCEPT !.op = "enter"], sess.st)
    /\ UNCHANGED <<mgr, late, stops, irq, rec, faults>>

StartLeave ==
    /\ Quiet
    /\ LiveNow
    /\ sess.st = "SHELL"
    /\ Turn([NoTurn EXCEPT !.op = "leave", !.at = "leaving"])
    /\ UNCHANGED <<mgr, sess, late, stops, irq, rec, faults>>

\* session.exec types its script at whatever reads the terminal.
Typed(s) == [s EXCEPT !.st = SetState(@, "RUNNING"),
                      !.fg = IF @ = "shell" THEN "cmd" ELSE @]

StartExec ==
    /\ Quiet
    /\ LiveNow
    /\ Unclaimed
    /\ sess.st = "SHELL"
    /\ sess' = Typed(sess)
    /\ Turn([NoTurn EXCEPT !.op = "exec", !.at = "executing"])
    /\ UNCHANGED <<mgr, late, stops, irq, rec, faults>>

\* close, by a caller or by tickIdle, which looked at the session's clock when
\* it queued it.  cancelReconnect comes first: what the closing wire's onLost
\* schedules is armed after it.
Close ==
    /\ Quiet
    /\ LET m == [Released(mgr) EXCEPT !.timer = FALSE, !.current = FALSE]
       IN  IF mgr.current
           THEN /\ mgr' = [AfterClose(m) EXCEPT !.attempts = 0]
                /\ sess' = ClosedSession(sess.st)
                /\ late' = Owed
           ELSE /\ mgr' = [m EXCEPT !.attempts = 0]
                /\ UNCHANGED <<sess, late>>
    /\ Settling
    /\ UNCHANGED <<turn, stops, irq, rec, faults>>
-----------------------------------------------------------------------------
(* connectLocked goes on.                                                  *)

NoPassword ==
    /\ At("password")
    /\ Turn(NoTurn)
    /\ UNCHANGED <<mgr, sess, late, stops, irq, rec, faults>>

\* The stale session is closed and a new one built.  Whether the manager has
\* been disposed meanwhile is not asked again.
NewSession ==
    /\ At("password")
    /\ LET m == IF mgr.current THEN AfterClose(mgr) ELSE mgr
       IN  mgr' = [Released(m) EXCEPT !.current = TRUE]
    /\ sess' = [st |-> "CONNECTING", wire |-> "none", fg |-> "none"]
    /\ late' = IF Owed = "own" THEN "old" ELSE late
    /\ stops' = [j \in Jobs |-> Aged(stops[j])]
    /\ irq' = Aged(irq)
    /\ Turn(Move(turn, "dialing"))
    /\ UNCHANGED <<rec, faults>>

FactoryRejects ==
    /\ At("dialing")
    /\ mgr' = [mgr EXCEPT !.current = FALSE]
    /\ sess' = TornDown
    /\ Turn(NoTurn)
    /\ UNCHANGED <<late, stops, irq, rec, faults>>

\* A probe of the old session ends within one poll (80-100 ms) of its wire's
\* close and the pump ticks every second: mostly sooner than a new connection is
\* made, a menu painted and a target entered.
OldBusinessOver ==
    /\ {irq} \cup {stops[j] : j \in Jobs} \subseteq {"none"} \cup OnNewest
    /\ \A j \in Jobs : rec[j] = "RUNNING" => mgr.activeJob = j

Attach ==
    /\ At("dialing")
    /\ "slow" \in faults \/ OldBusinessOver
    /\ sess' = [sess EXCEPT !.wire = "open", !.fg = "menu"]
    /\ Turn(Move(turn, "menuWait"))
    /\ UNCHANGED <<mgr, late, stops, irq, rec, faults>>

\* The menu is there.  An operation that only needed a connection goes on with
\* this.session if it is live.
MenuSeen ==
    /\ At("menuWait")
    /\ mgr' = [mgr EXCEPT !.attempts = 0]
    /\ LET st == SetState(sess.st, "MENU")
       IN  CASE turn.op \in {"connect", "leave"} \/ ~mgr.current \/ st # "MENU"
                  \/ (turn.op \in {"run", "batch"} /\ ~turn.healed /\ ~Unclaimed) ->
                    Turn(NoTurn) /\ sess' = [sess EXCEPT !.st = st]
             [] turn.op = "list" /\ mgr.current /\ st = "MENU" ->
                    Turn(Move(turn, "listing")) /\ sess' = [sess EXCEPT !.st = st]
             [] OTHER -> Navigate(turn, st)
    /\ UNCHANGED <<late, stops, irq, rec, faults>>

\* The menu does not come, the wire closes or the signal fires.
MenuFails ==
    /\ At("menuWait")
    /\ mgr' = [AfterClose(mgr) EXCEPT !.current = FALSE]
    /\ sess' = TornDown
    /\ late' = Owed
    /\ Turn(NoTurn)
    /\ UNCHANGED <<stops, irq, rec, faults>>
-----------------------------------------------------------------------------
(* Navigation and commands.                                                *)

Listed ==
    /\ At("listing")
    /\ sess' \in {sess, Became("UNKNOWN")}
    /\ Turn(NoTurn)
    /\ UNCHANGED <<mgr, late, stops, irq, rec, faults>>

Entered ==
    /\ At("entering")
    /\ sess.fg = "shell"
    /\ sess' = Became("SHELL")
    /\ Turn(IF turn.op = "enter" THEN NoTurn ELSE Move(turn, "approving"))
    /\ UNCHANGED <<mgr, late, stops, irq, rec, faults>>

\* recoverAfterFailedEnter, or UNKNOWN when the identity was not proved.
FailedEntry ==
    CASE sess.wire # "open" -> {Became("DISCONNECTED")}
      [] sess.wire = "open" /\ sess.st # "ENTERING" -> {sess, Became("UNKNOWN")}
      [] sess.wire = "open" /\ sess.st = "ENTERING" /\ sess.fg = "menu" ->
            {sess, Became("MENU"), Became("UNKNOWN")}
      [] OTHER -> {Became("UNKNOWN")}

EntryFails ==
    /\ At("entering")
    /\ sess' \in FailedEntry
    /\ \E t \in Failing(turn) : Turn(t)
    /\ UNCHANGED <<mgr, late, stops, irq, rec, faults>>

\* The second try navigates the session of the first: one that a heal has
\* replaced since cannot be navigated.
PauseEnds ==
    /\ At("pause")
    /\ IF turn.healed THEN Turn(NoTurn) /\ UNCHANGED sess
       ELSE Navigate([turn EXCEPT !.retried = TRUE], sess.st)
    /\ UNCHANGED <<mgr, late, stops, irq, rec, faults>>

Left ==
    /\ At("leaving")
    /\ sess.fg = "menu"
    /\ LET st == SetState(sess.st, "MENU")
       IN  IF turn.op = "leave" THEN Turn(NoTurn) /\ sess' = [sess EXCEPT !.st = st]
           ELSE Navigate(turn, st)
    /\ UNCHANGED <<mgr, late, stops, irq, rec, faults>>

LeaveAborted ==
    /\ At("leaving")
    /\ "abort" \in faults
    /\ Turn(NoTurn)
    /\ UNCHANGED <<mgr, sess, late, stops, irq, rec, faults>>

\* leaveAndRecover: MENU_RETURN_FAILED, so the session is dropped and built anew.
LeaveFails ==
    /\ At("leaving")
    /\ LET m    == [mgr EXCEPT !.current = FALSE]
           lost == IF mgr.current THEN AfterClose(m) ELSE m
       IN  mgr' = [Released(lost) EXCEPT !.timer = FALSE]
    /\ sess' = IF mgr.current THEN ClosedSession(SetState(sess.st, "UNKNOWN"))
               ELSE Became("UNKNOWN")
    /\ late' = IF mgr.current THEN Owed ELSE late
    /\ Turn(IF mgr.disposed THEN NoTurn
            ELSE [turn EXCEPT !.at = "password", !.healed = TRUE])
    /\ UNCHANGED <<stops, irq, rec, faults>>

\* A batch goes on with its next script, whatever became of this one.
Onward(t) == IF t.op = "batch" /\ t.left > 1
             THEN {[Move(t, "approving") EXCEPT !.left = @ - 1], NoTurn} ELSE {NoTurn}

\* The gate refuses, or exec or writeLine does.
Denied ==
    /\ At("approving")
    /\ \E t \in Onward(turn) : Turn(t)
    /\ UNCHANGED <<mgr, sess, late, stops, irq, rec, faults>>

Approved ==
    /\ At("approving")
    /\ turn.op \in {"run", "batch"}
    /\ sess.st = "SHELL"
    /\ sess' = Typed(sess)
    /\ Turn(Move(turn, "executing"))
    /\ UNCHANGED <<mgr, late, stops, irq, rec, faults>>

\* startJob's writeLine asks for a wire, not for a state.
JobTyped ==
    /\ At("approving")
    /\ turn.op = "job"
    /\ sess.wire = "open"
    /\ sess' = [sess EXCEPT !.fg = IF @ = "shell" THEN turn.job ELSE @]
    /\ mgr' = [mgr EXCEPT !.activeJob = turn.job]
    /\ Turn(Move(turn, "auditing"))
    /\ UNCHANGED <<late, stops, irq, rec, faults>>

\* startJob returns and JobStore.start writes its record.
JobStarted ==
    /\ At("auditing")
    /\ rec' = [rec EXCEPT ![turn.job] = "RUNNING"]
    /\ Turn(NoTurn)
    /\ UNCHANGED <<mgr, sess, late, stops, irq, faults>>

\* exec ends: its marker or, after a timeout, a probe has shown a prompt; or
\* nothing has; or the wire is gone.
Executed ==
    /\ At("executing")
    /\ \/ sess.fg = "shell" /\ sess' = Became("SHELL")
       \/ sess' = Became("UNKNOWN")
       \/ sess.wire # "open" /\ sess' = Became("DISCONNECTED")
    /\ \E t \in Onward(turn) : Turn(t)
    /\ UNCHANGED <<mgr, late, stops, irq, rec, faults>>

Flush ==
    /\ flush
    /\ flush' = FALSE
    /\ mgr' = Flushed(mgr)
    /\ UNCHANGED <<sess, late, turn, stops, irq, rec, faults>>
-----------------------------------------------------------------------------
(* What does not queue.                                                    *)

\* The reconnect timer: its connect() queues, as any caller's.
TimerFires ==
    /\ mgr.timer
    /\ ~flush
    /\ mgr' = [mgr EXCEPT !.timer = FALSE]
    /\ UNCHANGED <<sess, late, turn, flush, stops, irq, rec, faults>>

Dispose ==
    /\ "dispose" \in faults
    /\ ~flush
    /\ ~mgr.disposed
    /\ mgr' = [mgr EXCEPT !.disposed = TRUE, !.timer = FALSE, !.current = FALSE]
    /\ sess' = IF mgr.current THEN ClosedSession(sess.st) ELSE sess
    /\ UNCHANGED <<late, turn, flush, stops, irq, rec, faults>>

\* onWireClose: the transport is lost.
WireDrops ==
    /\ "drop" \in faults
    /\ ~flush
    /\ sess.wire = "open"
    /\ sess' = [Became("DISCONNECTED") EXCEPT !.wire = "closed", !.fg = "none"]
    /\ \E op \in PendingOps : mgr' = Lost(mgr, op)
    /\ late' = Owed
    /\ UNCHANGED <<turn, flush, stops, irq, rec, faults>>

\* The wire's close callbacks run once more.  They outlive their session.
LateClose ==
    /\ late # "none"
    /\ ~flush
    /\ sess' = IF late = "own" THEN Became("DISCONNECTED") ELSE sess
    /\ \E op \in PendingOps : mgr' = Lost(mgr, op)
    /\ late' = "none"
    /\ UNCHANGED <<turn, flush, stops, irq, rec, faults>>

\* The program at the far end: a dial lands, a command or job ends, by itself
\* or by ^C, an `exit` is read, the asset logs out.
FarEnd ==
    /\ ~flush
    /\ sess.wire = "open"
    /\ \E to \in {"shell", "menu"} :
           /\ \/ to = "shell" /\ sess.fg = "menu" /\ turn.at = "entering"
              \/ to = "shell" /\ sess.fg \in Jobs \cup {"cmd"}
              \/ to = "menu" /\ sess.fg = "shell" /\ turn.at = "leaving"
              \/ to = "menu" /\ sess.fg \in Jobs \cup {"cmd", "shell"} /\ "drop" \in faults
           /\ sess' = [sess EXCEPT !.fg = to]
    /\ UNCHANGED <<mgr, late, turn, flush, stops, irq, rec, faults>>

\* interruptSession with no RUNNING job: manager.interrupt().
Interrupt ==
    /\ "interrupt" \in faults
    /\ ~flush
    /\ irq = "none"
    /\ \A j \in Jobs : rec[j] # "RUNNING"
    /\ LiveNow
    /\ irq' = "probing"
    /\ UNCHANGED <<mgr, sess, late, turn, flush, stops, rec, faults>>

\* The shell answers a probe.
Answers ==
    /\ ~flush
    /\ sess.fg = "shell"
    /\ \/ /\ irq = "probing"
          /\ irq' = "answered"
          /\ UNCHANGED stops
       \/ \E j \in Jobs : /\ stops[j] = "probing"
                          /\ stops' = [stops EXCEPT ![j] = "answered"]
                          /\ UNCHANGED irq
    /\ UNCHANGED <<mgr, sess, late, turn, flush, rec, faults>>

Verified(p) == p \in {"answered", "oldAnswered"}

\* interruptAndVerify ends, on the session it began on.
ProbeEnds(p) ==
    sess' = IF p \in OnNewest THEN Became(IF Verified(p) THEN "SHELL" ELSE "UNKNOWN")
            ELSE sess

InterruptEnds ==
    /\ ~flush
    /\ irq # "none"
    /\ ProbeEnds(irq)
    /\ mgr' = [mgr EXCEPT !.activeJob = NoJob]
    /\ irq' = "none"
    /\ UNCHANGED <<late, turn, flush, stops, rec, faults>>

\* Mutant: a second stop does not wait for the first.
MutEachDecides(j) == TRUE

\* stopInflight: a second stop shares the first one's answer.
Unshared(j) == stops[j] = "none"

\* stopJob refuses.
StopRefused(j) == mgr.activeJob \notin {NoJob, j} \/ mgr.stoppingJob = j

\* JobStore.stop, by job_stop, by the console, by an interrupt or by maxDuration:
\* stopJob refuses, or has nothing to interrupt, or sends ^C and probes.
Stop(j) ==
    /\ ~flush
    /\ rec[j] \in {"RUNNING", "VERIFYING"}
    /\ Unshared(j)
    /\ CASE rec[j] = "VERIFYING" ->
              rec' = [rec EXCEPT ![j] = "STOPPED"] /\ UNCHANGED <<mgr, sess, stops>>
         [] rec[j] = "RUNNING" /\ StopRefused(j) ->
              rec' = [rec EXCEPT ![j] = "LOST"] /\ UNCHANGED <<mgr, sess, stops>>
         [] rec[j] = "RUNNING" /\ ~StopRefused(j) /\ mgr.current /\ sess.wire = "open" ->
              /\ rec' = [rec EXCEPT ![j] = "VERIFYING"]
              /\ mgr' = [mgr EXCEPT !.stoppingJob = j]
              /\ stops' = [stops EXCEPT ![j] = "probing"]
              /\ UNCHANGED sess
         [] OTHER ->
              /\ rec' = [rec EXCEPT ![j] = "LOST"]
              /\ mgr' = Released(mgr)
              /\ sess' = IF mgr.current THEN Became("UNKNOWN") ELSE sess
              /\ UNCHANGED stops
    /\ UNCHANGED <<late, turn, flush, irq, faults>>

\* stopJob's finally drops both claims, whoever holds them by now.
StopEnds(j) ==
    /\ stops[j] # "none"
    /\ ProbeEnds(stops[j])
    /\ mgr' = Released(mgr)
    /\ rec' = [rec EXCEPT ![j] = IF @ # "VERIFYING" THEN @
                                 ELSE IF Verified(stops[j]) THEN "STOPPED" ELSE "LOST"]
    /\ stops' = [stops EXCEPT ![j] = "none"]
    /\ UNCHANGED <<late, turn, flush, irq, faults>>

\* Mutant: only the connection is looked at.
MutOnlyConnection(j) == ~mgr.current \/ sess.st = "DISCONNECTED"

\* JobStore.pump's tests.
ShellGone(j) == ~mgr.current \/ sess.st = "DISCONNECTED" \/ mgr.activeJob # j

Pump(j) ==
    /\ rec[j] = "RUNNING"
    /\ ShellGone(j)
    /\ rec' = [rec EXCEPT ![j] = "LOST"]
    /\ UNCHANGED <<mgr, sess, late, turn, flush, stops, irq, faults>>
-----------------------------------------------------------------------------
Starting == \/ Refused \/ StartConnect \/ StartRun \/ StartBatch \/ StartList
            \/ StartEnter \/ StartLeave \/ StartExec \/ Close
            \/ \E j \in Jobs : StartJob(j)

\* The steps by which a turn goes on or ends.
Advance == \/ NoPassword \/ NewSession \/ FactoryRejects \/ Attach
           \/ MenuSeen \/ MenuFails \/ Listed \/ Entered \/ EntryFails
           \/ PauseEnds \/ Left \/ LeaveAborted \/ LeaveFails
           \/ Denied \/ Approved \/ JobTyped \/ JobStarted \/ Executed

Outside == \/ TimerFires \/ Dispose \/ WireDrops \/ LateClose \/ FarEnd
           \/ Interrupt \/ Answers \/ InterruptEnds
           \/ \E j \in Jobs : Stop(j) \/ StopEnds(j) \/ Pump(j)

Next == Starting \/ Advance \/ Flush \/ Outside

Spec == Init /\ [][Next]_vars

\* Every await of a turn has a deadline, a settled turn's finally runs, the
\* pump's timer ticks.  No operation, answer or disturbance has to come.
FairSpec == /\ Spec
            /\ WF_vars(Advance)
            /\ WF_vars(Flush)
            /\ \A j \in Jobs : WF_vars(Pump(j)) /\ WF_vars(StopEnds(j))
-----------------------------------------------------------------------------
MgrType == [current : BOOLEAN, disposed : BOOLEAN, activeJob : Jobs \cup {NoJob},
            stoppingJob : Jobs \cup {NoJob}, attempts : 0 .. ReconnectLimit,
            timer : BOOLEAN, pending : BOOLEAN]
SessType == [st : States, wire : {"none", "open", "closed"},
             fg : {"none", "menu", "shell", "cmd"} \cup Jobs]
Ops == {"none", "connect", "run", "batch", "list", "job", "enter", "leave", "exec"}
TurnType == {t \in [op : Ops, at : Stages, job : Jobs \cup {NoJob}, healed : BOOLEAN,
                    retried : BOOLEAN, left : 0 .. BatchSize] :
                t.op = "job" => t.job \in Jobs}

TypeOK == /\ mgr \in MgrType
          /\ sess \in SessType
          /\ late \in {"none", "own", "old"}
          /\ turn \in TurnType
          /\ flush \in BOOLEAN
          /\ stops \in [Jobs -> Probes]
          /\ irq \in Probes
          /\ rec \in [Jobs -> {"none", "RUNNING", "VERIFYING", "STOPPED", "LOST"}]
          /\ faults \in Weather

(* A claim on the PTY never outlives the transport: after whatever loss,    *)
(* close, heal or reconnect, at whatever moment of a start or a stop, no    *)
(* job refuses others a shell that is gone (session-manager.ts:410-417).    *)
ClaimHasShell ==
    mgr.activeJob # NoJob /\ ~mgr.disposed => mgr.current /\ sess.wire = "open"

(* Known not to hold: job-store.ts:10-11, "A job owns the PTY until it is   *)
(* stopped (the manager refuses any other command meanwhile with            *)
(* SESSION_BUSY)", no command is typed into a job. The late close event of  *)
(* a replaced wire drops the claim of a job on the new one.                 *)
JobOwnsThePty == turn.at = "executing" => sess.fg \notin Jobs

(* It holds over stops, losses, heals and reconnects as long as no old wire *)
(* reports its close late, no probe outlives its session, and no interrupt  *)
(* ends while a job starts.                                                 *)
CommandsStayOutOfJobs ==
    faults \cap {"late", "slow", "interrupt"} = {} => JobOwnsThePty

(* No connection is left open that the manager does not know: a connect     *)
(* that fails, a heal and a reconnect close what they replace.              *)
OpenWireIsCurrent == sess.wire = "open" /\ ~mgr.disposed => mgr.current

(* A job reported STOPPED is not running in the shell, whoever stopped it   *)
(* and how many at once (job-store.ts:245-258).                             *)
StoppedMeansGone == \A j \in Jobs : rec[j] = "STOPPED" => sess.fg # j

(* A job whose shell is gone does not stay RUNNING, although a reconnect    *)
(* may have restored a live session meanwhile (job-store.ts:190-198).       *)
LossIsNoticed ==
    \A j \in Jobs : rec[j] = "RUNNING" /\ mgr.activeJob # j ~> rec[j] # "RUNNING"

(* A connection lost during an operation is looked after when the operation *)
(* is over (session-manager.ts:343-347).                                    *)
ReconnectNotForgotten == mgr.pending /\ ~Quiet ~> ~mgr.pending \/ mgr.disposed

(* Every turn ends, with at most one heal and one retry in it.              *)
EveryTurnEnds == ~Quiet ~> Quiet

(* Known not to hold: server.ts:607, a close releases "PTY, SSH channel,    *)
(* buffers and timers", nothing reconnects after it. The close event of the *)
(* wire that close() closes arms a timer again.                             *)
CloseReleasesTimers == [][Close => ~mgr'.timer]_vars

(* Known not to hold: session-manager.ts:326-327, "While set, no other      *)
(* command may use the shell", the `exit` of leave is not typed into a job. *)
(* leave and enter do not look at the claim.                                *)
LeaveRespectsJobs ==
    turn.at = "leaving" => mgr.activeJob = NoJob \/ sess.fg # mgr.activeJob
=============================================================================
