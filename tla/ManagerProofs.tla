----------------------------- MODULE ManagerProofs -----------------------------
(***************************************************************************)
(* For any jobs, any limits and any disturbances: the manager's variables  *)
(* keep their types, a job's claim has a session with an open wire, and an *)
(* open wire is that of the manager's session (IInv); a job that is called  *)
(* stopped is gone from the terminal (StopInv); and while nothing of an old *)
(* session comes late and only stops interrupt, no command is typed into a  *)
(* job (PtyInv).                                                           *)
(*                                                                         *)
(* IInv: the two claims need each other -- a job is typed at an open wire,  *)
(* and must then have a session -- and both need to know of the dialing     *)
(* connect that its session has no wire yet and is the manager's            *)
(* (DialIsKnown): it is there that a wire is opened.                       *)
(*                                                                         *)
(* StopInv: a stop is verified steps after its probe was answered, while    *)
(* other operations run.  What lasts from the one to the other is that the  *)
(* shell answered and the job does not come back (AnsweredMeansGone), for a *)
(* record is VERIFYING as long as its probe is out (ProbesAreOfStops) and   *)
(* only a job without a record is started (JobIsNew).                      *)
(*                                                                         *)
(* PtyInv: whoever types looks at the session's state and at the claim; the *)
(* terminal is neither.  The invariant says for each turn of the queue what *)
(* may run in the foreground (ShellIsFree, TurnKnows) and who answers for   *)
(* it when something does: the claim (Foreground, Claims).                 *)
(***************************************************************************)
EXTENDS SessionManager, TLAPS

DialIsKnown == turn.at = "dialing" => /\ sess.wire = "none"
                                      /\ mgr.current \/ mgr.disposed

IInv == TypeOK /\ ClaimHasShell /\ OpenWireIsCurrent /\ DialIsKnown

(* Helpers: what the operators on states, sessions, managers and turns     *)
(* return, and what they leave alone.                                      *)

(* setState ends in a state.                                               *)
LEMMA SetStateTyped ==
    ASSUME NEW s \in States, NEW t \in States
    PROVE  SetState(s, t) \in States
BY DEF SetState, States

(* A change of state touches neither wire nor foreground.                  *)
LEMMA BecameTyped ==
    ASSUME sess \in SessType, NEW t \in States
    PROVE  Became(t) \in SessType /\ Became(t).wire = sess.wire
BY SetStateTyped DEF Became, SessType

(* Nor does a command that is typed touch the wire.                        *)
LEMMA TypedTyped ==
    ASSUME sess \in SessType
    PROVE  Typed(sess) \in SessType /\ Typed(sess).wire = sess.wire
  <1>1. "RUNNING" \in States /\ SetState(sess.st, "RUNNING") \in States
    BY SetStateTyped DEF States, SessType
  <1>2. QED
    BY <1>1 DEF Typed, SessType

(* A session that is closed has no wire.                                   *)
LEMMA ClosedTyped ==
    ASSUME NEW st \in States
    PROVE  ClosedSession(st) \in SessType /\ ClosedSession(st).wire = "none"
  <1>1. "DISCONNECTED" \in States
    BY DEF States
  <1>2. Unplugged(st) \in States
    BY <1>1, SetStateTyped DEF Unplugged
  <1>3. QED
    BY <1>1, <1>2, SetStateTyped DEF ClosedSession, SessType

(* Nor has one whose connect has failed.                                   *)
LEMMA TornDownTyped ==
    ASSUME sess \in SessType
    PROVE  TornDown \in SessType /\ TornDown.wire = "none"
  <1>1. "DISCONNECTED" \in States /\ "ERROR" \in States /\ sess.st \in States
    BY DEF States, SessType
  <1>2. Unplugged(sess.st) \in States
    BY <1>1, SetStateTyped DEF Unplugged
  <1>3. QED
    BY <1>1, <1>2, SetStateTyped DEF TornDown, SessType

(* releasePtyOwnership drops the claims and nothing else.                  *)
LEMMA ReleasedTyped ==
    ASSUME NEW m \in MgrType
    PROVE  /\ Released(m) \in MgrType
           /\ Released(m).activeJob = NoJob
           /\ Released(m).disposed = m.disposed
           /\ Released(m).current = m.current
BY DEF Released, MgrType

(* scheduleReconnect never goes beyond the limit.                          *)
LEMMA ScheduledTyped ==
    ASSUME NEW m \in MgrType
    PROVE  /\ Scheduled(m) \in MgrType
           /\ Scheduled(m).activeJob = m.activeJob
           /\ Scheduled(m).disposed = m.disposed
           /\ Scheduled(m).current = m.current
  <1>1. CASE m.disposed \/ GivenUp(m)
    BY <1>1 DEF Scheduled
  <1>2. CASE ~(m.disposed \/ GivenUp(m))
    <2>1. m.attempts + 1 \in 0 .. ReconnectLimit
      BY <1>2, LimitAssumption DEF GivenUp, MgrType
    <2>2. Scheduled(m) = [m EXCEPT !.attempts = m.attempts + 1, !.timer = TRUE]
      BY <1>2 DEF Scheduled
    <2>3. QED
      BY <2>1, <2>2 DEF MgrType
  <1>3. QED
    BY <1>1, <1>2

(* onSessionLost leaves no claim behind, unless the manager is disposed.   *)
LEMMA LostTyped ==
    ASSUME NEW m \in MgrType, NEW p \in BOOLEAN
    PROVE  /\ Lost(m, p) \in MgrType
           /\ Lost(m, p).activeJob = (IF m.disposed THEN m.activeJob ELSE NoJob)
           /\ Lost(m, p).disposed = m.disposed
           /\ Lost(m, p).current = m.current
  <1> DEFINE R == Released(m)
  <1>1. /\ R \in MgrType /\ R.activeJob = NoJob
        /\ R.disposed = m.disposed /\ R.current = m.current
    BY ReleasedTyped
  <1>2. /\ Scheduled(R) \in MgrType /\ Scheduled(R).activeJob = NoJob
        /\ Scheduled(R).disposed = m.disposed /\ Scheduled(R).current = m.current
    BY <1>1, ScheduledTyped
  <1>3. /\ [R EXCEPT !.pending = TRUE] \in MgrType
        /\ [R EXCEPT !.pending = TRUE].activeJob = NoJob
        /\ [R EXCEPT !.pending = TRUE].disposed = m.disposed
        /\ [R EXCEPT !.pending = TRUE].current = m.current
    BY <1>1 DEF MgrType
  <1>4. m.disposed \in BOOLEAN
    BY DEF MgrType
  <1> HIDE DEF R
  <1>5. CASE m.disposed
    BY <1>5 DEF Lost
  <1>6. CASE ~m.disposed
    <2>1. Lost(m, p) \in {R, [R EXCEPT !.pending = TRUE], Scheduled(R)}
      BY <1>6 DEF Lost, R
    <2>2. QED
      BY <1>1, <1>2, <1>3, <1>6, <2>1
  <1>7. QED
    BY <1>5, <1>6

(* Closing a wire that is there is a loss; without one nothing happens.    *)
LEMMA AfterCloseTyped ==
    ASSUME NEW m \in MgrType
    PROVE  /\ AfterClose(m) \in MgrType
           /\ AfterClose(m).activeJob
                = (IF m.disposed \/ sess.wire = "none" THEN m.activeJob ELSE NoJob)
           /\ AfterClose(m).disposed = m.disposed
           /\ AfterClose(m).current = m.current
BY LostTyped DEF AfterClose, MgrType

(* No operation under way is a typed turn.                                 *)
LEMMA NoTurnTyped == NoTurn \in TurnType /\ NoTurn.at = "idle"
  <1>1. 0 \in 0 .. BatchSize
    BY LimitAssumption
  <1>2. QED
    BY <1>1 DEF NoTurn, TurnType, Ops, Stages

(* A turn moves to a stage.                                                *)
LEMMA MoveTyped ==
    ASSUME NEW t \in TurnType, NEW a \in Stages
    PROVE  Move(t, a) \in TurnType /\ Move(t, a).at = a
BY DEF Move, TurnType

(* A turn goes on as it is told to.                                        *)
LEMMA TurnTyped ==
    ASSUME TypeOK, NEW t \in TurnType, Turn(t)
    PROVE  turn' = t /\ flush' \in BOOLEAN
BY DEF Turn, Settling, TypeOK, MgrType

(* A failed entry ends the turn or pauses it.                              *)
LEMMA FailingTyped ==
    ASSUME NEW t \in TurnType, NEW f \in Failing(t)
    PROVE  f \in TurnType /\ f.at # "dialing"
  <1>1. "pause" \in Stages
    BY DEF Stages
  <1>2. QED
    BY <1>1, NoTurnTyped, MoveTyped DEF Failing

(* Navigation ends in typed turns, none of which dials, and in states.     *)
LEMMA StepsTyped ==
    ASSUME NEW t \in TurnType, NEW st \in States, NEW s \in Steps(t, st)
    PROVE  s[1] \in TurnType /\ s[1].at # "dialing" /\ s[2] \in States
  <1>1. {"approving", "leaving", "entering"} \subseteq Stages
    BY DEF Stages
  <1>2. {"ENTERING", "UNKNOWN"} \subseteq States
    BY DEF States
  <1>3. CASE st = "SHELL"
    <2>1. s \in {<<NoTurn, st>>, <<Move(t, "approving"), st>>, <<Move(t, "leaving"), st>>}
      BY <1>3 DEF Steps
    <2>2. QED
      BY SMTT(30), <1>1, <2>1, NoTurnTyped, MoveTyped
  <1>4. CASE st = "MENU"
    <2>1. s = <<Move(t, "entering"), "ENTERING">> \/ \E f \in Failing(t) : s = <<f, st>>
      BY <1>4 DEF Steps
    <2>2. QED
      BY <1>1, <1>2, <2>1, MoveTyped, FailingTyped
  <1>5. CASE st = "ENTERING"
    <2>1. s \in {<<Move(t, "entering"), st>>, <<NoTurn, st>>, <<NoTurn, "UNKNOWN">>}
      BY <1>5 DEF Steps
    <2>2. QED
      BY <1>1, <1>2, <2>1, NoTurnTyped, MoveTyped
  <1>6. CASE st \notin {"SHELL", "MENU", "ENTERING"}
    <2>1. s = <<NoTurn, st>>
      BY <1>6 DEF Steps
    <2>2. QED
      BY <2>1, NoTurnTyped
  <1>7. QED
    BY <1>3, <1>4, <1>5, <1>6

(* So it leaves the wire alone.                                            *)
LEMMA NavigateTyped ==
    ASSUME TypeOK, NEW t \in TurnType, NEW st \in States, Navigate(t, st)
    PROVE  /\ turn' \in TurnType /\ turn'.at # "dialing" /\ flush' \in BOOLEAN
           /\ sess' \in SessType /\ sess'.wire = sess.wire
  <1>1. PICK s \in Steps(t, st) : Turn(s[1]) /\ sess' = [sess EXCEPT !.st = s[2]]
    BY DEF Navigate
  <1>2. s[1] \in TurnType /\ s[1].at # "dialing" /\ s[2] \in States
    BY StepsTyped
  <1>3. turn' = s[1] /\ flush' \in BOOLEAN
    BY <1>1, <1>2, TurnTyped
  <1>4. sess' \in SessType /\ sess'.wire = sess.wire
    BY <1>1, <1>2 DEF TypeOK, SessType
  <1>5. QED
    BY <1>2, <1>3, <1>4

(* A step that moves nothing but the turn, to a stage that does not dial.  *)
LEMMA TurnOnly ==
    ASSUME IInv, turn' \in TurnType, turn'.at # "dialing", flush' \in BOOLEAN,
           sess' \in SessType, sess'.wire = sess.wire,
           UNCHANGED <<mgr, late, stops, irq, rec, faults>>
    PROVE  IInv'
BY DEF IInv, TypeOK, ClaimHasShell, OpenWireIsCurrent, DialIsKnown

(* A step that leaves manager and wire alone, and does not dial anew.      *)
LEMMA ClaimsKept ==
    ASSUME IInv, TypeOK', sess'.wire = sess.wire,
           mgr'.current = mgr.current, mgr'.disposed = mgr.disposed,
           mgr'.activeJob \in {mgr.activeJob, NoJob},
           turn'.at # "dialing" \/ turn' = turn
    PROVE  IInv'
BY DEF IInv, ClaimHasShell, OpenWireIsCurrent, DialIsKnown

(* A step that leaves no wire and no claim of a living manager.            *)
LEMMA NothingOpen ==
    ASSUME IInv, TypeOK', sess'.wire # "open",
           mgr'.activeJob # NoJob => mgr'.disposed,
           turn'.at # "dialing"
    PROVE  IInv'
BY DEF IInv, ClaimHasShell, OpenWireIsCurrent, DialIsKnown

(* The starts of turns.                                                    *)
LEMMA StartingKeeps == ASSUME IInv, Starting PROVE IInv'
  <1> USE DEF IInv
  <1>1. CASE Refused
    <2>1. TypeOK'
      BY <1>1 DEF Refused, Settling, TypeOK, MgrType
    <2>2. QED
      BY <1>1, <2>1, ClaimsKept DEF Refused
  <1>2. ASSUME NEW t \in TurnType, ConnectLocked(t),
               UNCHANGED <<late, stops, irq, rec, faults>>
        PROVE  IInv'
    <2>1. "password" \in Stages
      BY DEF Stages
    <2>2. PICK u \in TurnType : u.at # "dialing" /\ Turn(u)
      BY <1>2, <2>1, NoTurnTyped, MoveTyped DEF ConnectLocked
    <2>3. turn' = u /\ flush' \in BOOLEAN
      BY <2>2, TurnTyped
    <2>4. TypeOK'
      BY <1>2, <2>3 DEF ConnectLocked, TypeOK, MgrType
    <2>5. QED
      BY <1>2, <2>2, <2>3, <2>4, ClaimsKept DEF ConnectLocked, TypeOK, MgrType
  <1>3. CASE StartConnect
    <2>1. CASE LiveNow
      <3>1. turn' = NoTurn /\ flush' \in BOOLEAN
        BY <1>3, <2>1, NoTurnTyped, TurnTyped DEF StartConnect
      <3>2. TypeOK'
        BY ZenonT(40), <1>3, <2>1, <3>1, NoTurnTyped DEF StartConnect, TypeOK, MgrType
      <3>3. QED
        BY <1>3, <2>1, <3>1, <3>2, NoTurnTyped, ClaimsKept
           DEF StartConnect, TypeOK, MgrType
    <2>2. CASE ~LiveNow
      <3>1. [NoTurn EXCEPT !.op = "connect"] \in TurnType
        BY NoTurnTyped DEF TurnType, Ops
      <3>2. QED
        BY <1>2, <1>3, <2>2, <3>1 DEF StartConnect
    <2>3. QED
      BY <2>1, <2>2
  <1>4. ASSUME NEW t \in TurnType, StartNavigation(t)
        PROVE  IInv'
    <2>1. CASE LiveNow /\ t.op = "list"
      <3>1. "listing" \in Stages
        BY DEF Stages
      <3>2. turn' = Move(t, "listing") /\ flush' \in BOOLEAN
        BY <1>4, <2>1, <3>1, MoveTyped, TurnTyped DEF StartNavigation
      <3>3. QED
        BY <1>4, <2>1, <3>1, <3>2, MoveTyped, TurnOnly DEF StartNavigation, TypeOK
    <2>2. CASE LiveNow /\ t.op # "list"
      <3>1. Navigate(t, sess.st) /\ sess.st \in States
        BY <1>4, <2>2 DEF StartNavigation, TypeOK, SessType
      <3>2. QED
        BY <1>4, <2>2, <3>1, NavigateTyped, TurnOnly DEF StartNavigation
    <2>3. CASE ~LiveNow
      BY <1>2, <1>4, <2>3 DEF StartNavigation
    <2>4. QED
      BY <2>1, <2>2, <2>3
  <1>5. CASE StartRun
    <2>1. [NoTurn EXCEPT !.op = "run"] \in TurnType
      BY NoTurnTyped DEF TurnType, Ops
    <2>2. QED
      BY <1>4, <1>5, <2>1 DEF StartRun
  <1>6. CASE StartBatch
    <2>1. BatchSize \in 0 .. BatchSize
      BY LimitAssumption
    <2>2. [NoTurn EXCEPT !.op = "batch", !.left = BatchSize] \in TurnType
      BY <2>1, NoTurnTyped DEF TurnType, Ops
    <2>3. QED
      BY <1>4, <1>6, <2>2 DEF StartBatch
  <1>7. CASE StartList
    <2>1. [NoTurn EXCEPT !.op = "list"] \in TurnType
      BY NoTurnTyped DEF TurnType, Ops
    <2>2. QED
      BY <1>4, <1>7, <2>1 DEF StartList
  <1>8. ASSUME NEW j \in Jobs, StartJob(j) PROVE IInv'
    <2>1. [NoTurn EXCEPT !.op = "job", !.job = j] \in TurnType
      BY NoTurnTyped DEF TurnType, Ops
    <2>2. QED
      BY <1>4, <1>8, <2>1 DEF StartJob
  <1>9. CASE StartEnter
    <2>1. [NoTurn EXCEPT !.op = "enter"] \in TurnType
      BY NoTurnTyped DEF TurnType, Ops
    <2>2. sess.st \in States
      BY DEF TypeOK, SessType
    <2>3. QED
      BY <1>9, <2>1, <2>2, NavigateTyped, TurnOnly DEF StartEnter
  <1>10. CASE StartLeave
    <2>1. [NoTurn EXCEPT !.op = "leave", !.at = "leaving"] \in TurnType
      BY NoTurnTyped DEF TurnType, Ops, Stages
    <2>2. turn' = [NoTurn EXCEPT !.op = "leave", !.at = "leaving"] /\ flush' \in BOOLEAN
      BY <1>10, <2>1, TurnTyped DEF StartLeave
    <2>3. turn'.at # "dialing"
      BY <2>2, NoTurnTyped DEF TurnType
    <2>4. QED
      BY <1>10, <2>1, <2>2, <2>3, TurnOnly DEF StartLeave, TypeOK
  <1>11. CASE StartExec
    <2>1. [NoTurn EXCEPT !.op = "exec", !.at = "executing"] \in TurnType
      BY NoTurnTyped DEF TurnType, Ops, Stages
    <2>2. turn' = [NoTurn EXCEPT !.op = "exec", !.at = "executing"] /\ flush' \in BOOLEAN
      BY <1>11, <2>1, TurnTyped DEF StartExec
    <2>3. turn'.at # "dialing"
      BY <2>2, NoTurnTyped DEF TurnType
    <2>4. sess' \in SessType /\ sess'.wire = sess.wire
      BY <1>11, TypedTyped DEF StartExec, TypeOK
    <2>5. QED
      BY <1>11, <2>1, <2>2, <2>3, <2>4, TurnOnly DEF StartExec
  <1>12. CASE Close
    <2> DEFINE m == [Released(mgr) EXCEPT !.timer = FALSE, !.current = FALSE]
    <2>1. m \in MgrType /\ m.activeJob = NoJob /\ m.disposed = mgr.disposed
      BY ReleasedTyped DEF TypeOK, MgrType
    <2>2. /\ AfterClose(m) \in MgrType /\ AfterClose(m).activeJob = NoJob
          /\ AfterClose(m).disposed = mgr.disposed
      BY <2>1, AfterCloseTyped
    <2>3. 0 \in 0 .. ReconnectLimit
      BY LimitAssumption
    <2> HIDE DEF m
    <2>4. CASE mgr.current
      <3>1. mgr' = [AfterClose(m) EXCEPT !.attempts = 0]
        BY <1>12, <2>4 DEF Close, m
      <3>2. mgr' \in MgrType /\ mgr'.activeJob = NoJob
        BY <2>2, <2>3, <3>1 DEF MgrType
      <3>3. sess' \in SessType /\ sess'.wire = "none" /\ late' = Owed
        BY <1>12, <2>4, ClosedTyped DEF Close, TypeOK, SessType
      <3>4. TypeOK'
        BY <1>12, <3>2, <3>3 DEF Close, Settling, Owed, TypeOK
      <3>5. turn'.at # "dialing"
        BY <1>12, NoTurnTyped DEF Close, Quiet
      <3>6. QED
        BY <3>2, <3>3, <3>4, <3>5, NothingOpen
    <2>5. CASE ~mgr.current
      <3>1. mgr' = [m EXCEPT !.attempts = 0] /\ UNCHANGED <<sess, late>>
        BY <1>12, <2>5 DEF Close, m
      <3>2. mgr' \in MgrType /\ mgr'.activeJob = NoJob /\ mgr'.disposed = mgr.disposed
        BY <2>1, <2>3, <3>1 DEF MgrType
      <3>3. mgr'.current = FALSE
        BY <3>1, ReleasedTyped DEF m, TypeOK, MgrType
      <3>4. TypeOK'
        BY <1>12, <3>1, <3>2 DEF Close, Settling, TypeOK, MgrType
      <3>5. QED
        BY <1>12, <2>5, <3>1, <3>2, <3>3, <3>4, ClaimsKept DEF Close, TypeOK, MgrType
    <2>6. QED
      BY <2>4, <2>5
  <1>13. QED
    BY <1>1, <1>3, <1>5, <1>6, <1>7, <1>8, <1>9, <1>10, <1>11, <1>12 DEF Starting

(* The steps of connect.                                                   *)
LEMMA ConnectingKeeps ==
    ASSUME IInv,
           NoPassword \/ NewSession \/ FactoryRejects \/ Attach \/ MenuSeen \/ MenuFails
    PROVE  IInv'
  <1> USE DEF IInv
  <1>1. CASE NoPassword
    <2>1. turn' = NoTurn /\ flush' \in BOOLEAN
      BY <1>1, NoTurnTyped, TurnTyped DEF NoPassword
    <2>2. QED
      BY <1>1, <2>1, NoTurnTyped, TurnOnly DEF NoPassword, TypeOK
  <1>2. CASE NewSession
    <2> DEFINE m == IF mgr.current THEN AfterClose(mgr) ELSE mgr
    <2>1. m \in MgrType
      BY AfterCloseTyped DEF TypeOK
    <2>2. mgr' = [Released(m) EXCEPT !.current = TRUE]
      BY <1>2 DEF NewSession
    <2> HIDE DEF m
    <2>3. mgr' \in MgrType /\ mgr'.current /\ mgr'.activeJob = NoJob
      BY <2>1, <2>2, ReleasedTyped DEF MgrType
    <2>4. sess' \in SessType /\ sess'.wire = "none"
      BY <1>2 DEF NewSession, SessType, States
    <2>5. \A q \in Probes : Aged(q) \in Probes
      BY DEF Aged, Probes, OnNewest
    <2>6. irq' \in Probes /\ stops' \in [Jobs -> Probes]
      BY <1>2, <2>5 DEF NewSession, TypeOK
    <2>7. turn \in TurnType /\ "dialing" \in Stages
      BY DEF TypeOK, Stages
    <2>8. turn' \in TurnType /\ flush' \in BOOLEAN
      BY <1>2, <2>7, MoveTyped, TurnTyped DEF NewSession
    <2>9. TypeOK'
      BY <1>2, <2>3, <2>4, <2>6, <2>8 DEF NewSession, Owed, TypeOK
    <2>10. QED
      BY <2>3, <2>4, <2>9 DEF ClaimHasShell, OpenWireIsCurrent, DialIsKnown
  <1>3. CASE FactoryRejects
    <2>1. turn' = NoTurn /\ flush' \in BOOLEAN
      BY <1>3, NoTurnTyped, TurnTyped DEF FactoryRejects
    <2>2. sess' \in SessType /\ sess'.wire = "none"
      BY <1>3, TornDownTyped DEF FactoryRejects, TypeOK
    <2>3. /\ mgr' \in MgrType /\ mgr'.activeJob = mgr.activeJob
          /\ mgr'.disposed = mgr.disposed
      BY <1>3 DEF FactoryRejects, TypeOK, MgrType
    <2>4. mgr.activeJob # NoJob => mgr.disposed
      BY <1>3 DEF FactoryRejects, At, DialIsKnown, ClaimHasShell
    <2>5. TypeOK'
      BY <1>3, <2>1, <2>2, <2>3, NoTurnTyped DEF FactoryRejects, TypeOK
    <2>6. QED
      BY <2>1, <2>2, <2>3, <2>4, <2>5, NoTurnTyped, NothingOpen
  <1>4. CASE Attach
    <2>1. "menuWait" \in Stages /\ turn \in TurnType
      BY DEF Stages, TypeOK
    <2>2. turn' = Move(turn, "menuWait") /\ flush' \in BOOLEAN
      BY <1>4, <2>1, MoveTyped, TurnTyped DEF Attach
    <2>3. sess' \in SessType
      BY <1>4 DEF Attach, TypeOK, SessType
    <2>4. TypeOK'
      BY <1>4, <2>1, <2>2, <2>3, MoveTyped DEF Attach, TypeOK
    <2>5. mgr.current \/ mgr.disposed
      BY <1>4 DEF Attach, At, DialIsKnown
    <2>6. turn'.at = "menuWait" /\ sess'.wire = "open"
      BY <1>4, <2>1, <2>2, MoveTyped DEF Attach, TypeOK, SessType
    <2>7. QED
      BY <1>4, <2>4, <2>5, <2>6
         DEF Attach, ClaimHasShell, OpenWireIsCurrent, DialIsKnown
  <1>5. CASE MenuSeen
    <2> DEFINE st == SetState(sess.st, "MENU")
    <2>1. st \in States
      BY SetStateTyped DEF States, TypeOK, SessType
    <2>2. /\ turn' \in TurnType /\ turn'.at # "dialing" /\ flush' \in BOOLEAN
          /\ sess' \in SessType /\ sess'.wire = sess.wire
      <3>1. CASE Turn(NoTurn) /\ sess' = [sess EXCEPT !.st = st]
        BY <2>1, <3>1, NoTurnTyped, TurnTyped DEF TypeOK, SessType
      <3>2. CASE Turn(Move(turn, "listing")) /\ sess' = [sess EXCEPT !.st = st]
        <4>1. "listing" \in Stages /\ turn \in TurnType
          BY DEF Stages, TypeOK
        <4>2. turn' = Move(turn, "listing") /\ flush' \in BOOLEAN
          BY <3>2, <4>1, MoveTyped, TurnTyped
        <4>3. QED
          BY <2>1, <3>2, <4>1, <4>2, MoveTyped DEF TypeOK, SessType
      <3>3. CASE Navigate(turn, st)
        BY <2>1, <3>3, NavigateTyped DEF TypeOK
      <3>4. QED
        BY <1>5, <3>1, <3>2, <3>3 DEF MenuSeen
    <2>3. 0 \in 0 .. ReconnectLimit
      BY LimitAssumption
    <2>4. /\ mgr' \in MgrType /\ mgr'.activeJob = mgr.activeJob
          /\ mgr'.current = mgr.current /\ mgr'.disposed = mgr.disposed
      BY <1>5, <2>3 DEF MenuSeen, TypeOK, MgrType
    <2>5. TypeOK'
      BY <1>5, <2>2, <2>4 DEF MenuSeen, TypeOK
    <2>6. QED
      BY <2>2, <2>4, <2>5, ClaimsKept
  <1>6. CASE MenuFails
    <2>1. turn' = NoTurn /\ flush' \in BOOLEAN
      BY <1>6, NoTurnTyped, TurnTyped DEF MenuFails
    <2>2. sess' \in SessType /\ sess'.wire = "none"
      BY <1>6, TornDownTyped DEF MenuFails, TypeOK
    <2>3. /\ AfterClose(mgr) \in MgrType
          /\ AfterClose(mgr).activeJob # NoJob => mgr.disposed
          /\ AfterClose(mgr).disposed = mgr.disposed
      BY AfterCloseTyped DEF TypeOK, ClaimHasShell
    <2>4. mgr' \in MgrType /\ (mgr'.activeJob # NoJob => mgr'.disposed)
      BY <1>6, <2>3 DEF MenuFails, MgrType
    <2>5. TypeOK'
      BY <1>6, <2>1, <2>2, <2>4, NoTurnTyped DEF MenuFails, Owed, TypeOK
    <2>6. QED
      BY <2>1, <2>2, <2>4, <2>5, NoTurnTyped, NothingOpen
  <1>7. QED
    BY <1>1, <1>2, <1>3, <1>4, <1>5, <1>6

(* Navigation and the commands of a turn.                                  *)
LEMMA WorkKeeps ==
    ASSUME IInv,
           \/ Listed \/ Entered \/ EntryFails \/ PauseEnds \/ Left \/ LeaveAborted
           \/ LeaveFails \/ Denied \/ Approved \/ JobTyped \/ JobStarted \/ Executed
    PROVE  IInv'
  <1> USE DEF IInv
  <1>1. {"SHELL", "MENU", "UNKNOWN", "DISCONNECTED", "ENTERING"} \subseteq States
    BY DEF States
  <1>2. /\ turn \in TurnType /\ sess \in SessType /\ sess.st \in States
        /\ mgr \in MgrType
    BY DEF TypeOK, SessType
  <1>3. \A t \in Onward(turn) : t \in TurnType /\ t.at # "dialing"
    <2>1. "approving" \in Stages
      BY DEF Stages
    <2>2. ASSUME turn.left > 1
          PROVE  /\ [Move(turn, "approving") EXCEPT !.left = @ - 1] \in TurnType
                 /\ [Move(turn, "approving") EXCEPT !.left = @ - 1].at # "dialing"
      <3>1. turn.left - 1 \in 0 .. BatchSize
        BY <1>2, <2>2, LimitAssumption DEF TurnType
      <3>2. Move(turn, "approving").left = turn.left
        BY <1>2 DEF Move, TurnType
      <3>3. QED
        BY <1>2, <2>1, <3>1, <3>2, MoveTyped DEF TurnType
    <2>3. QED
      BY <2>2, NoTurnTyped DEF Onward
  <1>4. CASE Listed
    <2>1. turn' = NoTurn /\ flush' \in BOOLEAN
      BY <1>4, NoTurnTyped, TurnTyped DEF Listed
    <2>2. sess' \in SessType /\ sess'.wire = sess.wire
      BY <1>1, <1>2, <1>4, BecameTyped DEF Listed
    <2>3. QED
      BY <1>4, <2>1, <2>2, NoTurnTyped, TurnOnly DEF Listed
  <1>5. CASE Entered
    <2>1. "approving" \in Stages
      BY DEF Stages
    <2>2. PICK t \in TurnType : t.at # "dialing" /\ Turn(t)
      BY <1>2, <1>5, <2>1, NoTurnTyped, MoveTyped DEF Entered
    <2>3. turn' = t /\ flush' \in BOOLEAN
      BY <2>2, TurnTyped
    <2>4. sess' \in SessType /\ sess'.wire = sess.wire
      BY <1>1, <1>2, <1>5, BecameTyped DEF Entered
    <2>5. QED
      BY <1>5, <2>2, <2>3, <2>4, TurnOnly DEF Entered
  <1>6. CASE EntryFails
    <2>1. PICK t \in Failing(turn) : Turn(t)
      BY <1>6 DEF EntryFails
    <2>2. t \in TurnType /\ t.at # "dialing"
      BY <1>2, FailingTyped
    <2>3. turn' = t /\ flush' \in BOOLEAN
      BY <2>1, <2>2, TurnTyped
    <2>4. sess' \in {sess} \cup {Became(s) : s \in States}
      BY <1>1, <1>6 DEF EntryFails, FailedEntry
    <2>5. sess' \in SessType /\ sess'.wire = sess.wire
      BY <1>2, <2>4, BecameTyped
    <2>6. QED
      BY <1>6, <2>2, <2>3, <2>5, TurnOnly DEF EntryFails
  <1>7. CASE PauseEnds
    <2>1. CASE turn.healed
      <3>1. turn' = NoTurn /\ flush' \in BOOLEAN
        BY <1>7, <2>1, NoTurnTyped, TurnTyped DEF PauseEnds
      <3>2. QED
        BY <1>2, <1>7, <2>1, <3>1, NoTurnTyped, TurnOnly DEF PauseEnds
    <2>2. CASE ~turn.healed
      <3>1. [turn EXCEPT !.retried = TRUE] \in TurnType
        BY <1>2 DEF TurnType
      <3>2. QED
        BY <1>2, <1>7, <2>2, <3>1, NavigateTyped, TurnOnly DEF PauseEnds
    <2>3. QED
      BY <2>1, <2>2
  <1>8. CASE Left
    <2> DEFINE st == SetState(sess.st, "MENU")
    <2>1. st \in States
      BY <1>1, <1>2, SetStateTyped
    <2>2. CASE turn.op = "leave"
      <3>1. turn' = NoTurn /\ flush' \in BOOLEAN
        BY <1>8, <2>2, NoTurnTyped, TurnTyped DEF Left
      <3>2. sess' \in SessType /\ sess'.wire = sess.wire
        BY <1>2, <1>8, <2>1, <2>2 DEF Left, SessType
      <3>3. QED
        BY <1>8, <3>1, <3>2, NoTurnTyped, TurnOnly DEF Left
    <2>3. CASE turn.op # "leave"
      BY <1>2, <1>8, <2>1, <2>3, NavigateTyped, TurnOnly DEF Left
    <2>4. QED
      BY <2>2, <2>3
  <1>9. CASE LeaveAborted
    <2>1. turn' = NoTurn /\ flush' \in BOOLEAN
      BY <1>9, NoTurnTyped, TurnTyped DEF LeaveAborted
    <2>2. QED
      BY <1>2, <1>9, <2>1, NoTurnTyped, TurnOnly DEF LeaveAborted
  <1>10. CASE LeaveFails
    <2> DEFINE m    == [mgr EXCEPT !.current = FALSE]
               lost == IF mgr.current THEN AfterClose(m) ELSE m
    <2>1. m \in MgrType /\ m.current = FALSE /\ m.disposed = mgr.disposed
      BY <1>2 DEF MgrType
    <2>2. lost \in MgrType /\ lost.current = FALSE /\ lost.disposed = mgr.disposed
      BY <2>1, AfterCloseTyped
    <2>3. mgr' = [Released(lost) EXCEPT !.timer = FALSE]
      BY <1>10 DEF LeaveFails
    <2> HIDE DEF lost
    <2>4. mgr' \in MgrType /\ mgr'.activeJob = NoJob /\ mgr'.disposed = mgr.disposed
      BY <2>2, <2>3, ReleasedTyped DEF MgrType
    <2>5. "password" \in Stages
      BY DEF Stages
    <2>6. PICK t \in TurnType : t.at # "dialing" /\ Turn(t)
      <3>1. /\ [turn EXCEPT !.at = "password", !.healed = TRUE] \in TurnType
            /\ [turn EXCEPT !.at = "password", !.healed = TRUE].at # "dialing"
        BY <1>2, <2>5 DEF TurnType
      <3>2. QED
        BY <1>10, <3>1, NoTurnTyped DEF LeaveFails
    <2>7. turn' = t /\ flush' \in BOOLEAN
      BY <2>6, TurnTyped
    <2>8. SetState(sess.st, "UNKNOWN") \in States
      BY <1>1, <1>2, SetStateTyped
    <2>9. sess' \in SessType /\ (mgr.current => sess'.wire = "none")
                             /\ (~mgr.current => sess'.wire = sess.wire)
      BY <1>1, <1>2, <1>10, <2>8, ClosedTyped, BecameTyped DEF LeaveFails
    <2>10. TypeOK'
      BY <1>10, <2>4, <2>6, <2>7, <2>9 DEF LeaveFails, Owed, TypeOK
    <2>11. sess'.wire = "open" => mgr'.disposed
      BY <1>2, <2>4, <2>9 DEF OpenWireIsCurrent, MgrType
    <2>12. QED
      BY <2>4, <2>6, <2>7, <2>10, <2>11
         DEF ClaimHasShell, OpenWireIsCurrent, DialIsKnown
  <1>11. CASE Denied
    <2>1. PICK t \in Onward(turn) : Turn(t)
      BY <1>11 DEF Denied
    <2>2. turn' = t /\ flush' \in BOOLEAN
      BY <1>3, <2>1, TurnTyped
    <2>3. QED
      BY <1>2, <1>3, <1>11, <2>1, <2>2, TurnOnly DEF Denied
  <1>12. CASE Approved
    <2>1. "executing" \in Stages
      BY DEF Stages
    <2>2. turn' = Move(turn, "executing") /\ flush' \in BOOLEAN
      BY <1>2, <1>12, <2>1, MoveTyped, TurnTyped DEF Approved
    <2>3. sess' \in SessType /\ sess'.wire = sess.wire
      BY <1>2, <1>12, TypedTyped DEF Approved
    <2>4. QED
      BY <1>2, <1>12, <2>1, <2>2, <2>3, MoveTyped, TurnOnly DEF Approved
  <1>13. CASE JobTyped
    <2>1. "auditing" \in Stages
      BY DEF Stages
    <2>2. turn' = Move(turn, "auditing") /\ flush' \in BOOLEAN
      BY <1>2, <1>13, <2>1, MoveTyped, TurnTyped DEF JobTyped
    <2>3. sess' \in SessType /\ sess'.wire = "open"
      BY <1>2, <1>13 DEF JobTyped, SessType, TurnType
    <2>4. /\ mgr' \in MgrType /\ mgr'.current = mgr.current
          /\ mgr'.disposed = mgr.disposed
      BY <1>2, <1>13 DEF JobTyped, MgrType, TurnType
    <2>5. TypeOK'
      BY <1>2, <1>13, <2>1, <2>2, <2>3, <2>4, MoveTyped DEF JobTyped, TypeOK
    <2>6. mgr.current \/ mgr.disposed
      BY <1>2, <1>13 DEF JobTyped, OpenWireIsCurrent
    <2>7. turn'.at # "dialing"
      BY <1>2, <2>1, <2>2, MoveTyped
    <2>8. QED
      BY <2>3, <2>4, <2>5, <2>6, <2>7 DEF ClaimHasShell, OpenWireIsCurrent, DialIsKnown
  <1>14. CASE JobStarted
    <2>1. turn' = NoTurn /\ flush' \in BOOLEAN
      BY <1>14, NoTurnTyped, TurnTyped DEF JobStarted
    <2>2. TypeOK'
      BY <1>14, <2>1, NoTurnTyped DEF JobStarted, TypeOK
    <2>3. QED
      BY <1>14, <2>1, <2>2, NoTurnTyped, ClaimsKept DEF JobStarted
  <1>15. CASE Executed
    <2>1. PICK t \in Onward(turn) : Turn(t)
      BY <1>15 DEF Executed
    <2>2. turn' = t /\ flush' \in BOOLEAN
      BY <1>3, <2>1, TurnTyped
    <2>3. sess' \in SessType /\ sess'.wire = sess.wire
      BY <1>1, <1>2, <1>15, BecameTyped DEF Executed
    <2>4. QED
      BY <1>3, <1>15, <2>1, <2>2, <2>3, TurnOnly DEF Executed
  <1>16. QED
    BY <1>4, <1>5, <1>6, <1>7, <1>8, <1>9, <1>10, <1>11, <1>12, <1>13, <1>14, <1>15

(* What does not queue.                                                    *)
LEMMA OutsideKeeps == ASSUME IInv, Outside PROVE IInv'
  <1> USE DEF IInv
  <1>1. {"SHELL", "UNKNOWN", "DISCONNECTED"} \subseteq States
    BY DEF States
  <1>2. /\ turn \in TurnType /\ sess \in SessType /\ sess.st \in States
        /\ mgr \in MgrType
    BY DEF TypeOK, SessType
  <1>3. ASSUME NEW q \in BOOLEAN
        PROVE  /\ Lost(mgr, q) \in MgrType
               /\ Lost(mgr, q).activeJob \in {mgr.activeJob, NoJob}
               /\ Lost(mgr, q).activeJob # NoJob => mgr.disposed
               /\ Lost(mgr, q).disposed = mgr.disposed
               /\ Lost(mgr, q).current = mgr.current
    BY <1>2, LostTyped
  <1>4. \A op \in PendingOps : op \in BOOLEAN
    BY DEF PendingOps
  <1>5. ASSUME NEW q, ProbeEnds(q)
        PROVE  sess' \in SessType /\ sess'.wire = sess.wire
    BY <1>1, <1>2, <1>5, BecameTyped DEF ProbeEnds
  <1>6. CASE TimerFires
    <2>1. TypeOK'
      BY <1>6 DEF TimerFires, TypeOK, MgrType
    <2>2. QED
      BY <1>2, <1>6, <2>1, ClaimsKept DEF TimerFires, MgrType
  <1>7. CASE Dispose
    <2>1. mgr' \in MgrType /\ mgr'.disposed
      BY <1>2, <1>7 DEF Dispose, MgrType
    <2>2. sess' \in SessType /\ sess'.wire \in {"none", sess.wire}
      BY <1>2, <1>7, ClosedTyped DEF Dispose
    <2>3. TypeOK'
      BY <1>7, <2>1, <2>2 DEF Dispose, TypeOK
    <2>4. turn' = turn
      BY <1>7 DEF Dispose
    <2>5. QED
      BY <2>1, <2>2, <2>3, <2>4 DEF ClaimHasShell, OpenWireIsCurrent, DialIsKnown
  <1>8. CASE WireDrops
    <2>1. PICK op \in BOOLEAN : mgr' = Lost(mgr, op)
      BY <1>4, <1>8 DEF WireDrops
    <2>2. sess' \in SessType /\ sess'.wire = "closed"
      BY <1>1, <1>2, <1>8, BecameTyped DEF WireDrops, SessType
    <2>3. TypeOK'
      BY <1>3, <1>8, <2>1, <2>2 DEF WireDrops, Owed, TypeOK
    <2>4. turn'.at # "dialing"
      BY <1>8 DEF WireDrops, DialIsKnown
    <2>5. QED
      BY <1>3, <2>1, <2>2, <2>3, <2>4, NothingOpen
  <1>9. CASE LateClose
    <2>1. PICK op \in BOOLEAN : mgr' = Lost(mgr, op)
      BY <1>4, <1>9 DEF LateClose
    <2>2. sess' \in SessType /\ sess'.wire = sess.wire
      BY <1>1, <1>2, <1>9, BecameTyped DEF LateClose
    <2>3. TypeOK'
      BY <1>3, <1>9, <2>1, <2>2 DEF LateClose, TypeOK
    <2>4. QED
      BY <1>3, <1>9, <2>1, <2>2, <2>3, ClaimsKept DEF LateClose
  <1>10. CASE FarEnd
    <2>1. sess' \in SessType /\ sess'.wire = sess.wire
      BY <1>2, <1>10 DEF FarEnd, SessType
    <2>2. TypeOK'
      BY <1>10, <2>1 DEF FarEnd, TypeOK
    <2>3. QED
      BY <1>10, <2>1, <2>2, ClaimsKept DEF FarEnd
  <1>11. CASE Interrupt
    <2>1. TypeOK'
      BY <1>11 DEF Interrupt, TypeOK, Probes, OnNewest
    <2>2. QED
      BY <1>11, <2>1, ClaimsKept DEF Interrupt
  <1>12. CASE Answers
    <2>1. TypeOK'
      BY <1>12 DEF Answers, TypeOK, Probes, OnNewest
    <2>2. QED
      BY <1>12, <2>1, ClaimsKept DEF Answers
  <1>13. CASE InterruptEnds
    <2>1. sess' \in SessType /\ sess'.wire = sess.wire
      BY <1>5, <1>13 DEF InterruptEnds
    <2>2. TypeOK'
      BY <1>13, <2>1 DEF InterruptEnds, TypeOK, MgrType, Probes
    <2>3. QED
      BY <1>2, <1>13, <2>1, <2>2, ClaimsKept DEF InterruptEnds, MgrType
  <1>14. ASSUME NEW j \in Jobs, Stop(j) PROVE IInv'
    <2>1. sess' \in SessType /\ sess'.wire = sess.wire
      BY <1>1, <1>2, <1>14, BecameTyped DEF Stop
    <2>2. /\ mgr' \in MgrType /\ mgr'.current = mgr.current
          /\ mgr'.disposed = mgr.disposed
          /\ mgr'.activeJob \in {mgr.activeJob, NoJob}
      <3>1. mgr' \in {mgr, [mgr EXCEPT !.stoppingJob = j], Released(mgr)}
        BY <1>14 DEF Stop
      <3>2. QED
        BY <1>2, <3>1, ReleasedTyped DEF MgrType
    <2>3. stops' \in [Jobs -> Probes] /\ turn' = turn
      BY <1>14 DEF Stop, TypeOK, Probes, OnNewest
    <2>4. TypeOK'
      BY <1>14, <2>1, <2>2, <2>3 DEF Stop, TypeOK
    <2>5. QED
      BY <2>1, <2>2, <2>3, <2>4, ClaimsKept
  <1>15. ASSUME NEW j \in Jobs, StopEnds(j) PROVE IInv'
    <2>1. sess' \in SessType /\ sess'.wire = sess.wire
      BY <1>5, <1>15 DEF StopEnds
    <2>2. TypeOK'
      BY <1>2, <1>15, <2>1, ReleasedTyped DEF StopEnds, TypeOK, Probes
    <2>3. QED
      BY <1>2, <1>15, <2>1, <2>2, ReleasedTyped, ClaimsKept DEF StopEnds
  <1>16. ASSUME NEW j \in Jobs, Pump(j) PROVE IInv'
    <2>1. TypeOK'
      BY <1>16 DEF Pump, TypeOK
    <2>2. QED
      BY <1>16, <2>1, ClaimsKept DEF Pump
  <1>17. QED
    BY <1>6, <1>7, <1>8, <1>9, <1>10, <1>11, <1>12, <1>13, <1>14, <1>15, <1>16
       DEF Outside

(* The finally of a settled turn only looks after the timer.               *)
LEMMA FlushKeeps == ASSUME IInv, Flush PROVE IInv'
  <1>1. mgr \in MgrType
    BY DEF IInv, TypeOK
  <1> DEFINE m == [mgr EXCEPT !.pending = FALSE]
  <1>2. /\ m \in MgrType /\ m.activeJob = mgr.activeJob
        /\ m.current = mgr.current /\ m.disposed = mgr.disposed
    BY <1>1 DEF MgrType
  <1>3. mgr' \in {mgr, m, Scheduled(m)}
    BY DEF Flush, Flushed
  <1> HIDE DEF m
  <1>4. /\ mgr' \in MgrType /\ mgr'.activeJob = mgr.activeJob
        /\ mgr'.current = mgr.current /\ mgr'.disposed = mgr.disposed
    BY <1>1, <1>2, <1>3, ScheduledTyped
  <1>5. TypeOK'
    BY <1>4 DEF IInv, Flush, TypeOK
  <1>6. QED
    BY <1>4, <1>5, ClaimsKept DEF Flush

(* A manager begins with no session and no claim.                          *)
LEMMA InitKeeps == ASSUME Init PROVE IInv
  <1>1. 0 \in 0 .. ReconnectLimit
    BY LimitAssumption
  <1>2. mgr \in MgrType
    BY <1>1 DEF Init, MgrType
  <1>3. sess \in SessType
    BY DEF Init, SessType, States
  <1>4. TypeOK
    BY <1>2, <1>3, NoTurnTyped DEF Init, TypeOK, Probes
  <1>5. QED
    BY <1>4, NoTurnTyped DEF Init, IInv, ClaimHasShell, OpenWireIsCurrent, DialIsKnown

(* Every step keeps the invariant.                                         *)
LEMMA NextKeeps == ASSUME IInv, [Next]_vars PROVE IInv'
  <1>1. CASE Starting
    BY <1>1, StartingKeeps
  <1>2. CASE Advance
    BY <1>2, ConnectingKeeps, WorkKeeps DEF Advance
  <1>3. CASE Flush
    BY <1>3, FlushKeeps
  <1>4. CASE Outside
    BY <1>4, OutsideKeeps
  <1>5. CASE UNCHANGED vars
    BY <1>5 DEF vars, IInv, TypeOK, ClaimHasShell, OpenWireIsCurrent, DialIsKnown
  <1>6. QED
    BY <1>1, <1>2, <1>3, <1>4, <1>5 DEF Next

-----------------------------------------------------------------------------
(* Stops.                                                                  *)

(* A job that is being started has no record yet: its id is new.           *)
JobIsNew == /\ turn.op = "job" => rec[turn.job] = "none"
            /\ turn.at = "auditing" => turn.op = "job"

(* A job is VERIFYING as long as its probe is out, and a probe is only sent *)
(* for one that was running.                                               *)
ProbesAreOfStops ==
  \A j \in Jobs : /\ rec[j] = "VERIFYING" => stops[j] # "none"
                  /\ stops[j] # "none" => rec[j] \notin {"none", "RUNNING"}

(* A probe that was answered was answered by the shell, and no job comes    *)
(* back after it.                                                          *)
AnsweredMeansGone == \A j \in Jobs : Verified(stops[j]) => sess.fg # j

StopInv == StoppedMeansGone /\ JobIsNew /\ ProbesAreOfStops /\ AnsweredMeansGone

(* What is in the foreground, other than a job, is no job.                 *)
LEMMA NoJobs == {NoJob, "none", "menu", "shell", "cmd"} \cap Jobs = {}
BY JobsAssumption

(* The fields of NoTurn.                                                   *)
LEMMA NoTurnIs == NoTurn.op = "none" /\ NoTurn.at = "idle" /\ NoTurn.job = NoJob
BY DEF NoTurn

(* A turn that moves remains what it is.                                   *)
LEMMA MoveKeeps ==
    ASSUME NEW t \in TurnType, NEW a \in Stages
    PROVE  Move(t, a).op = t.op /\ Move(t, a).job = t.job /\ Move(t, a).at = a
BY DEF Move, TurnType

Navigating == {"entering", "pause", "approving", "leaving"}

(* A turn has ended, or navigates as the same operation.                   *)
GoesOn(u, t) ==
  u = NoTurn \/ (u.op = t.op /\ u.job = t.job /\ u.at \in Navigating)

(* A failed entry ends the turn, or goes on.                               *)
LEMMA FailingGoesOn ==
    ASSUME NEW t \in TurnType, NEW f \in Failing(t)
    PROVE  GoesOn(f, t)
  <1>1. "pause" \in Stages
    BY DEF Stages
  <1>2. QED
    BY <1>1, MoveKeeps DEF Failing, GoesOn, Navigating

(* So does every step of navigation, and none revives a dead session.       *)
LEMMA StepsGoOn ==
    ASSUME NEW t \in TurnType, NEW st \in States, NEW s \in Steps(t, st)
    PROVE  GoesOn(s[1], t) /\ (s[2] \in Live => st \in Live)
  <1>1. {"approving", "leaving", "entering"} \subseteq Stages
    BY DEF Stages
  <1>2. GoesOn(NoTurn, t)
    BY DEF GoesOn
  <1>3. \A a \in {"approving", "leaving", "entering"} : GoesOn(Move(t, a), t)
    BY <1>1, MoveKeeps DEF GoesOn, Navigating
  <1>4. CASE st = "SHELL"
    <2>1. s \in {<<NoTurn, st>>, <<Move(t, "approving"), st>>, <<Move(t, "leaving"), st>>}
      BY <1>4 DEF Steps
    <2>2. QED
      BY <1>2, <1>3, <1>4, <2>1 DEF Live
  <1>5. CASE st = "MENU"
    <2>1. s = <<Move(t, "entering"), "ENTERING">> \/ \E f \in Failing(t) : s = <<f, st>>
      BY <1>5 DEF Steps
    <2>2. QED
      BY <1>3, <1>5, <2>1, FailingGoesOn DEF Live
  <1>6. CASE st = "ENTERING"
    <2>1. s \in {<<Move(t, "entering"), st>>, <<NoTurn, st>>, <<NoTurn, "UNKNOWN">>}
      BY <1>6 DEF Steps
    <2>2. QED
      BY <1>2, <1>3, <1>6, <2>1 DEF Live
  <1>7. CASE st \notin {"SHELL", "MENU", "ENTERING"}
    <2>1. s = <<NoTurn, st>>
      BY <1>7 DEF Steps
    <2>2. QED
      BY <1>2, <2>1
  <1>8. QED
    BY <1>4, <1>5, <1>6, <1>7

(* Navigation leaves wire and foreground alone.                            *)
LEMMA NavigateGoesOn ==
    ASSUME TypeOK, NEW t \in TurnType, NEW st \in States, Navigate(t, st)
    PROVE  /\ GoesOn(turn', t) /\ sess'.fg = sess.fg /\ sess'.wire = sess.wire
           /\ sess'.st \in Live => st \in Live
  <1>1. PICK s \in Steps(t, st) : Turn(s[1]) /\ sess' = [sess EXCEPT !.st = s[2]]
    BY DEF Navigate
  <1>2. turn' = s[1]
    BY <1>1 DEF Turn
  <1>3. sess'.fg = sess.fg /\ sess'.wire = sess.wire /\ sess'.st = s[2]
    BY <1>1 DEF TypeOK, SessType
  <1>4. QED
    BY <1>2, <1>3, StepsGoOn

(* The next script of a batch goes on.                                     *)
LEMMA OnwardGoesOn ==
    ASSUME turn \in TurnType, NEW t \in Onward(turn)
    PROVE  GoesOn(t, turn)
  <1>1. "approving" \in Stages
    BY DEF Stages
  <1>2. t = NoTurn \/ t = [Move(turn, "approving") EXCEPT !.left = @ - 1]
    BY DEF Onward
  <1>3. [Move(turn, "approving") EXCEPT !.left = @ - 1].at = "approving"
        /\ [Move(turn, "approving") EXCEPT !.left = @ - 1].op = turn.op
        /\ [Move(turn, "approving") EXCEPT !.left = @ - 1].job = turn.job
    BY DEF Move, TurnType
  <1>4. QED
    BY <1>2, <1>3 DEF GoesOn, Navigating

(* A change of state touches nothing else.                                 *)
LEMMA BecameKeeps ==
    ASSUME sess \in SessType, NEW t \in States
    PROVE  /\ Became(t).fg = sess.fg /\ Became(t).wire = sess.wire
           /\ Became(t).st = SetState(sess.st, t)
BY DEF Became, SessType

(* A command is typed at a shell, or at nothing it could replace.           *)
LEMMA TypedKeeps ==
    ASSUME sess \in SessType
    PROVE  /\ Typed(sess).wire = sess.wire
           /\ Typed(sess).fg = sess.fg \/ Typed(sess).fg \notin Jobs
  <1>1. /\ Typed(sess).wire = sess.wire
        /\ Typed(sess).fg = IF sess.fg = "shell" THEN "cmd" ELSE sess.fg
    BY DEF Typed, SessType
  <1>2. QED
    BY <1>1, NoJobs

(* A step in which no job comes, ends or is stopped.                       *)
LEMMA StopFrame ==
    ASSUME StopInv, UNCHANGED <<rec, stops>>, sess'.fg = sess.fg \/ sess'.fg \notin Jobs,
           turn'.op = "job" => turn.op = "job" /\ turn'.job = turn.job,
           turn'.at = "auditing" => turn' = turn
    PROVE  StopInv'
  <1>1. StoppedMeansGone' /\ AnsweredMeansGone'
    BY DEF StopInv, StoppedMeansGone, AnsweredMeansGone, Verified
  <1>2. JobIsNew' /\ ProbesAreOfStops'
    BY DEF StopInv, JobIsNew, ProbesAreOfStops
  <1>3. QED
    BY <1>1, <1>2 DEF StopInv

(* A turn that goes on starts no other job.                                *)
LEMMA GoesOnKeeps ==
    ASSUME NEW t, NEW u, GoesOn(u, t)
    PROVE  /\ u.op = "job" => t.op = "job" /\ u.job = t.job
           /\ u.at # "auditing"
BY NoTurnIs DEF GoesOn, Navigating

(* Nothing that starts a turn.                                             *)
LEMMA StartingStops == ASSUME IInv, StopInv, Starting PROVE StopInv'
  <1>1. TypeOK /\ turn \in TurnType /\ sess \in SessType /\ sess.st \in States
    BY DEF IInv, TypeOK, SessType
  <1>2. CASE Refused
    BY <1>2, StopFrame DEF Refused
  <1>3. CASE StartConnect
    <2>1. "password" \in Stages /\ [NoTurn EXCEPT !.op = "connect"] \in TurnType
      BY NoTurnTyped DEF TurnType, Ops, Stages
    <2>2. [NoTurn EXCEPT !.op = "connect"].op = "connect"
      BY DEF NoTurn
    <2>3. turn' = NoTurn \/ turn' = Move([NoTurn EXCEPT !.op = "connect"], "password")
      BY <1>3 DEF StartConnect, ConnectLocked, Turn
    <2>4. turn'.op # "job" /\ turn'.at # "auditing"
      BY ZenonT(40), <2>1, <2>2, <2>3, NoTurnIs, MoveKeeps
    <2>5. UNCHANGED <<rec, stops, sess>>
      BY <1>3 DEF StartConnect, ConnectLocked
    <2>6. QED
      BY <2>4, <2>5, StopFrame
  <1>4. ASSUME NEW t \in TurnType, StartNavigation(t)
        PROVE  /\ UNCHANGED <<rec, stops>> /\ sess'.fg = sess.fg
               /\ turn'.op = "job" => t.op = "job" /\ turn'.job = t.job
               /\ turn'.at # "auditing"
    <2>1. CASE LiveNow /\ t.op = "list"
      <3>1. "listing" \in Stages
        BY DEF Stages
      <3>2. turn' = Move(t, "listing") /\ UNCHANGED <<rec, stops, sess>>
        BY <1>4, <2>1 DEF StartNavigation, Turn
      <3>3. QED
        BY <2>1, <3>1, <3>2, MoveKeeps
    <2>2. CASE LiveNow /\ t.op # "list"
      <3>1. Navigate(t, sess.st) /\ UNCHANGED <<rec, stops>>
        BY <1>4, <2>2 DEF StartNavigation
      <3>2. QED
        BY <1>1, <3>1, NavigateGoesOn, GoesOnKeeps
    <2>3. CASE ~LiveNow
      <3>1. "password" \in Stages
        BY DEF Stages
      <3>2. (turn' = NoTurn \/ turn' = Move(t, "password")) /\ UNCHANGED <<rec, stops, sess>>
        BY <1>4, <2>3 DEF StartNavigation, ConnectLocked, Turn
      <3>3. QED
        BY <3>1, <3>2, NoTurnIs, MoveKeeps
    <2>4. QED
      BY <2>1, <2>2, <2>3
  <1>5. CASE StartRun \/ StartBatch \/ StartList
    <2>1. BatchSize \in 0 .. BatchSize
      BY LimitAssumption
    <2>2. PICK t \in TurnType : t.op \in {"run", "batch", "list"} /\ StartNavigation(t)
      <3>1. \A op \in {"run", "list"} : /\ [NoTurn EXCEPT !.op = op] \in TurnType
                                        /\ [NoTurn EXCEPT !.op = op].op = op
        BY NoTurnTyped DEF TurnType, Ops, NoTurn
      <3>2. /\ [NoTurn EXCEPT !.op = "batch", !.left = BatchSize] \in TurnType
            /\ [NoTurn EXCEPT !.op = "batch", !.left = BatchSize].op = "batch"
        BY <2>1, NoTurnTyped DEF TurnType, Ops, NoTurn
      <3>3. QED
        BY <1>5, <3>1, <3>2 DEF StartRun, StartBatch, StartList
    <2>3. QED
      BY <1>4, <2>2, StopFrame
  <1>6. ASSUME NEW j \in Jobs, StartJob(j) PROVE StopInv'
    <2> DEFINE t == [NoTurn EXCEPT !.op = "job", !.job = j]
    <2>1. t \in TurnType /\ t.op = "job" /\ t.job = j
      BY NoTurnTyped DEF TurnType, Ops, NoTurn
    <2>2. StartNavigation(t) /\ rec[j] = "none"
      BY <1>6 DEF StartJob
    <2> HIDE DEF t
    <2>3. /\ UNCHANGED <<rec, stops>> /\ sess'.fg = sess.fg
          /\ turn'.op = "job" => turn'.job = j
          /\ turn'.at # "auditing"
      BY <1>4, <2>1, <2>2
    <2>4. QED
      BY <2>2, <2>3 DEF StopInv, StoppedMeansGone, AnsweredMeansGone, Verified, JobIsNew, ProbesAreOfStops
  <1>7. CASE StartEnter
    <2>1. /\ [NoTurn EXCEPT !.op = "enter"] \in TurnType
          /\ [NoTurn EXCEPT !.op = "enter"].op = "enter"
      BY NoTurnTyped DEF TurnType, Ops, NoTurn
    <2>2. Navigate([NoTurn EXCEPT !.op = "enter"], sess.st) /\ UNCHANGED <<rec, stops>>
      BY <1>7 DEF StartEnter
    <2>3. /\ GoesOn(turn', [NoTurn EXCEPT !.op = "enter"]) /\ sess'.fg = sess.fg
      BY <1>1, <2>1, <2>2, NavigateGoesOn
    <2>4. QED
      BY <2>1, <2>2, <2>3, GoesOnKeeps, StopFrame
  <1>8. CASE StartLeave
    <2>1. /\ turn' = [NoTurn EXCEPT !.op = "leave", !.at = "leaving"]
          /\ UNCHANGED <<rec, stops, sess>>
      BY <1>8 DEF StartLeave, Turn
    <2>2. turn'.op = "leave" /\ turn'.at = "leaving"
      BY <2>1 DEF NoTurn
    <2>3. QED
      BY <2>1, <2>2, StopFrame
  <1>9. CASE StartExec
    <2>1. /\ turn' = [NoTurn EXCEPT !.op = "exec", !.at = "executing"]
          /\ UNCHANGED <<rec, stops>> /\ sess' = Typed(sess)
      BY <1>9 DEF StartExec, Turn
    <2>2. turn'.op = "exec" /\ turn'.at = "executing"
      BY <2>1 DEF NoTurn
    <2>3. QED
      BY <1>1, <2>1, <2>2, TypedKeeps, StopFrame
  <1>10. CASE Close
    <2>1. UNCHANGED <<turn, stops, rec>> /\ (sess' = sess \/ sess' = ClosedSession(sess.st))
      BY <1>10 DEF Close
    <2>2. sess'.fg = sess.fg \/ sess'.fg = "none"
      BY <2>1 DEF ClosedSession
    <2>3. QED
      BY <2>1, <2>2, NoJobs, StopFrame
  <1>11. QED
    BY <1>2, <1>3, <1>5, <1>6, <1>7, <1>8, <1>9, <1>10 DEF Starting

(* Nothing of a turn that goes on, but the job that is typed and the record *)
(* it is given.                                                            *)
LEMMA AdvanceStops == ASSUME IInv, StopInv, Advance PROVE StopInv'
  <1>1. /\ TypeOK /\ turn \in TurnType /\ sess \in SessType /\ sess.st \in States
        /\ {"SHELL", "MENU", "UNKNOWN", "DISCONNECTED", "ENTERING"} \subseteq States
        /\ rec \in [Jobs -> {"none", "RUNNING", "VERIFYING", "STOPPED", "LOST"}]
        /\ stops \in [Jobs -> Probes]
    BY DEF IInv, TypeOK, SessType, States
  <1>2. ASSUME UNCHANGED <<rec, stops>>, sess'.fg = sess.fg \/ sess'.fg \notin Jobs,
               GoesOn(turn', turn)
        PROVE  StopInv'
    BY <1>2, GoesOnKeeps, StopFrame
  <1>3. ASSUME UNCHANGED <<rec, stops>>, sess'.fg = sess.fg \/ sess'.fg \notin Jobs,
               NEW a \in Stages \ {"auditing"}, turn' = Move(turn, a)
        PROVE  StopInv'
    BY <1>1, <1>3, MoveKeeps, StopFrame
  <1>4. GoesOn(NoTurn, turn)
    BY DEF GoesOn
  <1>5. CASE NoPassword \/ LeaveAborted
    BY <1>2, <1>4, <1>5 DEF NoPassword, LeaveAborted, Turn
  <1>6. CASE NewSession
    <2>1. /\ turn' = Move(turn, "dialing") /\ UNCHANGED rec
          /\ stops' = [j \in Jobs |-> Aged(stops[j])] /\ sess'.fg = "none"
      BY <1>6 DEF NewSession, Turn
    <2>2. turn'.op = turn.op /\ turn'.job = turn.job /\ turn'.at = "dialing"
      BY <1>1, <2>1, MoveKeeps DEF Stages
    <2>3. \A j \in Jobs : stops'[j] = "none" <=> stops[j] = "none"
      BY <1>1, <2>1 DEF Aged, Probes, OnNewest
    <2>4. QED
      BY <2>1, <2>2, <2>3, NoJobs
         DEF StopInv, StoppedMeansGone, AnsweredMeansGone, JobIsNew, ProbesAreOfStops
  <1>7. CASE FactoryRejects \/ MenuFails
    <2>1. turn' = NoTurn /\ UNCHANGED <<rec, stops>> /\ sess' = TornDown
      BY <1>7 DEF FactoryRejects, MenuFails, Turn
    <2>2. sess'.fg = "none"
      BY <2>1 DEF TornDown
    <2>3. QED
      BY <1>2, <1>4, <2>1, <2>2, NoJobs
  <1>8. CASE Attach
    <2>1. /\ turn' = Move(turn, "menuWait") /\ UNCHANGED <<rec, stops>>
          /\ sess' = [sess EXCEPT !.wire = "open", !.fg = "menu"]
      BY <1>8 DEF Attach, Turn
    <2>2. sess'.fg = "menu" /\ "menuWait" \in Stages \ {"auditing"}
      BY <1>1, <2>1 DEF SessType, Stages
    <2>3. QED
      BY <1>3, <2>1, <2>2, NoJobs
  <1>9. CASE MenuSeen
    <2> DEFINE st == SetState(sess.st, "MENU")
    <2>1. st \in States
      BY <1>1, SetStateTyped
    <2>2. UNCHANGED <<rec, stops>>
      BY <1>9 DEF MenuSeen
    <2>3. CASE Turn(NoTurn) /\ sess' = [sess EXCEPT !.st = st]
      <3>1. turn' = NoTurn /\ sess'.fg = sess.fg
        BY <1>1, <2>3 DEF Turn, SessType
      <3>2. QED
        BY <1>2, <1>4, <2>2, <3>1
    <2>4. CASE Turn(Move(turn, "listing")) /\ sess' = [sess EXCEPT !.st = st]
      <3>1. turn' = Move(turn, "listing") /\ sess'.fg = sess.fg /\ "listing" \in Stages \ {"auditing"}
        BY <1>1, <2>4 DEF Turn, SessType, Stages
      <3>2. QED
        BY <1>3, <2>2, <3>1
    <2>5. CASE Navigate(turn, st)
      BY <1>1, <1>2, <2>1, <2>2, <2>5, NavigateGoesOn
    <2>6. QED
      BY <1>9, <2>3, <2>4, <2>5 DEF MenuSeen
  <1>10. CASE Listed
    <2>1. turn' = NoTurn /\ UNCHANGED <<rec, stops>> /\ sess' \in {sess, Became("UNKNOWN")}
      BY <1>10 DEF Listed, Turn
    <2>2. QED
      BY <1>1, <1>2, <1>4, <2>1, BecameKeeps
  <1>11. CASE Entered
    <2>1. /\ turn' = NoTurn \/ turn' = Move(turn, "approving")
          /\ UNCHANGED <<rec, stops>> /\ sess' = Became("SHELL")
      BY <1>11 DEF Entered, Turn
    <2>2. "approving" \in Stages \ {"auditing"} /\ sess'.fg = sess.fg
      BY <1>1, <2>1, BecameKeeps DEF Stages
    <2>3. QED
      BY <1>2, <1>3, <1>4, <2>1, <2>2
  <1>12. CASE EntryFails
    <2>1. PICK t \in Failing(turn) : turn' = t
      BY <1>12 DEF EntryFails, Turn
    <2>2. UNCHANGED <<rec, stops>> /\ sess' \in {sess} \cup {Became(s) : s \in States}
      BY <1>1, <1>12 DEF EntryFails, FailedEntry
    <2>3. sess'.fg = sess.fg
      BY <1>1, <2>2, BecameKeeps
    <2>4. QED
      BY <1>1, <1>2, <2>1, <2>2, <2>3, FailingGoesOn
  <1>13. CASE PauseEnds
    <2> DEFINE t == [turn EXCEPT !.retried = TRUE]
    <2>1. t \in TurnType /\ t.op = turn.op /\ t.job = turn.job
      BY <1>1 DEF TurnType
    <2>2. UNCHANGED <<rec, stops>> /\ ((turn' = NoTurn /\ sess' = sess) \/ Navigate(t, sess.st))
      BY <1>13 DEF PauseEnds, Turn
    <2>3. sess'.fg = sess.fg /\ (turn' = NoTurn \/ GoesOn(turn', t))
      <3> HIDE DEF t
      <3>1. QED
        BY <1>1, <2>1, <2>2, NavigateGoesOn
    <2>4. GoesOn(turn', turn)
      BY <2>1, <2>3 DEF GoesOn
    <2>5. QED
      BY <1>2, <2>2, <2>3, <2>4
  <1>14. CASE Left
    <2> DEFINE st == SetState(sess.st, "MENU")
    <2>1. st \in States
      BY <1>1, SetStateTyped
    <2>2. UNCHANGED <<rec, stops>>
      BY <1>14 DEF Left
    <2>3. (turn' = NoTurn /\ sess' = [sess EXCEPT !.st = st]) \/ Navigate(turn, st)
      BY <1>14 DEF Left, Turn
    <2>4. sess'.fg = sess.fg /\ GoesOn(turn', turn)
      <3>1. CASE turn' = NoTurn /\ sess' = [sess EXCEPT !.st = st]
        BY <1>1, <1>4, <3>1 DEF SessType
      <3>2. CASE Navigate(turn, st)
        BY <1>1, <2>1, <3>2, NavigateGoesOn
      <3>3. QED
        BY <2>3, <3>1, <3>2
    <2>5. QED
      BY <1>2, <2>2, <2>4
  <1>15. CASE LeaveFails
    <2>1. /\ turn' = NoTurn \/ turn' = [turn EXCEPT !.at = "password", !.healed = TRUE]
          /\ UNCHANGED <<rec, stops>>
          /\ sess' = ClosedSession(SetState(sess.st, "UNKNOWN")) \/ sess' = Became("UNKNOWN")
      BY <1>15 DEF LeaveFails, Turn
    <2>2. sess'.fg = "none" \/ sess'.fg = sess.fg
      BY <1>1, <2>1, BecameKeeps DEF ClosedSession
    <2>3. /\ turn'.op = "job" => turn.op = "job" /\ turn'.job = turn.job
          /\ turn'.at # "auditing"
      BY <1>1, <2>1, NoTurnIs DEF TurnType
    <2>4. QED
      BY <2>1, <2>2, <2>3, NoJobs, StopFrame
  <1>16. CASE Denied
    <2>1. PICK t \in Onward(turn) : turn' = t
      BY <1>16 DEF Denied, Turn
    <2>2. UNCHANGED <<rec, stops, sess>>
      BY <1>16 DEF Denied
    <2>3. QED
      BY <1>1, <1>2, <2>1, <2>2, OnwardGoesOn
  <1>17. CASE Approved
    <2>1. turn' = Move(turn, "executing") /\ UNCHANGED <<rec, stops>> /\ sess' = Typed(sess)
      BY <1>17 DEF Approved, Turn
    <2>2. "executing" \in Stages \ {"auditing"}
      BY DEF Stages
    <2>3. sess'.fg = sess.fg \/ sess'.fg \notin Jobs
      BY <1>1, <2>1, TypedKeeps
    <2>4. QED
      BY <1>3, <2>1, <2>2, <2>3
  <1>18. CASE JobTyped
    <2>1. /\ turn.op = "job" /\ turn.job \in Jobs /\ rec[turn.job] = "none"
      BY <1>1, <1>18 DEF JobTyped, StopInv, JobIsNew, TurnType
    <2>2. /\ turn' = Move(turn, "auditing") /\ UNCHANGED <<rec, stops>>
          /\ sess'.fg = sess.fg \/ sess'.fg = turn.job
      BY <1>1, <1>18 DEF JobTyped, Turn, SessType
    <2>3. turn'.op = turn.op /\ turn'.job = turn.job
      BY <1>1, <2>2, MoveKeeps DEF Stages
    <2>4. stops[turn.job] = "none"
      BY <2>1 DEF StopInv, ProbesAreOfStops
    <2>5. QED
      BY <2>1, <2>2, <2>3, <2>4
         DEF StopInv, StoppedMeansGone, AnsweredMeansGone, Verified, JobIsNew, ProbesAreOfStops
  <1>19. CASE JobStarted
    <2>1. /\ turn.op = "job" /\ turn.job \in Jobs /\ rec[turn.job] = "none"
      BY <1>1, <1>19 DEF JobStarted, At, StopInv, JobIsNew, TurnType
    <2>2. /\ turn' = NoTurn /\ UNCHANGED <<sess, stops>>
          /\ rec' = [rec EXCEPT ![turn.job] = "RUNNING"]
      BY <1>19 DEF JobStarted, Turn
    <2>3. stops[turn.job] = "none"
      BY <2>1 DEF StopInv, ProbesAreOfStops
    <2>4. \A j \in Jobs : rec'[j] = IF j = turn.job THEN "RUNNING" ELSE rec[j]
      BY <1>1, <2>2
    <2>5. QED
      BY <2>1, <2>2, <2>3, <2>4, NoTurnIs
         DEF StopInv, StoppedMeansGone, AnsweredMeansGone, Verified, JobIsNew, ProbesAreOfStops
  <1>20. CASE Executed
    <2>1. PICK t \in Onward(turn) : turn' = t
      BY <1>20 DEF Executed, Turn
    <2>2. UNCHANGED <<rec, stops>> /\ sess' \in {Became(s) : s \in States}
      BY <1>1, <1>20 DEF Executed
    <2>3. QED
      BY <1>1, <1>2, <2>1, <2>2, OnwardGoesOn, BecameKeeps
  <1>21. QED
    BY <1>5, <1>6, <1>7, <1>8, <1>9, <1>10, <1>11, <1>12, <1>13, <1>14, <1>15, <1>16,
       <1>17, <1>18, <1>19, <1>20 DEF Advance

(* Nothing that does not queue, but stops.                                 *)
LEMMA OutsideStops == ASSUME IInv, StopInv, Outside PROVE StopInv'
  <1>1. /\ TypeOK /\ turn \in TurnType /\ sess \in SessType /\ sess.st \in States
        /\ {"SHELL", "UNKNOWN", "DISCONNECTED"} \subseteq States
        /\ rec \in [Jobs -> {"none", "RUNNING", "VERIFYING", "STOPPED", "LOST"}]
        /\ stops \in [Jobs -> Probes]
    BY DEF IInv, TypeOK, SessType, States
  <1>2. ASSUME UNCHANGED <<rec, stops, turn>>, sess'.fg = sess.fg \/ sess'.fg \notin Jobs
        PROVE  StopInv'
    BY <1>2, StopFrame
  <1>3. ASSUME NEW q, ProbeEnds(q)
        PROVE  sess'.fg = sess.fg
    BY <1>1, <1>3, BecameKeeps DEF ProbeEnds
  <1>4. CASE TimerFires \/ Interrupt
    BY <1>2, <1>4 DEF TimerFires, Interrupt
  <1>5. CASE Dispose
    <2>1. UNCHANGED <<rec, stops, turn>> /\ (sess' = sess \/ sess' = ClosedSession(sess.st))
      BY <1>5 DEF Dispose
    <2>2. sess'.fg = sess.fg \/ sess'.fg = "none"
      BY <2>1 DEF ClosedSession
    <2>3. QED
      BY <1>2, <2>1, <2>2, NoJobs
  <1>6. CASE WireDrops
    <2>1. /\ UNCHANGED <<rec, stops, turn>>
          /\ sess' = [Became("DISCONNECTED") EXCEPT !.wire = "closed", !.fg = "none"]
      BY <1>6 DEF WireDrops
    <2>2. sess'.fg = "none"
      BY <1>1, <2>1, BecameTyped DEF SessType
    <2>3. QED
      BY <1>2, <2>1, <2>2, NoJobs
  <1>7. CASE LateClose
    <2>1. UNCHANGED <<rec, stops, turn>> /\ sess' \in {sess, Became("DISCONNECTED")}
      BY <1>7 DEF LateClose
    <2>2. QED
      BY <1>1, <1>2, <2>1, BecameKeeps
  <1>8. CASE FarEnd
    <2>1. UNCHANGED <<rec, stops, turn>> /\ sess'.fg \in {"shell", "menu"}
      BY <1>1, <1>8 DEF FarEnd, SessType
    <2>2. QED
      BY <1>2, <2>1, NoJobs
  <1>9. CASE Answers
    <2>1. UNCHANGED <<rec, turn, sess>> /\ sess.fg = "shell"
      BY <1>9 DEF Answers
    <2>2. \A j \in Jobs : stops'[j] # stops[j] => stops[j] = "probing" /\ stops'[j] = "answered"
      BY <1>1, <1>9 DEF Answers
    <2>3. \A j \in Jobs : sess.fg # j
      BY <2>1, NoJobs
    <2>4. StoppedMeansGone' /\ AnsweredMeansGone' /\ JobIsNew'
      BY <2>1, <2>3 DEF StopInv, StoppedMeansGone, AnsweredMeansGone, JobIsNew
    <2>5. \A j \in Jobs : stops'[j] = "none" <=> stops[j] = "none"
      BY <2>2
    <2>6. ProbesAreOfStops'
      BY <2>1, <2>5 DEF StopInv, ProbesAreOfStops
    <2>7. QED
      BY <2>4, <2>6 DEF StopInv
  <1>10. CASE InterruptEnds
    <2>1. UNCHANGED <<rec, stops, turn>> /\ ProbeEnds(irq)
      BY <1>10 DEF InterruptEnds
    <2>2. QED
      BY <1>2, <1>3, <2>1
  <1>11. ASSUME NEW j \in Jobs, Stop(j) PROVE StopInv'
    <2>1. UNCHANGED turn /\ stops[j] = "none" /\ rec[j] = "RUNNING"
      BY <1>11 DEF Stop, Unshared, StopInv, ProbesAreOfStops
    <2>2. sess'.fg = sess.fg
      <3>1. sess' = sess \/ sess' = Became("UNKNOWN")
        BY <1>11 DEF Stop
      <3>2. QED
        BY <1>1, <3>1, BecameKeeps
    <2>3. \/ rec' = [rec EXCEPT ![j] = "LOST"] /\ UNCHANGED stops
          \/ rec' = [rec EXCEPT ![j] = "VERIFYING"] /\ stops' = [stops EXCEPT ![j] = "probing"]
      BY <1>11, <2>1 DEF Stop
    <2>4. CASE rec' = [rec EXCEPT ![j] = "LOST"] /\ UNCHANGED stops
      <3>1. \A k \in Jobs : rec'[k] = IF k = j THEN "LOST" ELSE rec[k]
        BY <1>1, <2>4
      <3>2. turn.op = "job" => turn.job \in Jobs /\ turn.job # j
        BY <1>1, <2>1 DEF TurnType, StopInv, JobIsNew
      <3>3. JobIsNew'
        BY <2>1, <3>1, <3>2 DEF StopInv, JobIsNew
      <3>4. StoppedMeansGone' /\ AnsweredMeansGone' /\ ProbesAreOfStops'
        BY <2>1, <2>2, <2>4, <3>1
           DEF StopInv, StoppedMeansGone, AnsweredMeansGone, Verified, ProbesAreOfStops
      <3>5. QED
        BY <3>3, <3>4 DEF StopInv
    <2>5. CASE rec' = [rec EXCEPT ![j] = "VERIFYING"] /\ stops' = [stops EXCEPT ![j] = "probing"]
      <3>1. /\ \A k \in Jobs : rec'[k] = IF k = j THEN "VERIFYING" ELSE rec[k]
            /\ \A k \in Jobs : stops'[k] = IF k = j THEN "probing" ELSE stops[k]
        BY <1>1, <2>5
      <3>2. turn.op = "job" => turn.job \in Jobs /\ turn.job # j
        BY <1>1, <2>1 DEF TurnType, StopInv, JobIsNew
      <3>3. JobIsNew'
        BY <2>1, <3>1, <3>2 DEF StopInv, JobIsNew
      <3>4. StoppedMeansGone' /\ AnsweredMeansGone' /\ ProbesAreOfStops'
        BY <2>1, <2>2, <3>1
           DEF StopInv, StoppedMeansGone, AnsweredMeansGone, Verified, ProbesAreOfStops
      <3>5. QED
        BY <3>3, <3>4 DEF StopInv
    <2>6. QED
      BY <2>3, <2>4, <2>5
  <1>12. ASSUME NEW j \in Jobs, StopEnds(j) PROVE StopInv'
    <2> DEFINE r == IF rec[j] # "VERIFYING" THEN rec[j]
                    ELSE IF Verified(stops[j]) THEN "STOPPED" ELSE "LOST"
    <2>1. /\ UNCHANGED turn /\ stops[j] # "none" /\ sess'.fg = sess.fg
          /\ stops' = [stops EXCEPT ![j] = "none"] /\ rec' = [rec EXCEPT ![j] = r]
      BY <1>3, <1>12 DEF StopEnds
    <2>2. rec[j] \notin {"none", "RUNNING"}
      BY <2>1 DEF StopInv, ProbesAreOfStops
    <2>3. r \notin {"none", "RUNNING", "VERIFYING"} /\ (r = "STOPPED" => sess.fg # j)
      BY <2>2 DEF StopInv, StoppedMeansGone, AnsweredMeansGone
    <2> HIDE DEF r
    <2>4. /\ \A k \in Jobs : rec'[k] = IF k = j THEN r ELSE rec[k]
          /\ \A k \in Jobs : stops'[k] = IF k = j THEN "none" ELSE stops[k]
      BY <1>1, <2>1
    <2>5. turn.op = "job" => turn.job \in Jobs /\ turn.job # j
      BY <1>1, <2>2 DEF TurnType, StopInv, JobIsNew
    <2>6. JobIsNew'
      BY <2>1, <2>4, <2>5 DEF StopInv, JobIsNew
    <2>7. StoppedMeansGone' /\ AnsweredMeansGone' /\ ProbesAreOfStops'
      BY <2>1, <2>3, <2>4
         DEF StopInv, StoppedMeansGone, AnsweredMeansGone, Verified, ProbesAreOfStops
    <2>8. QED
      BY <2>6, <2>7 DEF StopInv
  <1>13. ASSUME NEW j \in Jobs, Pump(j) PROVE StopInv'
    <2>1. /\ UNCHANGED <<turn, stops, sess>> /\ rec[j] = "RUNNING"
          /\ rec' = [rec EXCEPT ![j] = "LOST"]
      BY <1>13 DEF Pump
    <2>2. \A k \in Jobs : rec'[k] = IF k = j THEN "LOST" ELSE rec[k]
      BY <1>1, <2>1
    <2>3. turn.op = "job" => turn.job \in Jobs /\ turn.job # j
      BY <1>1, <2>1 DEF TurnType, StopInv, JobIsNew
    <2>4. JobIsNew'
      BY <2>1, <2>2, <2>3 DEF StopInv, JobIsNew
    <2>5. StoppedMeansGone' /\ AnsweredMeansGone' /\ ProbesAreOfStops'
      BY <2>1, <2>2
         DEF StopInv, StoppedMeansGone, AnsweredMeansGone, Verified, ProbesAreOfStops
    <2>6. QED
      BY <2>4, <2>5 DEF StopInv
  <1>14. QED
    BY <1>4, <1>5, <1>6, <1>7, <1>8, <1>9, <1>10, <1>11, <1>12, <1>13 DEF Outside

(* A manager begins with no job.                                           *)
LEMMA InitStops == ASSUME Init PROVE StopInv
BY NoTurnIs DEF Init, StopInv, StoppedMeansGone, JobIsNew, ProbesAreOfStops, AnsweredMeansGone, Verified

(* No step loses sight of a job that is being stopped.                     *)
LEMMA NextStops == ASSUME IInv, StopInv, [Next]_vars PROVE StopInv'
  <1>1. CASE Flush
    BY <1>1, StopFrame DEF Flush
  <1>2. CASE UNCHANGED vars
    BY <1>2, StopFrame DEF vars
  <1>3. QED
    BY <1>1, <1>2, StartingStops, AdvanceStops, OutsideStops DEF Next

-----------------------------------------------------------------------------
(* The shell and its job.                                                  *)

(* No old wire reports its close late, no probe outlives its session, and   *)
(* nothing but a stop interrupts.                                          *)
Calm == faults \cap {"late", "slow", "interrupt"} = {}
NoneLate == late = "none" /\ irq = "none"

(* A job in the foreground has the claim, as long as the session is live.   *)
Foreground == sess.fg \in Jobs => /\ sess.wire = "open"
                                  /\ LiveNow => mgr.activeJob = sess.fg

(* Where there is a wire, only the job with the claim is running or has a   *)
(* probe.                                                                  *)
Claims ==
  sess.wire = "open" =>
    \A j \in Jobs : /\ rec[j] = "RUNNING" => mgr.activeJob = j /\ mgr.current
                    /\ stops[j] \in {"none"} \cup OnNewest
                    /\ stops[j] \in OnNewest => mgr.activeJob = j /\ mgr.current

(* A shell that has answered does not go back to a job.                    *)
ShellBack == \A j \in Jobs : stops[j] = "answered" => sess.fg \notin Jobs

Business == NoneLate /\ Foreground /\ Claims /\ ShellBack

(* A turn that has made sure, or has just connected, finds no job until it   *)
(* is over, whatever else happens to the shell meanwhile.                  *)
ShellIsFree ==
  /\ turn.at \in {"dialing", "menuWait"} => sess.fg \notin Jobs
  /\ turn.at \in Navigating \cup {"executing"} /\ turn.op \notin {"enter", "leave"} =>
       sess.fg \notin Jobs
  /\ turn.at = "executing" => turn.op \notin {"enter", "leave"}

(* It knows of the claims, and works on the manager's session.             *)
TurnKnows ==
  /\ turn.at \in Navigating \cup {"listing", "executing", "auditing"} /\ sess.wire = "open" =>
       mgr.current
  /\ turn.op = "job" /\ turn.at # "auditing" => mgr.activeJob = NoJob
  /\ turn.at = "auditing" /\ sess.wire = "open" => mgr.activeJob = turn.job
  /\ turn.at = "dialing" => mgr.activeJob = NoJob /\ \A j \in Jobs : stops[j] \notin OnNewest

ShellInv == Business /\ ShellIsFree /\ TurnKnows
PtyInv == Calm => ShellInv

(* A session whose manager, wire and probes remain what they are.          *)
LEMMA BusinessKept ==
    ASSUME Business, UNCHANGED <<late, irq, stops>>,
           \A j \in Jobs : rec'[j] = "RUNNING" => rec[j] = "RUNNING",
           sess'.wire = sess.wire, mgr'.activeJob = mgr.activeJob, mgr'.current = mgr.current,
           sess'.fg = sess.fg \/ sess'.fg \notin Jobs,
           sess'.fg \in Jobs /\ sess'.st \in Live => sess.st \in Live
    PROVE  Business'
  <1>1. Foreground'
    BY DEF Business, Foreground, LiveNow
  <1>2. Claims'
    BY DEF Business, Claims
  <1>3. NoneLate' /\ ShellBack'
    BY DEF Business, NoneLate, ShellBack
  <1>4. QED
    BY <1>1, <1>2, <1>3 DEF Business

(* A session without a wire has no business at all.                        *)
LEMMA BusinessOver ==
    ASSUME late' = "none", irq' = "none", sess'.wire # "open", sess'.fg \notin Jobs
    PROVE  Business'
BY DEF Business, NoneLate, Foreground, Claims, ShellBack

(* A turn that waits while something else happens.                         *)
LEMMA TurnKept ==
    ASSUME ShellIsFree, TurnKnows, turn' = turn,
           sess'.fg = sess.fg \/ sess'.fg \notin Jobs,
           sess'.wire = "open" => sess.wire = "open" /\ mgr'.current = mgr.current,
           mgr'.activeJob \in {mgr.activeJob, NoJob},
           turn.at = "auditing" /\ sess'.wire = "open" => mgr'.activeJob = mgr.activeJob,
           turn.at = "dialing" => \A j \in Jobs : stops'[j] \in OnNewest => stops[j] \in OnNewest
    PROVE  (ShellIsFree /\ TurnKnows)'
  <1>1. ShellIsFree'
    BY DEF ShellIsFree
  <1>2. TurnKnows'
    BY DEF TurnKnows
  <1>3. QED
    BY <1>1, <1>2

(* A turn that ends, or waits for its password.                            *)
LEMMA TurnRests ==
    ASSUME turn'.at \in {"idle", "password"}, turn'.op = "job" => mgr'.activeJob = NoJob
    PROVE  (ShellIsFree /\ TurnKnows)'
BY DEF ShellIsFree, TurnKnows, Navigating

(* A turn that works on a session which is the manager's, and free if it is  *)
(* to be used.                                                             *)
LEMMA TurnWorks ==
    ASSUME turn'.at \in Navigating \cup {"listing", "executing"},
           sess'.wire = "open" => mgr'.current,
           turn'.op = "job" => mgr'.activeJob = NoJob,
           turn'.at = "executing" => turn'.op \notin {"enter", "leave"},
           turn'.at # "listing" /\ turn'.op \notin {"enter", "leave"} => sess'.fg \notin Jobs
    PROVE  (ShellIsFree /\ TurnKnows)'
BY DEF ShellIsFree, TurnKnows, Navigating

(* A turn that goes on is what it was.                                     *)
LEMMA TurnGoesOn ==
    ASSUME ShellIsFree, TurnKnows, GoesOn(turn', turn),
           turn.at \in Navigating \cup {"menuWait", "executing"},
           turn.at = "menuWait" /\ turn' # NoTurn => mgr.current,
           sess'.fg = sess.fg \/ sess'.fg \notin Jobs,
           sess'.wire = sess.wire, mgr'.activeJob = mgr.activeJob, mgr'.current = mgr.current
    PROVE  (ShellIsFree /\ TurnKnows)'
  <1>1. CASE turn' = NoTurn
    BY <1>1, NoTurnIs, TurnRests
  <1>2. CASE turn' # NoTurn
    <2>1. turn'.op = turn.op /\ turn'.at \in Navigating
      BY <1>2 DEF GoesOn
    <2>2. sess.wire = "open" => mgr.current
      BY <1>2 DEF TurnKnows
    <2>3. turn'.op \notin {"enter", "leave"} => sess'.fg \notin Jobs
      BY <2>1 DEF ShellIsFree
    <2>4. turn'.op = "job" => mgr.activeJob = NoJob
      BY <2>1 DEF TurnKnows, Navigating
    <2>5. turn'.at # "executing"
      BY <2>1 DEF Navigating
    <2>6. QED
      BY <2>1, <2>2, <2>3, <2>4, <2>5, TurnWorks
  <1>3. QED
    BY <1>1, <1>2

(* A free shell: the session is live and nobody has the claim.             *)
LEMMA UnclaimedIsFree ==
    ASSUME Business, LiveNow, Unclaimed
    PROVE  sess.fg \notin Jobs
BY NoJobs DEF Business, Foreground, Unclaimed

(* No change of state to one of these revives a session.                   *)
LEMMA NotRevived ==
    ASSUME NEW s \in States
    PROVE  SetState(s, "UNKNOWN") \notin Live /\ SetState(s, "DISCONNECTED") \notin Live
BY DEF SetState, States, Live, Legal

(* A turn only begins with a shell that is free, and knows it.             *)
LEMMA StartingShell ==
    ASSUME IInv, Calm, ShellInv, Starting
    PROVE  ShellInv'
  <1>1. /\ TypeOK /\ turn \in TurnType /\ sess \in SessType /\ sess.st \in States /\ mgr \in MgrType
        /\ Business /\ ShellIsFree /\ TurnKnows
    BY DEF IInv, TypeOK, SessType, ShellInv
  <1>2. ASSUME Business', (ShellIsFree /\ TurnKnows)'
        PROVE  ShellInv'
    BY <1>2 DEF ShellInv
  <1>3. CASE Refused
    <2>1. UNCHANGED <<mgr, sess, late, turn, stops, irq, rec>>
      BY <1>3 DEF Refused
    <2>2. Business'
      BY <1>1, <2>1, BusinessKept
    <2>3. (ShellIsFree /\ TurnKnows)'
      BY <1>1, <2>1, TurnKept
    <2>4. QED
      BY <1>2, <2>2, <2>3
  <1>4. ASSUME NEW t \in TurnType, ConnectLocked(t), UNCHANGED <<late, stops, irq, rec>>,
               t.op = "job" => mgr.activeJob = NoJob
        PROVE  ShellInv'
    <2>1. "password" \in Stages
      BY DEF Stages
    <2>2. /\ turn' = NoTurn \/ turn' = Move(t, "password")
          /\ sess' = sess /\ mgr' = [mgr EXCEPT !.timer = FALSE]
      BY <1>4 DEF ConnectLocked, Turn
    <2>3. mgr'.activeJob = mgr.activeJob /\ mgr'.current = mgr.current
      BY <1>1, <2>2 DEF MgrType
    <2>4. Business'
      BY <1>1, <1>4, <2>2, <2>3, BusinessKept
    <2>5. turn'.at \in {"idle", "password"} /\ (turn'.op = "job" => t.op = "job")
      BY <2>1, <2>2, NoTurnIs, MoveKeeps
    <2>6. (ShellIsFree /\ TurnKnows)'
      BY <1>4, <2>3, <2>5, TurnRests
    <2>7. QED
      BY <1>2, <2>4, <2>6
  <1>5. CASE StartConnect
    <2>1. CASE LiveNow
      <3>1. /\ turn' = NoTurn /\ UNCHANGED <<sess, late, stops, irq, rec>>
            /\ mgr' = [mgr EXCEPT !.timer = FALSE]
        BY <1>5, <2>1 DEF StartConnect, Turn
      <3>2. mgr'.activeJob = mgr.activeJob /\ mgr'.current = mgr.current
        BY <1>1, <3>1 DEF MgrType
      <3>3. Business'
        BY <1>1, <3>1, <3>2, BusinessKept
      <3>4. (ShellIsFree /\ TurnKnows)'
        BY <3>1, NoTurnIs, TurnRests
      <3>5. QED
        BY <1>2, <3>3, <3>4
    <2>2. CASE ~LiveNow
      <3>1. /\ [NoTurn EXCEPT !.op = "connect"] \in TurnType
            /\ [NoTurn EXCEPT !.op = "connect"].op = "connect"
        BY NoTurnTyped DEF TurnType, Ops, NoTurn
      <3>2. ConnectLocked([NoTurn EXCEPT !.op = "connect"]) /\ UNCHANGED <<late, stops, irq, rec>>
        BY <1>5, <2>2 DEF StartConnect
      <3>3. QED
        BY <1>4, <3>1, <3>2
    <2>3. QED
      BY <2>1, <2>2
  (* Navigation of a live session, on its way to a turn of its own.          *)
  <1>6. ASSUME NEW t \in TurnType, Navigate(t, sess.st), LiveNow, UNCHANGED <<mgr, late, stops, irq, rec>>,
               t.op # "enter" => Unclaimed
        PROVE  ShellInv'
    <2>1. /\ GoesOn(turn', t) /\ sess'.fg = sess.fg /\ sess'.wire = sess.wire
          /\ sess'.st \in Live => sess.st \in Live
      BY <1>1, <1>6, NavigateGoesOn
    <2>2. Business'
      BY <1>1, <1>6, <2>1, BusinessKept
    <2>3. CASE turn' = NoTurn
      <3>1. (ShellIsFree /\ TurnKnows)'
        BY <2>3, NoTurnIs, TurnRests
      <3>2. QED
        BY <1>2, <2>2, <3>1
    <2>4. CASE turn' # NoTurn
      <3>1. turn'.op = t.op /\ turn'.at \in Navigating
        BY <2>1, <2>4 DEF GoesOn
      <3>2. t.op # "enter" => sess.fg \notin Jobs /\ mgr.activeJob = NoJob
        BY <1>1, <1>6, UnclaimedIsFree DEF Unclaimed
      <3>3. mgr'.current
        BY <1>6 DEF LiveNow
      <3>4. turn'.at # "executing"
        BY <3>1 DEF Navigating
      <3>5. (ShellIsFree /\ TurnKnows)'
        BY <1>6, <2>1, <3>1, <3>2, <3>3, <3>4, TurnWorks
      <3>6. QED
        BY <1>2, <2>2, <3>5
    <2>5. QED
      BY <2>3, <2>4
  <1>7. ASSUME NEW t \in TurnType, t.op \in {"run", "batch", "list", "job"}, StartNavigation(t)
        PROVE  ShellInv'
    <2>1. UNCHANGED <<late, stops, irq, rec>> /\ (t.op = "job" => Unclaimed)
      BY <1>7 DEF StartNavigation
    <2>2. CASE LiveNow /\ t.op = "list"
      <3>1. "listing" \in Stages
        BY DEF Stages
      <3>2. turn' = Move(t, "listing") /\ UNCHANGED <<mgr, sess>>
        BY <1>7, <2>2 DEF StartNavigation, Turn
      <3>3. turn'.at = "listing" /\ turn'.op = "list"
        BY <2>2, <3>1, <3>2, MoveKeeps
      <3>4. Business'
        BY <1>1, <2>1, <3>2, BusinessKept
      <3>5. (ShellIsFree /\ TurnKnows)'
        BY <2>2, <3>2, <3>3, TurnWorks DEF LiveNow
      <3>6. QED
        BY <1>2, <3>4, <3>5
    <2>3. CASE LiveNow /\ t.op # "list"
      <3>1. Navigate(t, sess.st) /\ UNCHANGED mgr /\ Unclaimed
        BY <1>7, <2>3 DEF StartNavigation
      <3>2. QED
        BY <1>6, <2>1, <2>3, <3>1
    <2>4. CASE ~LiveNow
      <3>1. ConnectLocked(t)
        BY <1>7, <2>4 DEF StartNavigation
      <3>2. t.op = "job" => mgr.activeJob = NoJob
        BY <2>1 DEF Unclaimed
      <3>3. QED
        BY <1>4, <2>1, <3>1, <3>2
    <2>5. QED
      BY <2>2, <2>3, <2>4
  <1>8. CASE StartRun \/ StartBatch \/ StartList \/ \E j \in Jobs : StartJob(j)
    <2>1. BatchSize \in 0 .. BatchSize
      BY LimitAssumption
    <2>2. \A op \in {"run", "list"} : /\ [NoTurn EXCEPT !.op = op] \in TurnType
                                      /\ [NoTurn EXCEPT !.op = op].op = op
      BY NoTurnTyped DEF TurnType, Ops, NoTurn
    <2>3. /\ [NoTurn EXCEPT !.op = "batch", !.left = BatchSize] \in TurnType
          /\ [NoTurn EXCEPT !.op = "batch", !.left = BatchSize].op = "batch"
      BY <2>1, NoTurnTyped DEF TurnType, Ops, NoTurn
    <2>4. \A j \in Jobs : /\ [NoTurn EXCEPT !.op = "job", !.job = j] \in TurnType
                          /\ [NoTurn EXCEPT !.op = "job", !.job = j].op = "job"
      BY NoTurnTyped DEF TurnType, Ops, NoTurn
    <2>5. PICK t \in TurnType : t.op \in {"run", "batch", "list", "job"} /\ StartNavigation(t)
      BY <1>8, <2>2, <2>3, <2>4 DEF StartRun, StartBatch, StartList, StartJob
    <2>6. QED
      BY <1>7, <2>5
  <1>9. CASE StartEnter
    <2>1. /\ [NoTurn EXCEPT !.op = "enter"] \in TurnType
          /\ [NoTurn EXCEPT !.op = "enter"].op = "enter"
      BY NoTurnTyped DEF TurnType, Ops, NoTurn
    <2>2. /\ Navigate([NoTurn EXCEPT !.op = "enter"], sess.st) /\ LiveNow
          /\ UNCHANGED <<mgr, late, stops, irq, rec>>
      BY <1>9 DEF StartEnter
    <2>3. QED
      BY <1>6, <2>1, <2>2
  <1>10. CASE StartLeave
    <2>1. /\ turn' = [NoTurn EXCEPT !.op = "leave", !.at = "leaving"] /\ LiveNow
          /\ UNCHANGED <<mgr, sess, late, stops, irq, rec>>
      BY <1>10 DEF StartLeave, Turn
    <2>2. turn'.op = "leave" /\ turn'.at = "leaving"
      BY <2>1 DEF NoTurn
    <2>3. Business'
      BY <1>1, <2>1, BusinessKept
    <2>4. (ShellIsFree /\ TurnKnows)'
      BY <2>1, <2>2, TurnWorks DEF Navigating, LiveNow
    <2>5. QED
      BY <1>2, <2>3, <2>4
  <1>11. CASE StartExec
    <2>1. /\ turn' = [NoTurn EXCEPT !.op = "exec", !.at = "executing"] /\ LiveNow /\ Unclaimed
          /\ UNCHANGED <<mgr, late, stops, irq, rec>> /\ sess' = Typed(sess)
      BY <1>11 DEF StartExec, Turn
    <2>2. turn'.op = "exec" /\ turn'.at = "executing"
      BY <2>1 DEF NoTurn
    <2>3. sess'.wire = sess.wire /\ sess'.fg \notin Jobs
      BY <1>1, <2>1, TypedKeeps, UnclaimedIsFree
    <2>4. Business'
      BY <1>1, <2>1, <2>3, BusinessKept
    <2>5. (ShellIsFree /\ TurnKnows)'
      BY <2>1, <2>2, <2>3, TurnWorks DEF LiveNow
    <2>6. QED
      BY <1>2, <2>4, <2>5
  <1>12. CASE Close
    <2> DEFINE m == [Released(mgr) EXCEPT !.timer = FALSE, !.current = FALSE]
    <2>1. m \in MgrType /\ m.activeJob = NoJob /\ m.current = FALSE
      BY <1>1, ReleasedTyped DEF MgrType
    <2>2. AfterClose(m) \in MgrType /\ AfterClose(m).activeJob = NoJob
      BY <2>1, AfterCloseTyped
    <2> HIDE DEF m
    <2>3. turn' = turn /\ UNCHANGED <<stops, irq, rec>> /\ turn = NoTurn
      BY <1>12 DEF Close, Quiet
    <2>4. mgr' = [AfterClose(m) EXCEPT !.attempts = 0] \/ mgr' = [m EXCEPT !.attempts = 0]
      BY <1>12 DEF Close, m
    <2>5. mgr'.activeJob = NoJob
      BY <2>1, <2>2, <2>4 DEF MgrType
    <2>6. (ShellIsFree /\ TurnKnows)'
      BY <2>3, NoTurnIs, TurnRests
    <2>7. NoneLate
      BY <1>1 DEF Business
    <2>8. CASE mgr.current
      <3>1. sess' = ClosedSession(sess.st) /\ late' = Owed
        BY <1>12, <2>8 DEF Close
      <3>2. sess'.wire = "none" /\ sess'.fg = "none" /\ late' = "none" /\ irq' = "none"
        BY <2>3, <2>7, <3>1 DEF ClosedSession, Owed, Calm, NoneLate
      <3>3. Business'
        BY <3>2, NoJobs, BusinessOver
      <3>4. QED
        BY <1>2, <2>6, <3>3
    <2>9. CASE ~mgr.current
      <3>1. mgr' = [m EXCEPT !.attempts = 0] /\ UNCHANGED <<sess, late>>
        BY <1>12, <2>9 DEF Close, m
      <3>2. mgr'.current = FALSE
        BY <2>1, <3>1 DEF MgrType
      <3>3. Foreground' /\ NoneLate' /\ ShellBack'
        BY <1>1, <2>3, <3>1, <3>2 DEF Business, Foreground, LiveNow, NoneLate, ShellBack
      <3>4. Claims'
        BY <1>1, <2>3, <2>9, <3>1 DEF Business, Claims
      <3>5. QED
        BY <1>2, <2>6, <3>3, <3>4 DEF Business
    <2>10. QED
      BY <2>8, <2>9
  <1>13. QED
    BY <1>3, <1>5, <1>8, <1>9, <1>10, <1>11, <1>12 DEF Starting

(* A connect comes without old business, and finds a menu.                 *)
LEMMA ConnectingShell ==
    ASSUME IInv, Calm, ShellInv,
           NoPassword \/ NewSession \/ FactoryRejects \/ Attach \/ MenuSeen \/ MenuFails
    PROVE  ShellInv'
  <1>1. /\ TypeOK /\ turn \in TurnType /\ sess \in SessType /\ sess.st \in States /\ mgr \in MgrType
        /\ stops \in [Jobs -> Probes] /\ Business /\ ShellIsFree /\ TurnKnows
    BY DEF IInv, TypeOK, SessType, ShellInv
  <1>2. ASSUME Business', (ShellIsFree /\ TurnKnows)'
        PROVE  ShellInv'
    BY <1>2 DEF ShellInv
  <1>3. NoneLate /\ Owed = "none"
    BY <1>1 DEF Business, NoneLate, Owed, Calm
  <1>4. CASE NoPassword
    <2>1. turn' = NoTurn /\ UNCHANGED <<mgr, sess, late, stops, irq, rec>>
      BY <1>4 DEF NoPassword, Turn
    <2>2. Business'
      BY <1>1, <2>1, BusinessKept
    <2>3. (ShellIsFree /\ TurnKnows)'
      BY <2>1, NoTurnIs, TurnRests
    <2>4. QED
      BY <1>2, <2>2, <2>3
  <1>5. CASE NewSession
    <2> DEFINE m == IF mgr.current THEN AfterClose(mgr) ELSE mgr
    <2>1. m \in MgrType
      BY <1>1, AfterCloseTyped
    <2>2. mgr' = [Released(m) EXCEPT !.current = TRUE]
      BY <1>5 DEF NewSession
    <2> HIDE DEF m
    <2>3. mgr'.activeJob = NoJob
      BY <2>1, <2>2, ReleasedTyped DEF MgrType
    <2>4. /\ sess'.wire = "none" /\ sess'.fg = "none" /\ turn' = Move(turn, "dialing")
          /\ late' = IF Owed = "own" THEN "old" ELSE late
          /\ irq' = Aged(irq) /\ stops' = [j \in Jobs |-> Aged(stops[j])]
      BY <1>5 DEF NewSession, Turn
    <2>5. late' = "none" /\ irq' = "none"
      BY <1>3, <2>4 DEF NoneLate, Aged
    <2>6. Business'
      BY <2>4, <2>5, NoJobs, BusinessOver
    <2>7. turn'.at = "dialing"
      BY <1>1, <2>4, MoveKeeps DEF Stages
    <2>8. \A j \in Jobs : stops'[j] \notin OnNewest
      BY <1>1, <2>4 DEF Aged, OnNewest
    <2>9. (ShellIsFree /\ TurnKnows)'
      BY <2>3, <2>4, <2>7, <2>8, NoJobs DEF ShellIsFree, TurnKnows, Navigating
    <2>10. QED
      BY <1>2, <2>6, <2>9
  <1>6. CASE FactoryRejects \/ MenuFails
    <2>1. /\ turn' = NoTurn /\ irq' = irq /\ sess' = TornDown
          /\ late' = late \/ late' = Owed
      BY <1>6 DEF FactoryRejects, MenuFails, Turn
    <2>2. sess'.wire = "none" /\ sess'.fg = "none"
      BY <2>1 DEF TornDown
    <2>3. late' = "none" /\ irq' = "none"
      BY <1>3, <2>1 DEF NoneLate
    <2>4. Business'
      BY <2>2, <2>3, NoJobs, BusinessOver
    <2>5. (ShellIsFree /\ TurnKnows)'
      BY <2>1, NoTurnIs, TurnRests
    <2>6. QED
      BY <1>2, <2>4, <2>5
  <1>7. CASE Attach
    <2>1. /\ turn' = Move(turn, "menuWait") /\ UNCHANGED <<mgr, late, stops, irq, rec>>
          /\ sess' = [sess EXCEPT !.wire = "open", !.fg = "menu"] /\ turn.at = "dialing"
      BY <1>7 DEF Attach, Turn, At
    <2>2. sess'.fg = "menu" /\ turn'.at = "menuWait" /\ turn'.op = turn.op
      BY <1>1, <2>1, MoveKeeps DEF SessType, Stages
    <2>3. OldBusinessOver
      BY <1>7 DEF Attach, Calm
    <2>4. mgr.activeJob = NoJob /\ \A j \in Jobs : stops[j] \notin OnNewest
      BY <1>1, <2>1 DEF TurnKnows
    <2>5. \A j \in Jobs : rec[j] # "RUNNING" /\ stops[j] = "none"
      BY <2>3, <2>4, NoJobs DEF OldBusinessOver
    <2>6. Claims'
      BY <2>1, <2>5 DEF Claims, OnNewest
    <2>7. Foreground' /\ NoneLate' /\ ShellBack'
      BY <1>3, <2>1, <2>2, NoJobs DEF Foreground, NoneLate, ShellBack
    <2>8. (ShellIsFree /\ TurnKnows)'
      BY <2>1, <2>2, <2>4, NoJobs DEF ShellIsFree, TurnKnows, Navigating
    <2>9. QED
      BY <1>2, <2>6, <2>7, <2>8 DEF Business
  <1>8. CASE MenuSeen
    <2> DEFINE st == SetState(sess.st, "MENU")
    <2>1. st \in States
      BY <1>1, SetStateTyped DEF States
    <2>2. /\ UNCHANGED <<late, stops, irq, rec>> /\ turn.at = "menuWait"
          /\ mgr' = [mgr EXCEPT !.attempts = 0]
      BY <1>8 DEF MenuSeen, At
    <2>3. mgr'.activeJob = mgr.activeJob /\ mgr'.current = mgr.current
      BY <1>1, <2>2 DEF MgrType
    <2>4. sess.fg \notin Jobs
      BY <1>1, <2>2 DEF ShellIsFree
    <2>5. ASSUME sess'.fg = sess.fg, sess'.wire = sess.wire
          PROVE  Business'
      BY <1>1, <2>2, <2>3, <2>4, <2>5, BusinessKept
    <2>6. CASE Turn(NoTurn) /\ sess' = [sess EXCEPT !.st = st]
      <3>1. turn' = NoTurn /\ sess'.fg = sess.fg /\ sess'.wire = sess.wire
        BY <1>1, <2>6 DEF Turn, SessType
      <3>2. (ShellIsFree /\ TurnKnows)'
        BY <3>1, NoTurnIs, TurnRests
      <3>3. QED
        BY <1>2, <2>5, <3>1, <3>2
    <2>7. CASE turn.op = "list" /\ mgr.current /\ Turn(Move(turn, "listing")) /\ sess' = [sess EXCEPT !.st = st]
      <3>1. /\ turn' = Move(turn, "listing") /\ sess'.fg = sess.fg /\ sess'.wire = sess.wire
            /\ "listing" \in Stages
        BY <1>1, <2>7 DEF Turn, SessType, Stages
      <3>2. turn'.at = "listing" /\ turn'.op = "list"
        BY <1>1, <2>7, <3>1, MoveKeeps
      <3>3. (ShellIsFree /\ TurnKnows)'
        BY <2>3, <2>7, <3>2, TurnWorks
      <3>4. QED
        BY <1>2, <2>5, <3>1, <3>3
    <2>8. CASE mgr.current /\ Navigate(turn, st)
      <3>1. GoesOn(turn', turn) /\ sess'.fg = sess.fg /\ sess'.wire = sess.wire
        BY <1>1, <2>1, <2>8, NavigateGoesOn
      <3>2. (ShellIsFree /\ TurnKnows)'
        BY <1>1, <2>2, <2>3, <2>8, <3>1, TurnGoesOn
      <3>3. QED
        BY <1>2, <2>5, <3>1, <3>2
    <2>9. QED
      BY <1>8, <2>6, <2>7, <2>8 DEF MenuSeen
  <1>9. QED
    BY <1>4, <1>5, <1>6, <1>7, <1>8

(* Navigation and commands leave the shell to the job that has the claim.   *)
LEMMA WorkShell ==
    ASSUME IInv, StopInv, Calm, ShellInv,
           \/ Listed \/ Entered \/ EntryFails \/ PauseEnds \/ Left \/ LeaveAborted
           \/ LeaveFails \/ Denied \/ Approved \/ JobTyped \/ JobStarted \/ Executed
    PROVE  ShellInv'
  <1>1. /\ TypeOK /\ turn \in TurnType /\ sess \in SessType /\ sess.st \in States /\ mgr \in MgrType
        /\ {"SHELL", "MENU", "UNKNOWN", "DISCONNECTED", "ENTERING"} \subseteq States
        /\ rec \in [Jobs -> {"none", "RUNNING", "VERIFYING", "STOPPED", "LOST"}]
        /\ Business /\ ShellIsFree /\ TurnKnows
    BY DEF IInv, TypeOK, SessType, ShellInv, States
  <1>2. ASSUME Business', (ShellIsFree /\ TurnKnows)'
        PROVE  ShellInv'
    BY <1>2 DEF ShellInv
  <1>3. NoneLate /\ Owed = "none"
    BY <1>1 DEF Business, NoneLate, Owed, Calm
  (* Most of them move the turn on and the session's state, and nothing else. *)
  <1>4. ASSUME UNCHANGED <<mgr, late, stops, irq, rec>>, GoesOn(turn', turn), sess'.wire = sess.wire,
               sess'.fg = sess.fg \/ sess'.fg \notin Jobs,
               sess'.fg \in Jobs /\ sess'.st \in Live => sess.st \in Live,
               turn.at \in Navigating \cup {"executing"}
        PROVE  ShellInv'
    <2>1. Business'
      BY <1>1, <1>4, BusinessKept
    <2>2. turn.at # "menuWait"
      BY <1>4 DEF Navigating
    <2>3. (ShellIsFree /\ TurnKnows)'
      BY <1>1, <1>4, <2>2, TurnGoesOn
    <2>4. QED
      BY <1>2, <2>1, <2>3
  <1>5. GoesOn(NoTurn, turn)
    BY DEF GoesOn
  <1>6. CASE Listed
    <2>1. /\ turn' = NoTurn /\ UNCHANGED <<mgr, late, stops, irq, rec>>
          /\ sess' \in {sess, Became("UNKNOWN")}
      BY <1>6 DEF Listed, Turn
    <2>2. sess'.wire = sess.wire /\ sess'.fg = sess.fg /\ (sess'.st \in Live => sess.st \in Live)
      BY <1>1, <2>1, BecameKeeps, NotRevived
    <2>3. Business'
      BY <1>1, <2>1, <2>2, BusinessKept
    <2>4. (ShellIsFree /\ TurnKnows)'
      BY <2>1, NoTurnIs, TurnRests
    <2>5. QED
      BY <1>2, <2>3, <2>4
  <1>7. CASE Entered
    <2>1. /\ turn' = NoTurn \/ turn' = Move(turn, "approving")
          /\ UNCHANGED <<mgr, late, stops, irq, rec>> /\ sess' = Became("SHELL")
          /\ turn.at = "entering" /\ sess.fg = "shell"
      BY <1>7 DEF Entered, Turn, At
    <2>2. "approving" \in Stages /\ sess'.fg = "shell" /\ sess'.wire = sess.wire
      BY <1>1, <2>1, BecameKeeps DEF Stages
    <2>3. GoesOn(turn', turn)
      BY <1>1, <1>5, <2>1, <2>2, MoveKeeps DEF GoesOn, Navigating
    <2>4. QED
      BY <1>4, <2>1, <2>2, <2>3, NoJobs DEF Navigating
  <1>8. CASE EntryFails
    <2>1. PICK t \in Failing(turn) : turn' = t
      BY <1>8 DEF EntryFails, Turn
    <2>2. UNCHANGED <<mgr, late, stops, irq, rec>> /\ turn.at = "entering" /\ sess' \in FailedEntry
      BY <1>8 DEF EntryFails, At
    <2>3. /\ sess' \in {sess, Became("UNKNOWN"), Became("DISCONNECTED"), Became("MENU")}
          /\ sess' = Became("MENU") => sess.fg = "menu" \/ sess' \in {sess, Became("UNKNOWN"), Became("DISCONNECTED")}
      BY <2>2 DEF FailedEntry
    <2>4. sess'.wire = sess.wire /\ sess'.fg = sess.fg
      BY <1>1, <2>3, BecameKeeps
    <2>5. sess'.fg \in Jobs /\ sess'.st \in Live => sess.st \in Live
      <3>1. CASE sess.fg = "menu"
        BY <2>4, <3>1, NoJobs
      <3>2. CASE sess' \in {sess, Became("UNKNOWN"), Became("DISCONNECTED")}
        BY <1>1, <3>2, BecameKeeps, NotRevived
      <3>3. QED
        BY <2>3, <3>1, <3>2
    <2>6. QED
      BY <1>1, <1>4, <2>1, <2>2, <2>4, <2>5, FailingGoesOn DEF Navigating
  <1>9. CASE PauseEnds
    <2> DEFINE t == [turn EXCEPT !.retried = TRUE]
    <2>1. t \in TurnType /\ t.op = turn.op /\ t.job = turn.job
      BY <1>1 DEF TurnType
    <2>2. /\ UNCHANGED <<mgr, late, stops, irq, rec>> /\ turn.at = "pause"
          /\ (turn' = NoTurn /\ sess' = sess) \/ Navigate(t, sess.st)
      BY <1>9 DEF PauseEnds, Turn, At
    <2>3. /\ sess'.fg = sess.fg /\ sess'.wire = sess.wire /\ (sess'.st \in Live => sess.st \in Live)
          /\ turn' = NoTurn \/ GoesOn(turn', t)
      <3> HIDE DEF t
      <3>1. QED
        BY <1>1, <2>1, <2>2, NavigateGoesOn
    <2>4. GoesOn(turn', turn)
      BY <2>1, <2>3 DEF GoesOn
    <2>5. QED
      BY <1>4, <2>2, <2>3, <2>4 DEF Navigating
  <1>10. CASE Left
    <2> DEFINE st == SetState(sess.st, "MENU")
    <2>1. st \in States
      BY <1>1, SetStateTyped
    <2>2. /\ UNCHANGED <<mgr, late, stops, irq, rec>> /\ turn.at = "leaving" /\ sess.fg = "menu"
          /\ (turn' = NoTurn /\ sess' = [sess EXCEPT !.st = st]) \/ Navigate(turn, st)
      BY <1>10 DEF Left, Turn, At
    <2>3. sess'.fg = sess.fg /\ sess'.wire = sess.wire /\ GoesOn(turn', turn)
      <3>1. CASE turn' = NoTurn /\ sess' = [sess EXCEPT !.st = st]
        BY <1>1, <1>5, <3>1 DEF SessType
      <3>2. CASE Navigate(turn, st)
        BY <1>1, <2>1, <3>2, NavigateGoesOn
      <3>3. QED
        BY <2>2, <3>1, <3>2
    <2>4. QED
      BY <1>4, <2>2, <2>3, NoJobs DEF Navigating
  <1>11. CASE LeaveAborted
    <2>1. turn' = NoTurn /\ turn.at = "leaving" /\ UNCHANGED <<mgr, sess, late, stops, irq, rec>>
      BY <1>11 DEF LeaveAborted, Turn, At
    <2>2. QED
      BY <1>4, <1>5, <2>1 DEF Navigating
  <1>12. CASE LeaveFails
    <2> DEFINE m    == [mgr EXCEPT !.current = FALSE]
               lost == IF mgr.current THEN AfterClose(m) ELSE m
    <2>1. m \in MgrType
      BY <1>1 DEF MgrType
    <2>2. lost \in MgrType
      BY <2>1, AfterCloseTyped
    <2>3. mgr' = [Released(lost) EXCEPT !.timer = FALSE]
      BY <1>12 DEF LeaveFails
    <2> HIDE DEF lost
    <2>4. mgr'.activeJob = NoJob
      BY <2>2, <2>3, ReleasedTyped DEF MgrType
    <2>5. /\ turn' = NoTurn \/ turn' = [turn EXCEPT !.at = "password", !.healed = TRUE]
          /\ irq' = irq /\ turn.at = "leaving"
          /\ late' = Owed \/ late' = late
          /\ mgr.current => sess' = ClosedSession(SetState(sess.st, "UNKNOWN"))
          /\ ~mgr.current => sess' = Became("UNKNOWN")
      BY <1>12 DEF LeaveFails, Turn, At
    <2>6. turn'.at \in {"idle", "password"}
      BY <1>1, <2>5, NoTurnIs DEF TurnType
    <2>7. (ShellIsFree /\ TurnKnows)'
      BY <2>4, <2>6, TurnRests
    <2>8. sess'.wire # "open" /\ sess'.fg \notin Jobs
      <3>1. CASE mgr.current
        BY <2>5, <3>1, NoJobs DEF ClosedSession
      <3>2. CASE ~mgr.current
        <4>1. sess.wire # "open"
          BY <1>1, <2>5, <3>2 DEF TurnKnows, Navigating
        <4>2. sess.fg \notin Jobs
          BY <1>1, <4>1 DEF Business, Foreground
        <4>3. QED
          BY <1>1, <2>5, <3>2, <4>1, <4>2, BecameKeeps
      <3>3. QED
        BY <3>1, <3>2
    <2>9. late' = "none" /\ irq' = "none"
      BY <1>3, <2>5 DEF NoneLate
    <2>10. Business'
      BY <2>8, <2>9, BusinessOver
    <2>11. QED
      BY <1>2, <2>7, <2>10
  <1>13. CASE Denied
    <2>1. PICK t \in Onward(turn) : turn' = t
      BY <1>13 DEF Denied, Turn
    <2>2. UNCHANGED <<mgr, sess, late, stops, irq, rec>> /\ turn.at = "approving"
      BY <1>13 DEF Denied, At
    <2>3. QED
      BY <1>1, <1>4, <2>1, <2>2, OnwardGoesOn DEF Navigating
  <1>14. CASE Approved
    <2>1. /\ turn' = Move(turn, "executing") /\ UNCHANGED <<mgr, late, stops, irq, rec>>
          /\ sess' = Typed(sess) /\ turn.at = "approving" /\ turn.op \in {"run", "batch"}
      BY <1>14 DEF Approved, Turn, At
    <2>2. turn'.at = "executing" /\ turn'.op = turn.op
      BY <1>1, <2>1, MoveKeeps DEF Stages
    <2>3. sess.fg \notin Jobs /\ (sess.wire = "open" => mgr.current)
      BY <1>1, <2>1 DEF ShellIsFree, TurnKnows, Navigating
    <2>4. sess'.wire = sess.wire /\ sess'.fg \notin Jobs
      BY <1>1, <2>1, <2>3, TypedKeeps
    <2>5. Business'
      BY <1>1, <2>1, <2>4, BusinessKept
    <2>6. (ShellIsFree /\ TurnKnows)'
      BY <2>1, <2>2, <2>3, <2>4, TurnWorks
    <2>7. QED
      BY <1>2, <2>5, <2>6
  <1>15. CASE JobTyped
    <2>1. /\ turn.op = "job" /\ turn.at = "approving" /\ sess.wire = "open"
          /\ UNCHANGED <<late, stops, irq, rec>> /\ turn' = Move(turn, "auditing")
          /\ sess' = [sess EXCEPT !.fg = IF sess.fg = "shell" THEN turn.job ELSE sess.fg]
          /\ mgr' = [mgr EXCEPT !.activeJob = turn.job]
      BY <1>15 DEF JobTyped, Turn, At
    <2>2. /\ sess'.wire = "open" /\ (sess'.fg = turn.job \/ sess'.fg = sess.fg)
          /\ mgr'.activeJob = turn.job /\ mgr'.current = mgr.current
      BY <1>1, <2>1 DEF SessType, MgrType
    <2>3. turn'.at = "auditing" /\ turn'.job = turn.job /\ turn'.op = "job"
      BY <1>1, <2>1, MoveKeeps DEF Stages
    <2>4. mgr.current /\ mgr.activeJob = NoJob /\ sess.fg \notin Jobs
      BY <1>1, <2>1 DEF TurnKnows, ShellIsFree, Navigating
    <2>5. \A j \in Jobs : rec[j] # "RUNNING" /\ stops[j] = "none"
      BY <1>1, <2>1, <2>4, NoJobs DEF Business, Claims
    <2>6. Claims' /\ ShellBack'
      BY <2>1, <2>5 DEF Claims, ShellBack, OnNewest
    <2>7. Foreground' /\ NoneLate'
      BY <1>3, <2>1, <2>2, <2>4 DEF Foreground, NoneLate
    <2>8. (ShellIsFree /\ TurnKnows)'
      BY <2>2, <2>3, <2>4 DEF ShellIsFree, TurnKnows, Navigating
    <2>9. QED
      BY <1>2, <2>6, <2>7, <2>8 DEF Business
  <1>16. CASE JobStarted
    <2>1. /\ turn.at = "auditing" /\ UNCHANGED <<mgr, sess, late, stops, irq>>
          /\ turn' = NoTurn /\ rec' = [rec EXCEPT ![turn.job] = "RUNNING"]
      BY <1>16 DEF JobStarted, Turn, At
    <2>2. sess.wire = "open" => mgr.activeJob = turn.job /\ mgr.current
      BY <1>1, <2>1 DEF TurnKnows
    <2>3. \A j \in Jobs : rec'[j] = "RUNNING" => j = turn.job \/ rec[j] = "RUNNING"
      BY <1>1, <2>1
    <2>4. Claims'
      BY <1>1, <2>1, <2>2, <2>3 DEF Business, Claims
    <2>5. Foreground' /\ NoneLate' /\ ShellBack'
      BY <1>1, <2>1 DEF Business, Foreground, LiveNow, NoneLate, ShellBack
    <2>6. (ShellIsFree /\ TurnKnows)'
      BY <2>1, NoTurnIs, TurnRests
    <2>7. QED
      BY <1>2, <2>4, <2>5, <2>6 DEF Business
  <1>17. CASE Executed
    <2>1. PICK t \in Onward(turn) : turn' = t
      BY <1>17 DEF Executed, Turn
    <2>2. /\ UNCHANGED <<mgr, late, stops, irq, rec>> /\ turn.at = "executing"
          /\ sess' \in {Became(s) : s \in States}
      BY <1>1, <1>17 DEF Executed, At
    <2>3. sess.fg \notin Jobs
      BY <1>1, <2>2 DEF ShellIsFree
    <2>4. sess'.wire = sess.wire /\ sess'.fg = sess.fg
      BY <1>1, <2>2, BecameKeeps
    <2>5. QED
      BY <1>1, <1>4, <2>1, <2>2, <2>3, <2>4, OnwardGoesOn
  <1>18. QED
    BY <1>6, <1>7, <1>8, <1>9, <1>10, <1>11, <1>12, <1>13, <1>14, <1>15, <1>16, <1>17

(* Nor does anything that does not queue take it away: only the end of its   *)
(* own stop does, and leaves a shell that is free or a session that is not  *)
(* live.                                                                   *)
LEMMA OutsideShell ==
    ASSUME IInv, StopInv, Calm, ShellInv, Outside
    PROVE  ShellInv'
  <1>1. /\ TypeOK /\ turn \in TurnType /\ sess \in SessType /\ sess.st \in States /\ mgr \in MgrType
        /\ {"SHELL", "UNKNOWN", "DISCONNECTED"} \subseteq States
        /\ rec \in [Jobs -> {"none", "RUNNING", "VERIFYING", "STOPPED", "LOST"}]
        /\ stops \in [Jobs -> Probes] /\ Business /\ ShellIsFree /\ TurnKnows
    BY DEF IInv, TypeOK, SessType, ShellInv, States
  <1>2. ASSUME Business', (ShellIsFree /\ TurnKnows)'
        PROVE  ShellInv'
    BY <1>2 DEF ShellInv
  <1>3. NoneLate /\ Owed = "none"
    BY <1>1 DEF Business, NoneLate, Owed, Calm
  (* A step that leaves the claims and the turn alone.                       *)
  <1>4. ASSUME UNCHANGED <<turn, late, stops, irq>>, mgr'.activeJob = mgr.activeJob,
               mgr'.current = mgr.current, sess'.wire = sess.wire,
               \A j \in Jobs : rec'[j] = "RUNNING" => rec[j] = "RUNNING",
               sess'.fg = sess.fg \/ sess'.fg \notin Jobs,
               sess'.fg \in Jobs /\ sess'.st \in Live => sess.st \in Live
        PROVE  ShellInv'
    <2>1. Business'
      BY <1>1, <1>4, BusinessKept
    <2>2. (ShellIsFree /\ TurnKnows)'
      BY <1>1, <1>4, TurnKept
    <2>3. QED
      BY <1>2, <2>1, <2>2
  (* A step after which there is no wire.                                    *)
  <1>5. ASSUME UNCHANGED <<turn, irq>>, late' = "none", mgr'.activeJob \in {mgr.activeJob, NoJob},
               sess'.wire # "open", sess'.fg \notin Jobs,
               \A j \in Jobs : stops'[j] \in OnNewest => stops[j] \in OnNewest
        PROVE  ShellInv'
    <2>1. Business'
      BY <1>3, <1>5, BusinessOver DEF NoneLate
    <2>2. (ShellIsFree /\ TurnKnows)'
      BY <1>1, <1>5, TurnKept
    <2>3. QED
      BY <1>2, <2>1, <2>2
  <1>6. CASE TimerFires
    <2>1. mgr' = [mgr EXCEPT !.timer = FALSE] /\ UNCHANGED <<sess, late, turn, stops, irq, rec>>
      BY <1>6 DEF TimerFires
    <2>2. mgr'.activeJob = mgr.activeJob /\ mgr'.current = mgr.current
      BY <1>1, <2>1 DEF MgrType
    <2>3. QED
      BY <1>4, <2>1, <2>2
  <1>7. CASE Dispose
    <2>1. /\ mgr' = [mgr EXCEPT !.disposed = TRUE, !.timer = FALSE, !.current = FALSE]
          /\ sess' = IF mgr.current THEN ClosedSession(sess.st) ELSE sess
          /\ UNCHANGED <<late, turn, stops, irq, rec>>
      BY <1>7 DEF Dispose
    <2>2. mgr'.activeJob = mgr.activeJob /\ mgr'.current = FALSE /\ mgr.current \in BOOLEAN
      BY <1>1, <2>1 DEF MgrType
    <2>3. CASE mgr.current
      <3>1. sess'.wire = "none" /\ sess'.fg = "none"
        BY <2>1, <2>3 DEF ClosedSession
      <3>2. QED
        BY <1>3, <1>5, <2>1, <2>2, <3>1, NoJobs DEF NoneLate
    <2>4. CASE ~mgr.current
      BY <1>4, <2>1, <2>2, <2>4
    <2>5. QED
      BY <2>3, <2>4
  <1>8. CASE WireDrops
    <2>1. /\ sess' = [Became("DISCONNECTED") EXCEPT !.wire = "closed", !.fg = "none"]
          /\ UNCHANGED <<turn, stops, irq, rec>> /\ late' = Owed
      BY <1>8 DEF WireDrops
    <2>2. PICK op \in PendingOps : mgr' = Lost(mgr, op)
      BY <1>8 DEF WireDrops
    <2>3. op \in BOOLEAN
      BY DEF PendingOps
    <2>4. mgr'.activeJob \in {mgr.activeJob, NoJob}
      BY <1>1, <2>2, <2>3, LostTyped
    <2>5. sess'.wire = "closed" /\ sess'.fg = "none"
      BY <1>1, <2>1, BecameTyped DEF SessType
    <2>6. QED
      BY <1>3, <1>5, <2>1, <2>4, <2>5, NoJobs
  <1>9. CASE LateClose \/ Interrupt \/ InterruptEnds
    BY <1>3, <1>9 DEF NoneLate, Calm, LateClose, Interrupt, InterruptEnds
  <1>10. CASE FarEnd
    <2>1. UNCHANGED <<mgr, late, turn, stops, irq, rec>>
      BY <1>10 DEF FarEnd
    <2>2. sess'.fg \in {"shell", "menu"} /\ sess'.wire = sess.wire
      BY <1>1, <1>10 DEF FarEnd, SessType
    <2>3. QED
      BY <1>4, <2>1, <2>2, NoJobs
  <1>11. CASE Answers
    <2>1. UNCHANGED <<mgr, sess, late, turn, rec>> /\ sess.fg = "shell" /\ irq' = irq
      BY <1>3, <1>11 DEF Answers, NoneLate
    <2>2. PICK j \in Jobs : stops[j] = "probing" /\ stops' = [stops EXCEPT ![j] = "answered"]
      BY <1>3, <1>11 DEF Answers, NoneLate
    <2>3. \A k \in Jobs : stops'[k] = stops[k] \/ (stops[k] = "probing" /\ stops'[k] = "answered")
      BY <1>1, <2>2
    <2>4. \A k \in Jobs : /\ stops'[k] \in OnNewest <=> stops[k] \in OnNewest
                          /\ stops'[k] = "none" <=> stops[k] = "none"
      BY <2>3 DEF OnNewest
    <2>5. Claims'
      BY <1>1, <2>1, <2>4 DEF Business, Claims
    <2>6. Foreground' /\ NoneLate' /\ ShellBack'
      BY <1>1, <2>1, NoJobs DEF Business, Foreground, LiveNow, NoneLate, ShellBack
    <2>7. (ShellIsFree /\ TurnKnows)'
      BY <1>1, <2>1, <2>4, TurnKept
    <2>8. QED
      BY <1>2, <2>5, <2>6, <2>7 DEF Business
  <1>12. ASSUME NEW j \in Jobs, Stop(j) PROVE ShellInv'
    <2>1. UNCHANGED <<late, turn, irq>> /\ stops[j] = "none" /\ rec[j] = "RUNNING"
      BY <1>12 DEF Stop, Unshared, StopInv, ProbesAreOfStops
    <2>2. sess.wire = "open" => mgr.activeJob = j /\ mgr.current
      BY <1>1, <2>1 DEF Business, Claims
    <2>3. CASE StopRefused(j)
      <3>1. rec' = [rec EXCEPT ![j] = "LOST"] /\ UNCHANGED <<mgr, sess, stops>>
        BY <1>12, <2>1, <2>3 DEF Stop
      <3>2. \A k \in Jobs : rec'[k] = "RUNNING" => rec[k] = "RUNNING"
        BY <1>1, <3>1
      <3>3. QED
        BY <1>4, <2>1, <3>1, <3>2
    <2>4. CASE ~StopRefused(j) /\ mgr.current /\ sess.wire = "open"
      <3>1. /\ rec' = [rec EXCEPT ![j] = "VERIFYING"] /\ mgr' = [mgr EXCEPT !.stoppingJob = j]
            /\ stops' = [stops EXCEPT ![j] = "probing"] /\ UNCHANGED sess
        BY <1>12, <2>1, <2>4 DEF Stop
      <3>2. mgr'.activeJob = mgr.activeJob /\ mgr'.current = mgr.current
        BY <1>1, <3>1 DEF MgrType
      <3>3. \A k \in Jobs : /\ rec'[k] = "RUNNING" => rec[k] = "RUNNING"
                            /\ stops'[k] = IF k = j THEN "probing" ELSE stops[k]
        BY <1>1, <3>1
      <3>4. Claims'
        BY <1>1, <2>2, <2>4, <3>1, <3>2, <3>3 DEF Business, Claims, OnNewest
      <3>5. Foreground' /\ NoneLate' /\ ShellBack'
        BY <1>1, <2>1, <3>1, <3>2, <3>3 DEF Business, Foreground, LiveNow, NoneLate, ShellBack
      <3>6. turn.at # "dialing"
        BY <2>4 DEF IInv, DialIsKnown
      <3>7. (ShellIsFree /\ TurnKnows)'
        BY <1>1, <2>1, <3>1, <3>2, <3>6, TurnKept
      <3>8. QED
        BY <1>2, <3>4, <3>5, <3>7 DEF Business
    <2>5. CASE ~StopRefused(j) /\ ~(mgr.current /\ sess.wire = "open")
      <3>1. /\ mgr' = Released(mgr) /\ stops' = stops
            /\ sess' = sess \/ sess' = Became("UNKNOWN")
        BY <1>12, <2>1, <2>5 DEF Stop
      <3>2. sess.wire # "open"
        BY <2>2, <2>5
      <3>3. sess.fg \notin Jobs
        BY <1>1, <3>2 DEF Business, Foreground
      <3>4. sess'.wire # "open" /\ sess'.fg \notin Jobs
        BY <1>1, <3>1, <3>2, <3>3, BecameKeeps
      <3>5. mgr'.activeJob = NoJob
        BY <1>1, <3>1, ReleasedTyped
      <3>6. QED
        BY <1>3, <1>5, <2>1, <3>1, <3>4, <3>5 DEF NoneLate
    <2>6. QED
      BY <2>3, <2>4, <2>5
  <1>13. ASSUME NEW j \in Jobs, StopEnds(j) PROVE ShellInv'
    <2>1. /\ UNCHANGED <<turn, late, irq>> /\ stops[j] # "none" /\ ProbeEnds(stops[j])
          /\ mgr' = Released(mgr) /\ stops' = [stops EXCEPT ![j] = "none"]
      BY <1>13 DEF StopEnds
    <2>2. \A k \in Jobs : rec'[k] = "RUNNING" => rec[k] = "RUNNING"
      BY <1>1, <1>13 DEF StopEnds
    <2>3. \A k \in Jobs : stops'[k] = IF k = j THEN "none" ELSE stops[k]
      BY <1>1, <2>1
    <2>4. \A k \in Jobs : stops'[k] \in OnNewest => k # j /\ stops[k] \in OnNewest
      BY <2>3 DEF OnNewest
    <2>5. mgr'.activeJob = NoJob /\ mgr'.current = mgr.current
      BY <1>1, <2>1, ReleasedTyped
    <2>6. sess'.wire = sess.wire /\ sess'.fg = sess.fg
      BY <1>1, <2>1, BecameKeeps DEF ProbeEnds
    <2>7. CASE sess.wire # "open"
      <3>1. sess.fg \notin Jobs
        BY <1>1, <2>7 DEF Business, Foreground
      <3>2. QED
        BY <1>3, <1>5, <2>1, <2>4, <2>5, <2>6, <2>7, <3>1 DEF NoneLate
    <2>8. CASE sess.wire = "open"
      <3>1. stops[j] \in OnNewest /\ mgr.activeJob = j
        BY <1>1, <2>1, <2>8 DEF Business, Claims
      <3>2. \A k \in Jobs : k # j => rec[k] # "RUNNING" /\ stops[k] \notin OnNewest
        BY <1>1, <2>8, <3>1 DEF Business, Claims
      <3>3. rec[j] \notin {"none", "RUNNING"}
        BY <2>1 DEF StopInv, ProbesAreOfStops
      <3>4. Claims'
        <4>1. \A k \in Jobs : rec'[k] # "RUNNING" /\ stops'[k] \notin OnNewest
          BY <2>2, <2>4, <3>2, <3>3
        <4>2. \A k \in Jobs : stops[k] \in {"none"} \cup OnNewest
          BY <1>1, <2>8 DEF Business, Claims
        <4>3. \A k \in Jobs : stops'[k] \in {"none"} \cup OnNewest
          BY <2>3, <4>2
        <4>4. QED
          BY <4>1, <4>3 DEF Claims
      <3>5. sess.fg \in Jobs => sess'.st \notin Live
        <4>1. CASE Verified(stops[j])
          <5>1. stops[j] = "answered"
            BY <3>1, <4>1 DEF Verified, OnNewest
          <5>2. QED
            BY <1>1, <5>1 DEF Business, ShellBack
        <4>2. CASE ~Verified(stops[j])
          <5>1. sess' = Became("UNKNOWN")
            BY <2>1, <3>1, <4>2 DEF ProbeEnds
          <5>2. QED
            BY <1>1, <5>1, BecameKeeps, NotRevived
        <4>3. QED
          BY <4>1, <4>2
      <3>6. Foreground'
        BY <2>6, <2>8, <3>5 DEF Foreground, LiveNow
      <3>7. NoneLate' /\ ShellBack'
        BY <1>1, <2>1, <2>3, <2>6 DEF Business, NoneLate, ShellBack
      <3>8. turn.at # "auditing"
        <4>1. turn.at = "auditing" => turn.job = j /\ rec[turn.job] = "none"
          BY <1>1, <2>8, <3>1 DEF TurnKnows, StopInv, JobIsNew
        <4>2. QED
          BY <3>3, <4>1
      <3>9. (ShellIsFree /\ TurnKnows)'
        BY <1>1, <2>1, <2>4, <2>5, <2>6, <3>8, TurnKept
      <3>10. QED
        BY <1>2, <3>4, <3>6, <3>7, <3>9 DEF Business
    <2>9. QED
      BY <2>7, <2>8
  <1>14. ASSUME NEW j \in Jobs, Pump(j) PROVE ShellInv'
    <2>1. UNCHANGED <<mgr, sess, late, turn, stops, irq>> /\ rec' = [rec EXCEPT ![j] = "LOST"]
      BY <1>14 DEF Pump
    <2>2. \A k \in Jobs : rec'[k] = "RUNNING" => rec[k] = "RUNNING"
      BY <1>1, <2>1
    <2>3. QED
      BY <1>4, <2>1, <2>2
  <1>15. QED
    BY <1>6, <1>7, <1>8, <1>9, <1>10, <1>11, <1>12, <1>13, <1>14 DEF Outside

(* A manager begins with no session.                                       *)
LEMMA InitShell == ASSUME Init PROVE PtyInv
BY NoTurnIs, NoJobs
   DEF Init, PtyInv, ShellInv, Business, NoneLate, Foreground, Claims, ShellBack,
       ShellIsFree, TurnKnows, Navigating

(* No step gives the shell of a job to somebody else.                      *)
LEMMA NextShell == ASSUME IInv, StopInv, PtyInv, [Next]_vars PROVE PtyInv'
  <1>1. SUFFICES ASSUME Calm' PROVE ShellInv'
    BY DEF PtyInv
  <1>2. faults' = faults
    BY DEF Next, vars, Starting, Advance, Outside, Refused, StartConnect, StartRun, StartBatch,
           StartList, StartNavigation, StartEnter, StartLeave, StartExec, Close, StartJob,
           NoPassword, NewSession, FactoryRejects, Attach, MenuSeen, MenuFails, Listed, Entered,
           EntryFails, PauseEnds, Left, LeaveAborted, LeaveFails, Denied, Approved, JobTyped,
           JobStarted, Executed, Flush, TimerFires, Dispose, WireDrops, LateClose, FarEnd,
           Interrupt, Answers, InterruptEnds, Stop, StopEnds, Pump
  <1>3. Calm /\ ShellInv
    BY <1>1, <1>2 DEF Calm, PtyInv
  <1>4. CASE Starting
    BY <1>3, <1>4, StartingShell
  <1>5. CASE Advance
    BY <1>3, <1>5, ConnectingShell, WorkShell DEF Advance
  <1>6. CASE Outside
    BY <1>3, <1>6, OutsideShell
  <1>7. CASE Flush \/ UNCHANGED vars
    <2>1. mgr \in MgrType /\ Business /\ ShellIsFree /\ TurnKnows
      BY <1>3 DEF IInv, TypeOK, ShellInv
    <2>2. UNCHANGED <<sess, late, turn, stops, irq, rec>> /\ mgr' \in {mgr, Flushed(mgr)}
      BY <1>7 DEF Flush, vars
    <2>3. mgr'.activeJob = mgr.activeJob /\ mgr'.current = mgr.current
      <3> DEFINE m == [mgr EXCEPT !.pending = FALSE]
      <3>1. m \in MgrType /\ m.activeJob = mgr.activeJob /\ m.current = mgr.current
        BY <2>1 DEF MgrType
      <3>2. mgr' \in {mgr, m, Scheduled(m)}
        BY <2>2 DEF Flushed
      <3> HIDE DEF m
      <3>3. QED
        BY <3>1, <3>2, ScheduledTyped
    <2>4. Business'
      BY <2>1, <2>2, <2>3, BusinessKept
    <2>5. (ShellIsFree /\ TurnKnows)'
      BY <2>1, <2>2, <2>3, TurnKept
    <2>6. QED
      BY <2>4, <2>5 DEF ShellInv
  <1>8. QED
    BY <1>4, <1>5, <1>6, <1>7 DEF Next

(* The invariant holds in every behaviour.                                 *)
THEOREM Invariance == Spec => []IInv
BY InitKeeps, NextKeeps, PTL DEF Spec

(* The manager's variables keep their types: the attempts to reconnect     *)
(* never exceed their limit, and a batch never runs more than its scripts. *)
THEOREM TypeCorrect == Spec => []TypeOK
  <1>1. IInv => TypeOK
    BY DEF IInv
  <1>2. QED
    BY <1>1, Invariance, PTL

(* A job's claim on the PTY never outlives the transport, whatever is      *)
(* lost, closed, healed, stopped or connected anew (session-manager.ts:    *)
(* 410-421).                                                               *)
THEOREM ClaimIsReal == Spec => []ClaimHasShell
  <1>1. IInv => ClaimHasShell
    BY DEF IInv
  <1>2. QED
    BY <1>1, Invariance, PTL

(* No wire is open that the manager has forgotten, unless it was disposed  *)
(* while a connect was under way (session-manager.ts:464-511).             *)
THEOREM KnownWire == Spec => []OpenWireIsCurrent
  <1>1. IInv => OpenWireIsCurrent
    BY DEF IInv
  <1>2. QED
    BY <1>1, Invariance, PTL

(* A job that is reported STOPPED is not running in the shell, whoever      *)
(* stopped it, however many at once, and whatever was lost or replaced      *)
(* meanwhile (job-store.ts:245-258).                                       *)
THEOREM StoppedIsGone == Spec => []StoppedMeansGone
  <1>1. Init => StopInv
    BY InitStops
  <1>2. IInv /\ StopInv /\ [Next]_vars => StopInv'
    BY NextStops
  <1>3. StopInv => StoppedMeansGone
    BY DEF StopInv
  <1>4. QED
    BY <1>1, <1>2, <1>3, Invariance, PTL DEF Spec

(* No command is typed into a job, over stops, losses, heals, reconnects and *)
(* a manager that is disposed at any moment, as long as no old wire reports *)
(* its close late, no probe outlives its session and nothing but a stop     *)
(* interrupts (job-store.ts:10-11).                                        *)
THEOREM CommandsKeepOut == Spec => []CommandsStayOutOfJobs
  <1>1. Init => StopInv /\ PtyInv
    BY InitStops, InitShell
  <1>2. IInv /\ StopInv /\ PtyInv /\ [Next]_vars => (StopInv /\ PtyInv)'
    BY NextStops, NextShell
  <1>3. PtyInv => CommandsStayOutOfJobs
    BY DEF PtyInv, Calm, ShellInv, ShellIsFree, CommandsStayOutOfJobs, JobOwnsThePty
  <1>4. QED
    BY <1>1, <1>2, <1>3, Invariance, PTL DEF Spec
=============================================================================
