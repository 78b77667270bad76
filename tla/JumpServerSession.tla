--------------------------- MODULE JumpServerSession ---------------------------
(***************************************************************************)
(* jumpserver/session.ts with target-verify.ts: one JumpServerSession on   *)
(* one PTY.  The conversation's queue lets one operation through at a      *)
(* time (`call`); the out-of-band interrupt (`irq`) does not queue and may *)
(* run between any two steps of it.  Each action is the code between two   *)
(* awaits; a poll loop is one action per way out.                          *)
(*                                                                         *)
(* call.at says where the operation in flight stands:                      *)
(*   dialing, menuWait        connect: the factory, waitForScreen          *)
(*   shellWait, probing       enter: the wait loop, the identity probe     *)
(*   executing, recovering, reproving   exec: runOp, then after a timeout  *)
(*                            or an abort the prompt wait and the probe    *)
(*   leaving, backoff         leave: waitForMenuReturn, sleep(backoff)     *)
(*   listing                  listAssets                                   *)
(***************************************************************************)
EXTENDS KoKo, StateMachine, FiniteSets

CONSTANTS Addresses,  \* the assets that are asked for by IPv4 address
          MaxExits    \* backoffs.length + 1 in leave

ASSUME AddressesAssumption == Addresses \subseteq Assets
ASSUME MaxExitsAssumption == MaxExits \in Nat \ {0}

VARIABLES state,     \* stateValue
          wire,      \* "none" (null), "open" or "closed" (wireClosed)
          target,    \* currentTarget
          pending,   \* the target of pendingAccountChoice
          cooling,   \* targets in `unreachable` that have not expired
          call,      \* the operation in flight and its locals
          irq,       \* the interrupt in flight: "idle", "prompt" or "probing"
          disposed,  \* the manager has been disposed
          identity,  \* history: what the identity check said of this stay's shell
          refused    \* history: the asset KoKo could not dial since a target was typed

sessionVars == <<state, wire, target, pending, cooling, identity>>
ambient == <<disposed, faults, refused>>
vars == <<kokoVars, sessionVars, call, irq, ambient>>

Stages == {"idle", "dialing", "menuWait", "shellWait", "probing", "executing",
           "recovering", "reproving", "leaving", "backoff", "listing"}
Choices == {"none", "shown", "notShown"}  \* accountIndex, against the list painted

Calls == [at : Stages,
          goal : Assets \cup {NoAsset},         \* enter's target
          choice : Choices,                     \* enter's accountIndex
          chosen : BOOLEAN,                     \* accountChoiceWritten
          tries : 0 .. MaxExits,                \* exits leave has typed
          why : {"none", "abort", "timeout"},   \* what exec recovers from
          aborted : BOOLEAN]                    \* signal.aborted

NoCall == [at |-> "idle", goal |-> NoAsset, choice |-> "none", chosen |-> FALSE,
           tries |-> 0, why |-> "none", aborted |-> FALSE]

Idle == call = NoCall /\ ~disposed
Begin(at) == call' = [NoCall EXCEPT !.at = at]
Goto(at) == call' = [call EXCEPT !.at = at]
Return == call' = NoCall

Becomes(to) == state' = SetState(state, to)

WireDead == wire # "open"

\* A bound of the model: nothing new begins while MaxTyped lines are unread.
MayBegin == Len(typed) < MaxTyped

\* The answers verifyTargetIdentity can give for target t in the shell of asset
\* a: a shell may print no address, or none that is the one it was asked for by;
\* a name is never proved wrong.
Verdicts(t, a) ==
    {"unverified"} \cup (IF a = t THEN {"verified"} ELSE {})
                   \cup (IF t \in Addresses THEN {"mismatch"} ELSE {})

Init == /\ KoKoInit
        /\ state = "DISCONNECTED"
        /\ wire = "none"
        /\ target = NoAsset
        /\ pending = NoAsset
        /\ cooling = {}
        /\ call = NoCall
        /\ irq = "idle"
        /\ disposed = FALSE
        /\ identity = "none"
        /\ refused = NoAsset
-----------------------------------------------------------------------------
(* connect.  A manager that reconnects closes the old session and builds a *)
(* new JumpServerSession, so every field starts over (connectLocked).      *)

Connect ==
    /\ Idle
    /\ state \notin Live
    /\ state' = SetState("DISCONNECTED", "CONNECTING")
    /\ wire' = "none"
    /\ target' = NoAsset
    /\ pending' = NoAsset
    /\ cooling' = {}
    /\ identity' = "none"
    /\ Begin("dialing")
    /\ irq' = "idle"
    /\ remote' = "none"
    /\ where' = NoAsset
    /\ typed' = <<>>
    /\ screen' = "blank"
    /\ roster' = FALSE
    /\ watcher' = "none"
    /\ heard' = [d \in Drivers |-> "nothing"]
    /\ refused' = NoAsset
    /\ UNCHANGED <<disposed, faults>>

\* The wire factory resolves: attach(wire).
Attach ==
    /\ call.at = "dialing"
    /\ wire' = "open"
    /\ remote' = "greeting"
    /\ Goto("menuWait")
    /\ UNCHANGED <<where, typed, screen, roster, watcher, heard, state, target, pending,
                   cooling, identity, irq, ambient>>

\* The end of connect when it fails: the transport is torn down, which fires
\* onWireClose, and the state becomes ERROR if that is still legal.
TornDown ==
    LET closed == IF wire = "none" THEN state ELSE SetState(state, "DISCONNECTED")
    IN  /\ state' = SetState(closed, "ERROR")
        /\ wire' = "none"
        /\ watcher' = "none"
        /\ typed' = <<>>
        /\ remote' = IF remote = "none" THEN "none" ELSE "gone"

\* The factory rejects, or the menu does not show up in time, or the wire
\* closes, or the signal fires.
ConnectFails ==
    /\ \/ call.at = "dialing"
       \/ /\ call.at = "menuWait"
          /\ screen # "menu"
          /\ WireDead \/ call.aborted \/ DeadlineMayPass
    /\ TornDown
    /\ Return
    /\ UNCHANGED <<where, screen, roster, heard, target, pending, cooling, identity, irq,
                   ambient>>

\* waitForScreen looks at the screen before it looks at the wire.
MenuSeen ==
    /\ call.at = "menuWait"
    /\ screen = "menu"
    /\ Becomes("MENU")
    /\ Return
    /\ UNCHANGED <<kokoVars, wire, target, pending, cooling, identity, irq, ambient>>
-----------------------------------------------------------------------------
(* enter                                                                   *)

Parked(t) == pending = t /\ state = "ENTERING"

\* looksLikeAccountSelection: the list is somewhere in the window, whatever
\* has been painted under it since.
ListDetected == roster

\* canResumeAccountSelection
CanResume(t, c) == c # "none" /\ Parked(t) /\ ~WireDead /\ ListDetected

\* The prompt the session was parked on is gone.
EnterExpired(t) ==
    /\ Idle
    /\ Parked(t)
    /\ ~ListDetected
    /\ pending' = NoAsset
    /\ Becomes(IF WireDead THEN "DISCONNECTED" ELSE "UNKNOWN")
    /\ UNCHANGED <<kokoVars, wire, target, cooling, identity, call, irq, ambient>>

\* The answer to a prompt an earlier call raised: nothing is written yet.
EnterResumes(t, c) ==
    /\ Idle
    /\ CanResume(t, c)
    /\ MayBegin
    /\ call' = [NoCall EXCEPT !.at = "shellWait", !.goal = t, !.choice = c]
    /\ UNCHANGED <<kokoVars, sessionVars, irq, ambient>>

\* The fail-fast cooldown refuses before any byte reaches the PTY.
MayDial(t) == t \notin cooling

\* assertState(JUMPSERVER_MENU)
InMenu == state = "MENU"

\* Mutant: the screen of an earlier dial is left to be read again.
MutStaleScreen == UNCHANGED <<screen, roster>>

\* detector.reset()
ScreenReset == screen' = "blank" /\ roster' = FALSE

\* A dial from the menu.
EnterDials(t, c) ==
    /\ Idle
    /\ InMenu
    /\ MayDial(t)
    /\ MayBegin
    /\ target' = t
    /\ Becomes("ENTERING")
    /\ identity' = "none"
    /\ ScreenReset
    /\ Type(Line("target", t))
    /\ refused' = NoAsset
    /\ call' = [NoCall EXCEPT !.at = "shellWait", !.goal = t, !.choice = c,
                              !.chosen = (c = "none")]
    /\ UNCHANGED <<remote, where, watcher, heard, wire, pending, cooling, irq, disposed,
                   faults>>

\* The list is on the screen and the call carries an ID that is on it.
MayAnswer == ~call.chosen /\ ListDetected /\ call.choice = "shown"

\* The wait loop sees the account list and types the chosen ID, once.
AccountAnswered ==
    /\ call.at = "shellWait"
    /\ screen # "shell"
    /\ MayAnswer
    /\ wire # "none"
    /\ typed' = IF WireDead THEN typed ELSE Append(typed, Line("index", NoAsset))
    /\ call' = [call EXCEPT !.chosen = TRUE]
    /\ UNCHANGED <<remote, where, screen, roster, watcher, heard, sessionVars, irq,
                   ambient>>

\* The wait loop sees a shell prompt: the identity probe is typed.
ShellSeen ==
    /\ call.at = "shellWait"
    /\ screen = "shell"
    /\ ~WireDead
    /\ RunOp("op", Line("probe", "op"))
    /\ Goto("probing")
    /\ UNCHANGED <<remote, where, screen, roster, sessionVars, irq, ambient>>

\* runOp on a wire that is already dead reports `closed` at once.
ShellSeenTooLate ==
    /\ call.at = "shellWait"
    /\ screen = "shell"
    /\ WireDead
    /\ Becomes("DISCONNECTED")
    /\ pending' = NoAsset
    /\ Return
    /\ UNCHANGED <<kokoVars, wire, target, cooling, identity, irq, ambient>>

\* The account list is a reason to give up: no ID was given, or one that is
\* not on the list.
NeedsChoice == /\ ListDetected
               /\ call.choice = "none" \/ (~call.chosen /\ call.choice = "notShown")
BannerSeen == screen \in {"banner", "bannerMenu"}
MenuPromptSeen == screen \in {"menu", "bannerMenu"}

\* Mutant: a failed entry leaves the session as it was.
MutNoRecovery(asked) == /\ pending' = IF asked THEN call.goal ELSE NoAsset
                        /\ UNCHANGED <<state, target>>

\* catch: recoverAfterFailedEnter leaves the session in a state that is true.
\* `asked` says that the loop itself raised the account selection.
Recovered(asked) ==
    CASE state # "ENTERING" -> pending' = NoAsset /\ UNCHANGED <<state, target>>
      [] state = "ENTERING" /\ WireDead ->
            Becomes("DISCONNECTED") /\ pending' = NoAsset /\ UNCHANGED target
      [] state = "ENTERING" /\ ~WireDead /\ ListDetected ->
            /\ pending' = IF asked THEN call.goal
                          ELSE IF pending = NoAsset THEN target ELSE pending
            /\ UNCHANGED <<state, target>>
      [] state = "ENTERING" /\ ~WireDead /\ ~ListDetected /\ MenuPromptSeen ->
            Becomes("MENU") /\ pending' = NoAsset /\ target' = NoAsset
      [] OTHER -> Becomes("UNKNOWN") /\ pending' = NoAsset /\ UNCHANGED target

\* The wait loop gives up.  Only KoKo's word that the asset cannot be reached
\* starts a cooldown.
EnterGivesUp ==
    /\ call.at = "shellWait"
    /\ screen # "shell"
    /\ MayAnswer => wire = "none"
    /\ \/ MayAnswer \/ NeedsChoice \/ BannerSeen
       \/ WireDead \/ call.aborted \/ DeadlineMayPass
    /\ cooling' \in IF BannerSeen /\ ~NeedsChoice /\ ~MayAnswer
                    THEN {cooling, cooling \cup {call.goal}} ELSE {cooling}
    /\ Recovered(NeedsChoice)
    /\ Return
    /\ UNCHANGED <<kokoVars, wire, identity, irq, ambient>>

\* Mutant: an answer is taken for an identity.
MutNoVerify(verdict) == /\ Becomes("SHELL")
                        /\ cooling' = cooling \ {call.goal}
                        /\ identity' = "verified"

\* The probe answers: verifyTargetIdentity decides.
Judge(verdict) ==
    IF verdict = "mismatch"
    THEN Becomes("UNKNOWN") /\ UNCHANGED <<cooling, identity>>
    ELSE /\ Becomes("SHELL")
         /\ cooling' = cooling \ {call.goal}
         /\ identity' = verdict

ProbeAnswered ==
    /\ call.at = "probing"
    /\ heard["op"] \in Assets
    /\ \E verdict \in Verdicts(call.goal, heard["op"]) : Judge(verdict)
    /\ pending' = NoAsset
    /\ StopsListening("op")
    /\ Return
    /\ UNCHANGED <<remote, where, typed, screen, roster, wire, target, irq, ambient>>

\* Mutant: a prompt that does not answer is still a shell.
MutTrustPrompt == Becomes("SHELL")

\* ASSET_VERIFY_FAILED
Unproved == Becomes("UNKNOWN")

\* The probe does not answer: closed, aborted or timed out, in that order.
ProbeFails ==
    /\ call.at = "probing"
    /\ heard["op"] \notin Assets
    /\ \/ /\ WireDead
          /\ Becomes("DISCONNECTED")
          /\ pending' = NoAsset
          /\ UNCHANGED target
       \/ ~WireDead /\ call.aborted /\ Recovered(FALSE)
       \/ /\ ~WireDead /\ ~call.aborted /\ DeadlineMayPass
          /\ Unproved
          /\ pending' = NoAsset
          /\ UNCHANGED target
    /\ StopsListening("op")
    /\ Return
    /\ UNCHANGED <<remote, where, typed, screen, roster, wire, cooling, identity, irq,
                   ambient>>
-----------------------------------------------------------------------------
(* exec                                                                    *)

\* assertState(ASSET_SHELL)
InShell == state = "SHELL"

\* The command is typed; on a wire that is already dead runOp reports `closed`.
Exec ==
    /\ Idle
    /\ InShell
    /\ MayBegin
    /\ Becomes("RUNNING")
    /\ RunOp("op", Line("cmd", NoAsset))
    /\ Begin("executing")
    /\ UNCHANGED <<remote, where, screen, roster, wire, target, pending, cooling,
                   identity, irq, ambient>>

\* The marker arrives, with an exit code that parses or does not.
Completed ==
    /\ call.at = "executing"
    /\ heard["op"] = "done"
    /\ \E parsed \in BOOLEAN :
           state' = IF parsed THEN SetState(state, "SHELL")
                    ELSE SetState(SetState(state, "SHELL"), "UNKNOWN")
    /\ StopsListening("op")
    /\ Return
    /\ UNCHANGED <<remote, where, typed, screen, roster, wire, target, pending, cooling,
                   identity, irq, ambient>>

ExecClosed ==
    /\ call.at = "executing"
    /\ heard["op"] # "done"
    /\ WireDead
    /\ Becomes("DISCONNECTED")
    /\ StopsListening("op")
    /\ Return
    /\ UNCHANGED <<remote, where, typed, screen, roster, wire, target, pending, cooling,
                   identity, irq, ambient>>

\* Abort or timeout: ^C, then the shell has to be proved again.
ExecInterrupted ==
    /\ call.at = "executing"
    /\ heard["op"] # "done"
    /\ ~WireDead
    /\ call.aborted \/ DeadlineMayPass
    /\ Type(Line("intr", NoAsset))
    /\ call' = [call EXCEPT !.at = "recovering",
                            !.why = IF call.aborted THEN "abort" ELSE "timeout"]
    /\ StopsListening("op")
    /\ UNCHANGED <<remote, where, screen, roster, sessionVars, irq, ambient>>

\* A recovery after an abort ignores the signal: it must not cancel itself.
RecoveryCancelled == call.aborted /\ call.why = "timeout"

\* probeShellOnly: the prompt is back, the probe is typed.
PromptBack ==
    /\ call.at = "recovering"
    /\ ~RecoveryCancelled
    /\ ~WireDead
    /\ screen = "shell"
    /\ RunOp("op", Line("probe", "op"))
    /\ Goto("reproving")
    /\ UNCHANGED <<remote, where, screen, roster, sessionVars, irq, ambient>>

\* Only a probe that answered makes the shell usable again.
AfterRecovery(ok) == Becomes(IF ok THEN "SHELL" ELSE "UNKNOWN")

PromptGone ==
    /\ call.at = "recovering"
    /\ RecoveryCancelled \/ WireDead \/ (screen # "shell" /\ DeadlineMayPass)
    /\ AfterRecovery(FALSE)
    /\ UNCHANGED <<watcher, heard>>

Reproved ==
    /\ call.at = "reproving"
    /\ \/ heard["op"] \in Assets /\ AfterRecovery(TRUE)
       \/ /\ heard["op"] \notin Assets
          /\ WireDead \/ RecoveryCancelled \/ DeadlineMayPass
          /\ AfterRecovery(FALSE)
    /\ StopsListening("op")

RecoveryEnds ==
    /\ PromptGone \/ Reproved
    /\ Return
    /\ UNCHANGED <<remote, where, typed, screen, roster, wire, target, pending, cooling,
                   identity, irq, ambient>>
-----------------------------------------------------------------------------
(* leave                                                                   *)

\* The first exit; a later one is typed without a look at the screen.
Leave ==
    /\ Idle
    /\ InShell
    /\ MayBegin
    /\ Type(Line("exit", NoAsset))
    /\ call' = [NoCall EXCEPT !.at = "leaving", !.tries = 1]
    /\ UNCHANGED <<remote, where, screen, roster, watcher, heard, sessionVars, irq,
                   ambient>>

\* The menu is confirmed: atKoKoPrompt() or the framed menu.
Left ==
    /\ call.at = "leaving"
    /\ MenuPromptSeen
    /\ target' = NoAsset
    /\ Becomes("MENU")
    /\ Return
    /\ UNCHANGED <<kokoVars, wire, pending, cooling, identity, irq, ambient>>

\* leave has no catch: an abort while it waits for the menu just throws.
LeaveAborted ==
    /\ call.at = "leaving"
    /\ ~MenuPromptSeen
    /\ ~WireDead
    /\ call.aborted
    /\ Return
    /\ UNCHANGED <<kokoVars, sessionVars, irq, ambient>>

\* stillInAssetShell(), and attempts are left.
MayRetry == screen = "shell" /\ call.tries < MaxExits

\* The wait ends without a menu: another attempt after a pause, or no more.
LeaveWaitEnds ==
    /\ call.at = "leaving"
    /\ ~MenuPromptSeen
    /\ WireDead \/ (~call.aborted /\ DeadlineMayPass)
    /\ IF MayRetry
       THEN Goto("backoff") /\ UNCHANGED state
       ELSE Return /\ Becomes("UNKNOWN")
    /\ UNCHANGED <<kokoVars, wire, target, pending, cooling, identity, irq, ambient>>

\* Mutant: an attempt is not counted.
MutSameTry == Goto("leaving")

NextTry == call' = [call EXCEPT !.at = "leaving", !.tries = @ + 1]

\* On a wire that is null the next write throws.
LeaveRetries ==
    /\ call.at = "backoff"
    /\ typed' = IF WireDead THEN typed ELSE Append(typed, Line("exit", NoAsset))
    /\ IF wire = "none" THEN Return ELSE NextTry
    /\ UNCHANGED <<remote, where, screen, roster, watcher, heard, sessionVars, irq,
                   ambient>>
-----------------------------------------------------------------------------
(* listAssets                                                              *)

List ==
    /\ Idle
    /\ InMenu
    /\ ~WireDead
    /\ MayBegin
    /\ Type(Line("list", NoAsset))
    /\ Begin("listing")
    /\ UNCHANGED <<remote, where, screen, roster, watcher, heard, sessionVars, irq,
                   ambient>>

\* Mutant: a pager is left on the screen.
MutNoPager(s) == s = "shell"

\* A shell or looksPaged: the next navigation must not type into it.
NotTheMenu(s) == s \in {"shell", "pager"}

\* The capture ends: by the footer, by silence, by the deadline, by an error.
Listed ==
    /\ call.at = "listing"
    /\ typed = <<>> \/ WireDead \/ call.aborted \/ DeadlineMayPass
    /\ Return
    /\ IF ~call.aborted /\ ~WireDead /\ NotTheMenu(screen)
       THEN Becomes("UNKNOWN") ELSE UNCHANGED state
    /\ UNCHANGED <<kokoVars, wire, target, pending, cooling, identity, irq, ambient>>
-----------------------------------------------------------------------------
(* close, and what happens to a session from outside its queue             *)

\* session.close(): the fields go first, then the wire, whose onWireClose runs
\* before close returns.
Closed ==
    /\ state' = SetState(IF wire = "none" THEN state ELSE SetState(state, "DISCONNECTED"),
                         "DISCONNECTED")
    /\ wire' = "none"
    /\ target' = NoAsset
    /\ pending' = NoAsset
    /\ cooling' = {}
    /\ screen' = "blank"
    /\ roster' = FALSE
    /\ watcher' = "none"
    /\ typed' = <<>>
    /\ remote' = IF remote = "none" THEN "none" ELSE "gone"
    /\ UNCHANGED <<where, heard, identity>>

\* SessionManager.close queues like every operation.
Close ==
    /\ Idle
    /\ Closed
    /\ UNCHANGED <<call, irq, ambient>>

\* SessionManager.dispose does not queue.
Dispose ==
    /\ "dispose" \in faults
    /\ ~disposed
    /\ disposed' = TRUE
    /\ Closed
    /\ UNCHANGED <<call, irq, faults, refused>>

\* Mutant: the close of the transport is only noted.
MutWireGone == wire' = "closed" /\ UNCHANGED state

\* onWireClose
WireGone == wire' = "closed" /\ Becomes("DISCONNECTED")

\* The transport closes under the session.
WireCloses ==
    /\ wire = "open"
    /\ "drop" \in faults \/ remote = "gone"
    /\ WireGone
    /\ remote' = "gone"
    /\ typed' = <<>>
    /\ UNCHANGED <<where, screen, roster, watcher, heard, target, pending, cooling,
                   identity, call, irq, ambient>>

\* A closing transport reports its end more than once: close() of the wire fires
\* the callbacks itself, then the stream and the client each close.
LateClose ==
    /\ remote = "gone"
    /\ WireDead
    /\ Becomes("DISCONNECTED")
    /\ UNCHANGED <<kokoVars, wire, target, pending, cooling, identity, call, irq,
                   ambient>>

\* The client cancels the operation in flight.
Abort ==
    /\ "abort" \in faults
    /\ call.at # "idle"
    /\ ~call.aborted
    /\ call' = [call EXCEPT !.aborted = TRUE]
    /\ UNCHANGED <<kokoVars, sessionVars, irq, ambient>>

\* A cooldown expires.
Thaw ==
    /\ \E t \in cooling : cooling' = cooling \ {t}
    /\ UNCHANGED <<kokoVars, state, wire, target, pending, identity, call, irq, ambient>>
-----------------------------------------------------------------------------
(* interruptAndVerify, outside the queue: jumpserver_interrupt and stopJob *)

Interrupt ==
    /\ "interrupt" \in faults
    /\ irq = "idle"
    /\ ~WireDead
    /\ MayBegin
    /\ Type(Line("intr", NoAsset))
    /\ irq' = "prompt"
    /\ UNCHANGED <<remote, where, screen, roster, watcher, heard, sessionVars, call,
                   ambient>>

\* The probe of the interrupt takes the one watcher slot there is.
InterruptProbes ==
    /\ irq = "prompt"
    /\ ~WireDead
    /\ screen = "shell"
    /\ RunOp("irq", Line("probe", "irq"))
    /\ irq' = "probing"
    /\ UNCHANGED <<remote, where, screen, roster, sessionVars, call, ambient>>

InterruptEnds ==
    /\ \/ /\ irq = "prompt"
          /\ WireDead \/ (screen # "shell" /\ DeadlineMayPass)
          /\ AfterRecovery(FALSE)
          /\ UNCHANGED <<watcher, heard>>
       \/ /\ irq = "probing"
          /\ \/ heard["irq"] \in Assets /\ AfterRecovery(TRUE)
             \/ /\ heard["irq"] \notin Assets
                /\ WireDead \/ DeadlineMayPass
                /\ AfterRecovery(FALSE)
          /\ StopsListening("irq")
    /\ irq' = "idle"
    /\ UNCHANGED <<remote, where, typed, screen, roster, wire, target, pending, cooling,
                   identity, call, ambient>>
-----------------------------------------------------------------------------
Connecting == Connect \/ Attach \/ ConnectFails \/ MenuSeen

Entering ==
    \/ \E t \in Assets : EnterExpired(t)
    \/ \E t \in Assets, c \in Choices : EnterResumes(t, c) \/ EnterDials(t, c)
    \/ AccountAnswered \/ ShellSeen \/ ShellSeenTooLate \/ EnterGivesUp
    \/ ProbeAnswered \/ ProbeFails

Executing == \/ Exec \/ Completed \/ ExecClosed \/ ExecInterrupted
             \/ PromptBack \/ RecoveryEnds

Leaving == Leave \/ Left \/ LeaveAborted \/ LeaveWaitEnds \/ LeaveRetries

Listing == List \/ Listed

Outside == \/ Close \/ Dispose \/ WireCloses \/ LateClose \/ Abort \/ Thaw
           \/ Interrupt \/ InterruptProbes \/ InterruptEnds

Next == \/ Connecting \/ Entering \/ Executing \/ Leaving \/ Listing \/ Outside
        \/ /\ KoKoNext
           /\ refused' = IF remote' = "failing" THEN where ELSE refused
           /\ UNCHANGED <<sessionVars, call, irq, disposed, faults>>

Spec == Init /\ [][Next]_vars

\* The steps by which an operation in flight goes on or ends.
Advance ==
    \/ Attach \/ ConnectFails \/ MenuSeen
    \/ AccountAnswered \/ ShellSeen \/ ShellSeenTooLate \/ EnterGivesUp
    \/ ProbeAnswered \/ ProbeFails
    \/ Completed \/ ExecClosed \/ ExecInterrupted \/ PromptBack \/ RecoveryEnds
    \/ Left \/ LeaveAborted \/ LeaveWaitEnds \/ LeaveRetries
    \/ Listed

\* Every wait of the session polls on a timer and has a deadline, so the event
\* loop brings an operation on whatever the far end does.  Nothing is assumed
\* of KoKo, of the caller or of the disturbances.
FairSpec == Spec /\ WF_vars(Advance)
-----------------------------------------------------------------------------
TypeOK == /\ KoKoTypeOK
          /\ state \in States
          /\ wire \in {"none", "open", "closed"}
          /\ target \in Assets \cup {NoAsset}
          /\ pending \in Assets \cup {NoAsset}
          /\ cooling \subseteq Assets
          /\ call \in Calls
          /\ irq \in {"idle", "prompt", "probing"}
          /\ disposed \in BOOLEAN
          /\ refused \in Assets \cup {NoAsset}
          /\ identity \in {"none", "unverified", "verified"}

(* A live state is the truth about the transport: no interleaving of a      *)
(* closing wire, a dispose, an interrupt and an operation's continuations   *)
(* ends in MENU, ENTERING, SHELL or RUNNING on a dead wire.  The code       *)
(* relies on it: `this.wire!.write` in enter and leave.                     *)
LiveHasWire == state \in Live => wire = "open"

\* jumpserver_interrupt and stopJob do not run during an operation.
NoInterrupt == "interrupt" \notin faults

(* session.ts:689-691: a session at rest in ENTERING waits for the account  *)
(* of its own target, "every other exit" leaves no answer open.             *)
EnteringIsParked ==
    Idle /\ state = "ENTERING" => pending = target /\ target # NoAsset

(* An entry that ends without a shell, for whatever reason and at whatever  *)
(* moment, is never stuck in ENTERING, where every later call is refused.   *)
ParkedOrNotEntering == NoInterrupt => EnteringIsParked

(* Known not to hold: session.ts:698, "exec requires an entered (verified)  *)
(* asset shell", what exec finds in ASSET_SHELL went through the identity   *)
(* check of enter.  An interrupt that verifies a prompt while enter waits   *)
(* declares a shell that nobody has judged.                                 *)
ShellWasJudged == Idle /\ state = "SHELL" => identity # "none"

(* No detour over a menu, a failed entry, a timeout and its recovery makes  *)
(* a shell usable that no entry has judged.                                 *)
ShellIsJudged == NoInterrupt => ShellWasJudged

(* Once the identity is verified, every command the session lets through    *)
(* reaches the asset it says it is on (session.ts:658-666).                 *)
VerifiedMeansTarget ==
    NoInterrupt /\ identity = "verified" /\ Meets("cmd", "shell") => where = target

\* Only transports fail.
Calm == faults \subseteq {"drop", "dispose"}

(* What an entry concludes comes from its own dial (session.ts:470-475): a   *)
(* cooldown is started for the asset that KoKo has just failed to dial, and  *)
(* not on the banner of an earlier entry, whatever was done in between.      *)
CooldownIsEarned ==
    [][Calm => \A t \in cooling' \ cooling : refused = t]_vars

(* Known not to hold: the cooldown is "Deliberately NOT cleared on           *)
(* reconnect" (session.ts:237-239, 1023-1026). The manager reconnects by     *)
(* closing the session, which clears it, and building a new one              *)
(* (session-manager.ts:480-500).                                             *)
CooldownSurvivesReconnect == [][Connect => cooling' = cooling]_vars

(* Known not to hold: session.ts:698 again, a command is never typed at      *)
(* KoKo's menu, where it would be taken for the search of an asset. A leave  *)
(* that is cancelled after its `exit` was typed leaves ASSET_SHELL behind.   *)
CommandsReachShells == ~Meets("cmd", "menu")

\* The next line on its way and the program that will read it.
LineSuitsReader ==
    /\ ~Meets("cmd", "menu") /\ ~Meets("exit", "menu")
    /\ ~Meets("target", "shell") /\ ~Meets("list", "shell") /\ ~Meets("index", "shell")
    /\ typed # <<>> => remote # "pager"

\* An index is typed at the `ID>` prompt, with nothing in front of it.
AtThePrompt == remote = "accounts" /\ typed = <<>>
TypesAnIndex == typed' = Append(typed, Line("index", NoAsset))

(* While only transports fail, no exit logs the menu out, no command is a    *)
(* search, a shell reads no search, no list command and no index, and        *)
(* nothing scrolls a pager (session.ts:872-874, 992-994). An index is typed  *)
(* at the account list, unless KoKo has already failed to dial what this     *)
(* entry asked for (session.ts:418-420).                                     *)
LinesReachTheirReader ==
    /\ [](Calm => LineSuitsReader)
    /\ [][Calm /\ TypesAnIndex => AtThePrompt \/ refused = call.goal]_vars

(* Known not to hold: "fail closed instead of typing an index into an        *)
(* unknown screen" (session.ts:418-420). The list is looked for in the last  *)
(* 2048 characters, and is still there when the dial of the chosen account   *)
(* has failed and KoKo is back at its menu.                                  *)
AnswersReachTheList == ~Meets("index", "menu")

(* Known not to hold, for the same list: "a prompt still painted stays       *)
(* answerable" (session.ts:689-691). A session that rests in ENTERING need   *)
(* have no prompt to answer.                                                 *)
ParkedAtThePrompt == Idle /\ state = "ENTERING" => remote = "accounts"

(* Every operation returns, so the queue behind it moves on, although KoKo  *)
(* may answer nothing and the wire may close at any step (`slow`: deadlines *)
(* do not wait for KoKo).                                                   *)
EveryCallReturns == "slow" \in faults /\ call.at # "idle" ~> call.at = "idle"
=============================================================================
