---------------------------- MODULE SessionProofs ----------------------------
(***************************************************************************)
(* For any set of assets, any disturbances of the bastion and any bounds:  *)
(* the session's variables keep their types and a live state has an open   *)
(* wire.  Without an interrupt an entry parks or leaves ENTERING, what can *)
(* be used was judged, and a command reaches the asset that was verified.  *)
(* While only transports fail, every line is read by a program that        *)
(* understands it, and what an entry concludes is about its own dial.      *)
(*                                                                         *)
(* None of these is inductive.  LiveHasWire needs to know that CONNECTING, *)
(* the one state outside Live from which MENU is legal, belongs to a connect *)
(* whose wire has not been lost (ConnectingIsACall).  Parking needs the    *)
(* owner of ENTERING and of an open account choice (EntryIsOwned).  The    *)
(* verdict is about the shell that answered the probe, and is passed some  *)
(* steps later: it has to be known that the probe was the last line typed, *)
(* so that nothing on its way dials (IdentityIsTrue), and that a menu on   *)
(* the screen is the far end's (Painted).  That lines arrive is about what *)
(* will be read, so the stage of the operation has to say what is on its   *)
(* way and to whom (LinesInTurn); in that weather a deadline cannot pass   *)
(* before the far end has answered, which is what each stage relies on.    *)
(* And a banner or a list on the screen of an entry, or a far end that has *)
(* left the menu, is about the one search this entry typed (DialIsOwn).    *)
(***************************************************************************)
EXTENDS JumpServerSession, SequenceTheorems, TLAPS

SessionTypes == /\ state \in States
                /\ wire \in {"none", "open", "closed"}
                /\ target \in Assets \cup {NoAsset}
                /\ pending \in Assets \cup {NoAsset}
                /\ cooling \subseteq Assets
                /\ call \in Calls
                /\ irq \in {"idle", "prompt", "probing"}
                /\ disposed \in BOOLEAN
                /\ identity \in {"none", "unverified", "verified"}
                /\ refused \in Assets \cup {NoAsset}

\* The call to connect owns the state CONNECTING.
ConnectingIsACall ==
    state = "CONNECTING" => \/ call.at = "dialing"
                            \/ call.at = "menuWait" /\ wire = "open"

\* A pause of leave is followed by another attempt.
TriesLeft == call.at = "backoff" => call.tries < MaxExits

\* enter navigates to an asset.
GoalIsAsset == call.at \in {"shellWait", "probing"} => call.goal \in Assets

Core == SessionTypes /\ TriesLeft /\ GoalIsAsset /\ ConnectingIsACall /\ LiveHasWire

(* What setState can do, whatever it is asked for.                         *)

(* It ends where it was asked to go, or in UNKNOWN.                        *)
LEMMA SetStateTarget ==
    ASSUME NEW s \in States, NEW t \in States
    PROVE  SetState(s, t) \in {t, "UNKNOWN"}
BY DEF SetState

(* It ends in a live state only from a live state or from CONNECTING...    *)
LEMMA SetStateLive ==
    ASSUME NEW s \in States, NEW t \in States, SetState(s, t) \in Live
    PROVE  s \in Live \/ s = "CONNECTING"
  <1>1. CASE s = "DISCONNECTED"
    BY <1>1 DEF SetState, Legal, Live
  <1>2. CASE s = "UNKNOWN"
    BY <1>2 DEF SetState, Legal, Live
  <1>3. CASE s = "ERROR"
    BY <1>3 DEF SetState, Legal, Live
  <1>4. QED
    BY <1>1, <1>2, <1>3 DEF States, Live

(* ... and from CONNECTING only to MENU.                                   *)
LEMMA SetStateFromConnecting ==
    ASSUME NEW t \in States, SetState("CONNECTING", t) \in Live
    PROVE  t = "MENU"
BY DEF SetState, Legal, Live

(* The loss of the transport never ends in a live state or in CONNECTING.  *)
LEMMA SetStateGone ==
    ASSUME NEW s \in States
    PROVE  SetState(s, "DISCONNECTED") \in {"DISCONNECTED", "UNKNOWN"}
BY SetStateTarget DEF States

(* No operation in flight is a typed record.                               *)
LEMMA NoCallTyped == NoCall \in Calls /\ NoCall.at = "idle"
  <1>1. 0 \in 0 .. MaxExits
    BY MaxExitsAssumption
  <1>2. QED
    BY <1>1 DEF NoCall, Calls, Stages, Choices

(* Steps of connect.                                                       *)
LEMMA ConnectingKeeps == ASSUME Core, Connecting PROVE Core'
  <1> USE DEF Core, SessionTypes, TriesLeft, GoalIsAsset, ConnectingIsACall, LiveHasWire,
              Becomes, Return, Goto, Begin, Idle, NoCall, Calls, Stages, Choices,
              Live, States, sessionVars, ambient
  <1> USE MaxExitsAssumption, AddressesAssumption
  <1>1. CASE Connect
    <2>1. state' = "CONNECTING"
      BY <1>1 DEF Connect, SetState, Legal
    <2>2. call' \in Calls /\ call'.at = "dialing"
      BY <1>1 DEF Connect
    <2>3. QED
      BY <1>1, <2>1, <2>2 DEF Connect
  <1>2. CASE Attach
    BY <1>2, SetStateTarget, SetStateLive, SetStateGone, SetStateFromConnecting
       DEF Attach
  <1>3. CASE ConnectFails
    BY <1>3, SetStateTarget, SetStateLive, SetStateGone, SetStateFromConnecting
       DEF ConnectFails, TornDown, WireDead
  <1>4. CASE MenuSeen
    BY <1>4, SetStateTarget, SetStateLive, SetStateGone, SetStateFromConnecting
       DEF MenuSeen
  <1>5. QED
    BY <1>1, <1>2, <1>3, <1>4 DEF Connecting

(* Steps of enter.                                                         *)
LEMMA EnteringKeeps == ASSUME Core, Entering PROVE Core'
  <1> USE DEF Core, SessionTypes, TriesLeft, GoalIsAsset, ConnectingIsACall, LiveHasWire,
              Becomes, Return, Goto, Begin, Idle, NoCall, Calls, Stages, Choices,
              Live, States, sessionVars, ambient
  <1> USE MaxExitsAssumption, AddressesAssumption
  <1>1. ASSUME NEW t \in Assets, EnterExpired(t) PROVE Core'
    BY <1>1, SetStateTarget, SetStateLive, SetStateGone, SetStateFromConnecting
       DEF EnterExpired, Parked, WireDead
  <1>2. ASSUME NEW t \in Assets, NEW c \in Choices, EnterResumes(t, c) PROVE Core'
    <2>1. call' \in Calls /\ call'.at = "shellWait" /\ call'.goal \in Assets
      BY <1>2 DEF EnterResumes
    <2>2. QED
      BY <1>2, <2>1, SetStateTarget, SetStateLive, SetStateGone, SetStateFromConnecting
         DEF EnterResumes, CanResume, Parked, WireDead
  <1>3. ASSUME NEW t \in Assets, NEW c \in Choices, EnterDials(t, c) PROVE Core'
    <2>1. call' \in Calls /\ call'.at = "shellWait" /\ call'.goal \in Assets
      BY <1>3 DEF EnterDials
    <2>2. QED
      BY <1>3, <2>1, SetStateTarget, SetStateLive, SetStateGone, SetStateFromConnecting
         DEF EnterDials, InMenu
  <1>4. CASE AccountAnswered
    <2>1. call' \in Calls /\ call'.at = "shellWait" /\ call'.goal \in Assets
      BY <1>4 DEF AccountAnswered
    <2>2. QED
      BY <1>4, <2>1, SetStateTarget, SetStateLive, SetStateGone, SetStateFromConnecting
         DEF AccountAnswered
  <1>5. CASE ShellSeen
    BY <1>5, SetStateTarget, SetStateLive, SetStateGone, SetStateFromConnecting
       DEF ShellSeen, WireDead
  <1>6. CASE ShellSeenTooLate
    BY <1>6, SetStateTarget, SetStateLive, SetStateGone, SetStateFromConnecting
       DEF ShellSeenTooLate, WireDead
  <1>7. CASE EnterGivesUp
    <2>1. call' = NoCall /\ call.at = "shellWait" /\ state # "CONNECTING"
      BY <1>7 DEF EnterGivesUp
    <2>2. call' \in Calls /\ call'.at = "idle"
      BY <2>1, NoCallTyped
    <2>3. cooling' \subseteq Assets /\ UNCHANGED <<wire, identity, irq, disposed, refused>>
      BY <1>7 DEF EnterGivesUp
    <2>4. /\ pending' \in Assets \cup {NoAsset} /\ target' \in Assets \cup {NoAsset}
          /\ \/ state' = state
             \/ state = "ENTERING" /\ state' \in {"DISCONNECTED", "MENU", "UNKNOWN"}
      BY <1>7, <2>1, SetStateTarget DEF EnterGivesUp, Recovered
    <2>5. QED
      BY <2>1, <2>2, <2>3, <2>4
  <1>8. CASE ProbeAnswered
    BY <1>8, SetStateTarget, SetStateLive, SetStateGone, SetStateFromConnecting
       DEF ProbeAnswered, Judge, Verdicts
  <1>9. CASE ProbeFails
    BY <1>9, SetStateTarget, SetStateLive, SetStateGone, SetStateFromConnecting
       DEF ProbeFails, Recovered, Unproved, WireDead
  <1>10. QED
    BY <1>1, <1>2, <1>3, <1>4, <1>5, <1>6, <1>7, <1>8, <1>9 DEF Entering

(* Steps of exec.                                                          *)
LEMMA ExecutingKeeps == ASSUME Core, Executing PROVE Core'
  <1> USE DEF Core, SessionTypes, TriesLeft, GoalIsAsset, ConnectingIsACall, LiveHasWire,
              Becomes, Return, Goto, Begin, Idle, NoCall, Calls, Stages, Choices,
              Live, States, sessionVars, ambient
  <1> USE MaxExitsAssumption, AddressesAssumption
  <1>1. CASE Exec
    <2>1. call' \in Calls /\ call'.at = "executing"
      BY <1>1 DEF Exec
    <2>2. QED
      BY <1>1, <2>1, SetStateTarget, SetStateLive, SetStateGone, SetStateFromConnecting
         DEF Exec, InShell
  <1>2. CASE Completed
    BY <1>2, SetStateTarget, SetStateLive, SetStateGone, SetStateFromConnecting
       DEF Completed
  <1>3. CASE ExecClosed
    BY <1>3, SetStateTarget, SetStateLive, SetStateGone, SetStateFromConnecting
       DEF ExecClosed, WireDead
  <1>4. CASE ExecInterrupted
    <2>1. call' \in Calls /\ call'.at = "recovering"
      BY <1>4 DEF ExecInterrupted
    <2>2. QED
      BY <1>4, <2>1, SetStateTarget, SetStateLive, SetStateGone, SetStateFromConnecting
         DEF ExecInterrupted, WireDead
  <1>5. CASE PromptBack
    BY <1>5, SetStateTarget, SetStateLive, SetStateGone, SetStateFromConnecting
       DEF PromptBack
  <1>6. CASE RecoveryEnds
    BY <1>6, SetStateTarget, SetStateLive, SetStateGone, SetStateFromConnecting
       DEF RecoveryEnds, PromptGone, Reproved, AfterRecovery
  <1>7. QED
    BY <1>1, <1>2, <1>3, <1>4, <1>5, <1>6 DEF Executing

(* Steps of leave.                                                         *)
LEMMA LeavingKeeps == ASSUME Core, Leaving PROVE Core'
  <1> USE DEF Core, SessionTypes, TriesLeft, GoalIsAsset, ConnectingIsACall, LiveHasWire,
              Becomes, Return, Goto, Begin, Idle, NoCall, Calls, Stages, Choices,
              Live, States, sessionVars, ambient
  <1> USE MaxExitsAssumption, AddressesAssumption
  <1>1. CASE Leave
    <2>0. 1 \in 0 .. MaxExits
      BY MaxExitsAssumption
    <2>1. call' \in Calls /\ call'.at = "leaving"
      BY <1>1, <2>0, NoCallTyped DEF Leave
    <2>2. QED
      BY <1>1, <2>1, SetStateTarget, SetStateLive, SetStateGone, SetStateFromConnecting
         DEF Leave, InShell
  <1>2. CASE Left
    BY <1>2, SetStateTarget, SetStateLive, SetStateGone, SetStateFromConnecting
       DEF Left
  <1>3. CASE LeaveAborted
    BY <1>3, SetStateTarget, SetStateLive, SetStateGone, SetStateFromConnecting
       DEF LeaveAborted
  <1>4. CASE LeaveWaitEnds
    <2>1. call' \in Calls /\ call'.at \in {"backoff", "idle"}
      <3>1. CASE MayRetry
        BY <1>4, <3>1 DEF LeaveWaitEnds
      <3>2. CASE ~MayRetry
        BY <1>4, <3>2, NoCallTyped DEF LeaveWaitEnds
      <3>3. QED
        BY <3>1, <3>2
    <2>2. TriesLeft'
      BY <1>4 DEF LeaveWaitEnds, MayRetry
    <2>3. QED
      BY <1>4, <2>1, <2>2, SetStateTarget, SetStateLive, SetStateGone,
         SetStateFromConnecting
         DEF LeaveWaitEnds
  <1>5. CASE LeaveRetries
    <2>1. call' \in Calls /\ call'.at \in {"leaving", "idle"}
      <3>1. CASE wire = "none"
        BY <1>5, <3>1, NoCallTyped DEF LeaveRetries
      <3>2. CASE wire # "none"
        <4>1. call.tries + 1 \in 0 .. MaxExits
          BY <1>5 DEF LeaveRetries
        <4>2. QED
          BY ZenonT(40), <1>5, <3>2, <4>1 DEF LeaveRetries, NextTry
      <3>3. QED
        BY <3>1, <3>2
    <2>2. QED
      BY <1>5, <2>1 DEF LeaveRetries
  <1>6. QED
    BY <1>1, <1>2, <1>3, <1>4, <1>5 DEF Leaving

(* Steps of listAssets.                                                    *)
LEMMA ListingKeeps == ASSUME Core, Listing PROVE Core'
  <1> USE DEF Core, SessionTypes, TriesLeft, GoalIsAsset, ConnectingIsACall, LiveHasWire,
              Becomes, Return, Goto, Begin, Idle, NoCall, Calls, Stages, Choices,
              Live, States, sessionVars, ambient
  <1> USE MaxExitsAssumption, AddressesAssumption
  <1>1. CASE List
    <2>1. call' \in Calls /\ call'.at = "listing"
      BY <1>1 DEF List
    <2>2. QED
      BY <1>1, <2>1, SetStateTarget, SetStateLive, SetStateGone, SetStateFromConnecting
         DEF List, InMenu
  <1>2. CASE Listed
    BY <1>2, SetStateTarget, SetStateLive, SetStateGone, SetStateFromConnecting
       DEF Listed
  <1>3. QED
    BY <1>1, <1>2 DEF Listing

(* close, dispose, the transport, the client and the interrupt.            *)
LEMMA OutsideKeeps == ASSUME Core, Outside PROVE Core'
  <1> USE DEF Core, SessionTypes, TriesLeft, GoalIsAsset, ConnectingIsACall, LiveHasWire,
              Becomes, Return, Goto, Begin, Idle, NoCall, Calls, Stages, Choices,
              Live, States, sessionVars, ambient
  <1> USE MaxExitsAssumption, AddressesAssumption
  <1>1. CASE Close
    BY <1>1, SetStateTarget, SetStateLive, SetStateGone, SetStateFromConnecting
       DEF Close, Closed
  <1>2. CASE Dispose
    BY <1>2, SetStateTarget, SetStateLive, SetStateGone, SetStateFromConnecting
       DEF Dispose, Closed
  <1>3. CASE WireCloses
    BY <1>3, SetStateTarget, SetStateLive, SetStateGone, SetStateFromConnecting
       DEF WireCloses, WireGone
  <1>4. CASE LateClose
    BY <1>4, SetStateTarget, SetStateLive, SetStateGone, SetStateFromConnecting
       DEF LateClose, WireDead
  <1>5. CASE Abort
    <2>1. /\ call' \in Calls /\ call'.at = call.at
          /\ call'.tries = call.tries /\ call'.goal = call.goal
      BY <1>5 DEF Abort
    <2>2. QED
      BY <1>5, <2>1 DEF Abort
  <1>6. CASE Thaw
    BY <1>6, SetStateTarget, SetStateLive, SetStateGone, SetStateFromConnecting
       DEF Thaw
  <1>7. CASE Interrupt
    BY <1>7, SetStateTarget, SetStateLive, SetStateGone, SetStateFromConnecting
       DEF Interrupt
  <1>8. CASE InterruptProbes
    BY <1>8, SetStateTarget, SetStateLive, SetStateGone, SetStateFromConnecting
       DEF InterruptProbes
  <1>9. CASE InterruptEnds
    BY <1>9, SetStateTarget, SetStateLive, SetStateGone, SetStateFromConnecting
       DEF InterruptEnds, AfterRecovery, WireDead
  <1>10. QED
    BY <1>1, <1>2, <1>3, <1>4, <1>5, <1>6, <1>7, <1>8, <1>9 DEF Outside

-----------------------------------------------------------------------------
(* Types.  A watcher notes the asset it heard from, so it has to be known   *)
(* that whatever dials or runs does so on an asset.                        *)
WhereKnown == remote \in {"accounts", "dialing", "shell", "busy"} => where \in Assets

KoKoInv == KoKoTypeOK /\ WhereKnown

(* A line is its kind and its argument.                                    *)
LEMMA LineParts ==
    ASSUME NEW l \in Lines
    PROVE  /\ l = Line(l[1], l[2])
           /\ l[1] \in {"target", "probe", "index", "cmd", "intr", "exit", "list"}
           /\ l[1] = "target" => l[2] \in Assets
           /\ l[1] = "probe" => l[2] \in Drivers \cup {NoAsset}
           /\ l[1] \notin {"target", "probe"} => l[2] = NoAsset
BY DEF Lines, Line

(* What the session types is a line.                                       *)
LEMMA LineTyped ==
    /\ \A t \in Assets : Line("target", t) \in Lines
    /\ \A d \in Drivers \cup {NoAsset} : Line("probe", d) \in Lines
    /\ \A k \in {"index", "cmd", "intr", "exit", "list"} : Line(k, NoAsset) \in Lines
BY DEF Lines, Line

(* Typing adds one line at the end.                                        *)
LEMMA TypedSeq ==
    ASSUME NEW s \in Seq(Lines), NEW l \in Lines
    PROVE  /\ Append(s, l) \in Seq(Lines)
           /\ Len(Append(s, l)) = Len(s) + 1
           /\ Append(s, l)[Len(s) + 1] = l
           /\ \A i \in 1 .. Len(s) : Append(s, l)[i] = s[i]
OBVIOUS

(* The next line is a line, and the others follow it.                      *)
LEMMA NextLine ==
    ASSUME NEW s \in Seq(Lines), s # <<>>
    PROVE  /\ Head(s) \in Lines /\ Head(s) = s[1]
           /\ Tail(s) \in Seq(Lines)
           /\ Len(Tail(s)) = Len(s) - 1 /\ Len(s) \in Nat \ {0}
           /\ \A i \in 1 .. Len(s) - 1 : Tail(s)[i] = s[i + 1]
OBVIOUS

(* A script renames the earlier probes of its driver and types its own.    *)
LEMMA Scripted ==
    ASSUME typed \in Seq(Lines), NEW d \in Drivers, NEW l \in Lines, RunOp(d, l)
    PROVE  /\ typed' \in Seq(Lines)
           /\ Len(typed') = Len(typed) + 1
           /\ typed'[Len(typed) + 1] = l
           /\ \A i \in 1 .. Len(typed) :
                 /\ typed'[i][1] = typed[i][1]
                 /\ typed'[i] # Line("probe", d)
                 /\ typed[i] # Line("probe", d) => typed'[i] = typed[i]
  <1> DEFINE s == [i \in DOMAIN typed |->
                      IF typed[i] = Line("probe", d) THEN Line("probe", NoAsset)
                      ELSE typed[i]]
  <1>1. typed' = Append(s, l)
    BY DEF RunOp
  <1>2. Line("probe", NoAsset) # Line("probe", d)
    BY NoAssetAssumption DEF Drivers, Line
  <1>3. /\ Len(typed) \in Nat /\ DOMAIN typed = 1 .. Len(typed)
        /\ \A i \in 1 .. Len(typed) : typed[i] \in Lines
    OBVIOUS
  <1>4. Line("probe", NoAsset) \in Lines
    BY LineTyped
  <1>5. \A i \in 1 .. Len(typed) :
            /\ s[i] \in Lines /\ s[i][1] = typed[i][1] /\ s[i] # Line("probe", d)
            /\ typed[i] # Line("probe", d) => s[i] = typed[i]
    BY <1>2, <1>3, <1>4 DEF Line
  <1>6. s \in Seq(Lines) /\ Len(s) = Len(typed)
    BY <1>3, <1>5
  <1> HIDE DEF s
  <1>7. /\ typed' \in Seq(Lines) /\ Len(typed') = Len(typed) + 1
        /\ typed'[Len(typed) + 1] = l
        /\ \A i \in 1 .. Len(typed) : typed'[i] = s[i]
    BY <1>1, <1>6, TypedSeq
  <1>8. QED
    BY <1>5, <1>7
-----------------------------------------------------------------------------
(* What the far end paints is a screen, wherever the action leads.         *)
LEMMA PaintTyped ==
    ASSUME KoKoInv, NEW r \in Remotes, NEW s \in Screens, Paint(r, s)
    PROVE  remote' = r /\ screen' = s /\ roster' \in BOOLEAN
BY DEF KoKoInv, KoKoTypeOK, Paint

(* The far end keeps the types.                                            *)
LEMMA KoKoKeeps ==
    ASSUME KoKoInv, KoKoNext, UNCHANGED faults
    PROVE  KoKoInv'
  <1> USE DEF KoKoInv, KoKoTypeOK, WhereKnown
  <1>0. /\ {"menu", "accounts", "dialing", "failing", "shell", "busy", "pager", "gone"}
               \subseteq Remotes
        /\ {"menu", "banner", "bannerMenu", "accounts", "shell", "pager", "other"}
               \subseteq Screens
    BY DEF Remotes, Screens
  <1>1. CASE Consume
    <2> DEFINE kind == Head(typed)[1]
               arg  == Head(typed)[2]
    <2>1. /\ kind = "target" => arg \in Assets
          /\ kind = "probe" => arg \in Drivers \cup {NoAsset}
      BY <1>1, NextLine, LineParts DEF Consume
    <2>2. typed' \in Seq(Lines) /\ UNCHANGED watcher
      BY <1>1, NextLine DEF Consume
    <2>3. \/ AtMenu(kind, arg) \/ AtAccounts(kind) \/ AtShell(kind, arg)
          \/ Interrupted(kind)
      BY <1>1 DEF Consume
    <2> HIDE DEF kind, arg
    <2>4. CASE AtMenu(kind, arg)
      <3>1. UNCHANGED heard
        BY <2>4 DEF AtMenu
      <3>2. /\ remote' \in Remotes /\ screen' \in Screens /\ roster' \in BOOLEAN
            /\ where' \in Assets \cup {NoAsset} /\ WhereKnown'
        <4>1. CASE kind = "target"
          BY <1>0, <2>1, <2>4, <4>1, PaintTyped DEF AtMenu
        <4>2. CASE kind = "list"
          BY <1>0, <2>4, <4>2, PaintTyped DEF AtMenu, BackToMenu
        <4>3. CASE kind = "exit"
          BY <1>0, <2>4, <4>3, PaintTyped DEF AtMenu
        <4>4. CASE kind \notin {"target", "list", "exit"}
          BY <1>0, <2>4, <4>4, PaintTyped DEF AtMenu, BackToMenu
        <4>5. QED
          BY <4>1, <4>2, <4>3, <4>4
      <3>3. QED
        BY <2>2, <3>1, <3>2
    <2>5. CASE AtAccounts(kind)
      BY <1>0, <2>2, <2>5, PaintTyped DEF AtAccounts, BackToMenu
    <2>6. CASE AtShell(kind, arg)
      <3>1. where \in Assets
        BY <2>6 DEF AtShell
      <3>2. /\ remote' \in Remotes /\ screen' \in Screens /\ roster' \in BOOLEAN
            /\ where' \in Assets \cup {NoAsset} /\ WhereKnown'
        BY <1>0, <2>6, <3>1, PaintTyped DEF AtShell, Stay, BackToMenu
      <3>3. heard' \in [Drivers -> Assets \cup {"nothing", "done"}]
        BY <2>6, <3>1 DEF AtShell
      <3>4. QED
        BY <2>2, <3>2, <3>3
    <2>7. CASE Interrupted(kind)
      BY <1>0, <2>2, <2>7, PaintTyped DEF Interrupted, BackToMenu
    <2>8. QED
      BY <2>3, <2>4, <2>5, <2>6, <2>7
  <1>2. CASE MenuPainted
    BY <1>0, <1>2, PaintTyped DEF MenuPainted, BackToMenu
  <1>3. CASE DialEnds
    BY <1>0, <1>3, PaintTyped DEF DialEnds
  <1>4. CASE PromptAfterBanner
    BY <1>0, <1>4, PaintTyped DEF PromptAfterBanner
  <1>5. CASE CommandEnds
    BY <1>0, <1>5, PaintTyped DEF CommandEnds, Drivers
  <1>6. CASE Logout
    BY <1>0, <1>6, PaintTyped DEF Logout, BackToMenu
  <1>7. QED
    BY <1>1, <1>2, <1>3, <1>4, <1>5, <1>6 DEF KoKoNext

(* A line that is typed, and a script that begins or ends.                 *)
LEMMA TypeKeeps ==
    ASSUME KoKoInv, NEW l \in Lines, Type(l)
    PROVE  typed' \in Seq(Lines)
BY TypedSeq DEF KoKoInv, KoKoTypeOK, Type

(* A script keeps the types.                                               *)
LEMMA ScriptKeeps ==
    ASSUME KoKoInv, NEW d \in Drivers, NEW l \in Lines, RunOp(d, l)
    PROVE  /\ typed' \in Seq(Lines)
           /\ watcher' \in Drivers \cup {"none"}
           /\ heard' \in [Drivers -> Assets \cup {"nothing", "done"}]
BY Scripted DEF KoKoInv, KoKoTypeOK, RunOp

(* So does its end.                                                        *)
LEMMA ScriptEnds ==
    ASSUME KoKoInv, NEW d \in Drivers, StopsListening(d)
    PROVE  /\ watcher' \in Drivers \cup {"none"}
           /\ heard' \in [Drivers -> Assets \cup {"nothing", "done"}]
BY DEF KoKoInv, KoKoTypeOK, StopsListening

(* So does the session, whatever it types.                                 *)
LEMMA SessionKeepsKoKo ==
    ASSUME KoKoInv, GoalIsAsset,
           Connecting \/ Entering \/ Executing \/ Leaving \/ Listing \/ Outside
    PROVE  KoKoInv' /\ UNCHANGED faults
  <1> USE DEF KoKoInv, KoKoTypeOK, WhereKnown, sessionVars, ambient, kokoVars
  <1>0. /\ {"none", "greeting", "gone"} \subseteq Remotes /\ "blank" \in Screens
        /\ {"op", "irq"} = Drivers
        /\ [d \in Drivers |-> "nothing"] \in [Drivers -> Assets \cup {"nothing", "done"}]
        /\ <<>> \in Seq(Lines)
    BY DEF Remotes, Screens, Drivers
  <1>1. /\ Line("probe", "op") \in Lines /\ Line("probe", "irq") \in Lines
        /\ Line("index", NoAsset) \in Lines /\ Line("cmd", NoAsset) \in Lines
        /\ Line("intr", NoAsset) \in Lines /\ Line("exit", NoAsset) \in Lines
        /\ Line("list", NoAsset) \in Lines
    BY LineTyped DEF Drivers
  <1>2. CASE Connecting
    <2>1. CASE Connect
      BY <1>0, <2>1 DEF Connect
    <2>2. CASE Attach
      BY <1>0, <2>2 DEF Attach
    <2>3. CASE ConnectFails
      BY <1>0, <2>3 DEF ConnectFails, TornDown
    <2>4. CASE MenuSeen
      BY <2>4 DEF MenuSeen
    <2>5. QED
      BY <1>2, <2>1, <2>2, <2>3, <2>4 DEF Connecting
  <1>3. CASE Entering
    <2>1. ASSUME NEW t \in Assets, EnterExpired(t) PROVE KoKoInv' /\ UNCHANGED faults
      BY <2>1 DEF EnterExpired
    <2>2. ASSUME NEW t \in Assets, NEW c \in Choices, EnterResumes(t, c)
          PROVE  KoKoInv' /\ UNCHANGED faults
      BY <2>2 DEF EnterResumes
    <2>3. ASSUME NEW t \in Assets, NEW c \in Choices, EnterDials(t, c)
          PROVE  KoKoInv' /\ UNCHANGED faults
      BY <1>0, <2>3, LineTyped, TypeKeeps DEF EnterDials, ScreenReset
    <2>4. CASE AccountAnswered
      BY <1>1, <2>4, TypedSeq DEF AccountAnswered
    <2>5. CASE ShellSeen
      BY <1>0, <1>1, <2>5, ScriptKeeps DEF ShellSeen
    <2>6. CASE ShellSeenTooLate
      BY <2>6 DEF ShellSeenTooLate
    <2>7. CASE EnterGivesUp
      BY <2>7 DEF EnterGivesUp
    <2>8. CASE ProbeAnswered
      BY <1>0, <2>8, ScriptEnds DEF ProbeAnswered
    <2>9. CASE ProbeFails
      BY <1>0, <2>9, ScriptEnds DEF ProbeFails
    <2>10. QED
      BY <1>3, <2>1, <2>2, <2>3, <2>4, <2>5, <2>6, <2>7, <2>8, <2>9 DEF Entering
  <1>4. CASE Executing
    <2>1. CASE Exec
      BY <1>0, <1>1, <2>1, ScriptKeeps DEF Exec
    <2>2. CASE Completed
      BY <1>0, <2>2, ScriptEnds DEF Completed
    <2>3. CASE ExecClosed
      BY <1>0, <2>3, ScriptEnds DEF ExecClosed
    <2>4. CASE ExecInterrupted
      BY <1>0, <1>1, <2>4, TypeKeeps, ScriptEnds DEF ExecInterrupted
    <2>5. CASE PromptBack
      BY <1>0, <1>1, <2>5, ScriptKeeps DEF PromptBack
    <2>6. CASE RecoveryEnds
      BY <1>0, <2>6, ScriptEnds DEF RecoveryEnds, PromptGone, Reproved
    <2>7. QED
      BY <1>4, <2>1, <2>2, <2>3, <2>4, <2>5, <2>6 DEF Executing
  <1>5. CASE Leaving
    <2>1. CASE Leave
      BY <1>1, <2>1, TypeKeeps DEF Leave
    <2>2. CASE Left \/ LeaveAborted \/ LeaveWaitEnds
      BY <2>2 DEF Left, LeaveAborted, LeaveWaitEnds
    <2>3. CASE LeaveRetries
      BY <1>1, <2>3, TypedSeq DEF LeaveRetries
    <2>4. QED
      BY <1>5, <2>1, <2>2, <2>3 DEF Leaving
  <1>6. CASE Listing
    <2>1. CASE List
      BY <1>1, <2>1, TypeKeeps DEF List
    <2>2. CASE Listed
      BY <2>2 DEF Listed
    <2>3. QED
      BY <1>6, <2>1, <2>2 DEF Listing
  <1>7. CASE Outside
    <2>1. CASE Close \/ Dispose
      BY <1>0, <2>1 DEF Close, Dispose, Closed
    <2>2. CASE WireCloses
      BY <1>0, <2>2 DEF WireCloses
    <2>3. CASE LateClose \/ Abort \/ Thaw
      BY <2>3 DEF LateClose, Abort, Thaw
    <2>4. CASE Interrupt
      BY <1>1, <2>4, TypeKeeps DEF Interrupt
    <2>5. CASE InterruptProbes
      BY <1>0, <1>1, <2>5, ScriptKeeps DEF InterruptProbes
    <2>6. CASE InterruptEnds
      BY <1>0, <2>6, ScriptEnds DEF InterruptEnds
    <2>7. QED
      BY <1>7, <2>1, <2>2, <2>3, <2>4, <2>5, <2>6 DEF Outside
  <1>8. QED
    BY <1>2, <1>3, <1>4, <1>5, <1>6, <1>7
-----------------------------------------------------------------------------
(* The screen is what the far end painted, until it goes away: no prompt,   *)
(* menu or banner is on it that the far end has left.  (EnterDials blanks   *)
(* the screen: the converse does not hold in every weather.)               *)
Alive == remote \notin {"none", "gone"}

Painted ==
    /\ Alive => wire = "open"
    /\ Alive /\ screen = "shell" => remote = "shell"
    /\ Alive /\ screen \in {"menu", "bannerMenu"} => remote = "menu"
    /\ Alive /\ screen = "banner" => remote = "failing"
    /\ call.at = "dialing" => screen = "blank" /\ ~Alive

(* Every step of the far end is one of a far end that is there, and paints  *)
(* what it has become.                                                     *)
LEMMA Paints ==
    ASSUME KoKoInv, KoKoNext
    PROVE  /\ Alive
           /\ \/ remote' \in {"menu", "accounts", "pager", "shell"} /\ screen' = remote'
              \/ remote' \in {"dialing", "busy", "gone"} /\ screen' = "other"
              \/ remote' = "failing" /\ screen' = "banner"
              \/ remote' = "menu" /\ screen' = "bannerMenu"
  <1> USE DEF Alive, Paint, BackToMenu, Stay
  <1>1. CASE Consume
    <2> DEFINE kind == Head(typed)[1]
               arg  == Head(typed)[2]
    <2>1. \/ AtMenu(kind, arg) \/ AtAccounts(kind) \/ AtShell(kind, arg)
          \/ Interrupted(kind)
      BY <1>1 DEF Consume
    <2> HIDE DEF kind, arg
    <2>2. CASE AtMenu(kind, arg)
      <3>1. CASE kind = "target"
        BY <2>2, <3>1 DEF AtMenu
      <3>2. CASE kind = "list"
        BY <2>2, <3>2 DEF AtMenu
      <3>3. CASE kind = "exit"
        BY <2>2, <3>3 DEF AtMenu
      <3>4. CASE kind \notin {"target", "list", "exit"}
        BY <2>2, <3>4 DEF AtMenu
      <3>5. QED
        BY <3>1, <3>2, <3>3, <3>4
    <2>3. CASE AtAccounts(kind)
      BY <2>3 DEF AtAccounts
    <2>4. CASE AtShell(kind, arg)
      BY <2>4 DEF AtShell
    <2>5. CASE Interrupted(kind)
      BY <2>5 DEF Interrupted
    <2>6. QED
      BY <2>1, <2>2, <2>3, <2>4, <2>5
  <1>2. CASE MenuPainted
    BY <1>2 DEF MenuPainted
  <1>3. CASE DialEnds
    BY <1>3 DEF DialEnds
  <1>4. CASE PromptAfterBanner
    BY <1>4 DEF PromptAfterBanner
  <1>5. CASE CommandEnds
    BY <1>5 DEF CommandEnds
  <1>6. CASE Logout
    BY <1>6 DEF Logout
  <1>7. QED
    BY <1>1, <1>2, <1>3, <1>4, <1>5, <1>6 DEF KoKoNext

(* Where an operation goes, or that it returns.                            *)
LEMMA Calling ==
    ASSUME call \in Calls, NEW at \in Stages
    PROVE  /\ Goto(at) => call'.at = at /\ call'.goal = call.goal
                          /\ call'.aborted = call.aborted
           /\ Begin(at) => call'.at = at /\ call'.aborted = FALSE
           /\ Return => call' = NoCall /\ call'.at = "idle"
           /\ NoCall.at = "idle" /\ NoCall.aborted = FALSE
BY DEF Calls, Goto, Begin, Return, NoCall

(* The stages there are.                                                   *)
LEMMA StageTyped ==
    /\ "idle" \in Stages /\ "dialing" \in Stages /\ "menuWait" \in Stages
    /\ "shellWait" \in Stages /\ "probing" \in Stages /\ "executing" \in Stages
    /\ "recovering" \in Stages /\ "reproving" \in Stages /\ "leaving" \in Stages
    /\ "backoff" \in Stages /\ "listing" \in Stages
BY DEF Stages

(* Nothing the session does repaints, blanking apart.                      *)
LEMMA PaintedKept ==
    ASSUME Painted, call \in Calls,
           Connecting \/ Entering \/ Executing \/ Leaving \/ Listing \/ Outside
    PROVE  Painted'
  <1> USE DEF sessionVars, ambient, kokoVars
  <1>1. ASSUME UNCHANGED <<remote, screen, wire>>, call'.at = "dialing" => call.at = "dialing"
        PROVE  Painted'
    BY <1>1 DEF Painted, Alive
  <1>2. ASSUME remote' \in {"none", "gone"}, call'.at # "dialing" \/ UNCHANGED <<call, screen>>
        PROVE  Painted'
    BY <1>2 DEF Painted, Alive
  <1>3. CASE Connecting
    <2>1. CASE Connect
      BY <2>1 DEF Connect, Painted, Alive
    <2>2. CASE Attach
      BY <2>2, Calling, StageTyped DEF Attach, Painted, Alive
    <2>3. CASE ConnectFails
      BY <1>2, <2>3, Calling, StageTyped DEF ConnectFails, TornDown
    <2>4. CASE MenuSeen
      BY <1>1, <2>4, Calling, StageTyped DEF MenuSeen
    <2>5. QED
      BY <1>3, <2>1, <2>2, <2>3, <2>4 DEF Connecting
  <1>4. CASE Entering
    <2>1. ASSUME NEW t \in Assets, EnterExpired(t) PROVE Painted'
      BY <1>1, <2>1 DEF EnterExpired
    <2>2. ASSUME NEW t \in Assets, NEW c \in Choices, EnterResumes(t, c) PROVE Painted'
      BY <1>1, <2>2 DEF EnterResumes, NoCall
    <2>3. ASSUME NEW t \in Assets, NEW c \in Choices, EnterDials(t, c) PROVE Painted'
      BY <2>3 DEF EnterDials, ScreenReset, NoCall, Painted, Alive
    <2>4. CASE AccountAnswered
      BY <1>1, <2>4 DEF AccountAnswered, Calls
    <2>5. CASE ShellSeen
      BY <1>1, <2>5, Calling, StageTyped DEF ShellSeen
    <2>6. CASE ShellSeenTooLate \/ EnterGivesUp
      BY <1>1, <2>6, Calling, StageTyped DEF ShellSeenTooLate, EnterGivesUp
    <2>7. CASE ProbeAnswered \/ ProbeFails
      BY <1>1, <2>7, Calling, StageTyped DEF ProbeAnswered, ProbeFails
    <2>8. QED
      BY <1>4, <2>1, <2>2, <2>3, <2>4, <2>5, <2>6, <2>7 DEF Entering
  <1>5. CASE Executing
    <2>1. CASE Exec \/ PromptBack
      BY <1>1, <2>1, Calling, StageTyped DEF Exec, PromptBack
    <2>2. CASE ExecInterrupted
      BY <1>1, <2>2 DEF ExecInterrupted, Calls
    <2>3. CASE Completed \/ ExecClosed \/ RecoveryEnds
      BY <1>1, <2>3, Calling, StageTyped DEF Completed, ExecClosed, RecoveryEnds
    <2>4. QED
      BY <1>5, <2>1, <2>2, <2>3 DEF Executing
  <1>6. CASE Leaving
    <2>1. CASE Leave
      BY <1>1, <2>1 DEF Leave, NoCall
    <2>2. CASE Left \/ LeaveAborted \/ LeaveWaitEnds
      BY <1>1, <2>2, Calling, StageTyped DEF Left, LeaveAborted, LeaveWaitEnds
    <2>3. CASE LeaveRetries
      BY <1>1, <2>3, Calling, StageTyped DEF LeaveRetries, NextTry, Calls
    <2>4. QED
      BY <1>6, <2>1, <2>2, <2>3 DEF Leaving
  <1>7. CASE Listing
    BY <1>1, <1>7, Calling, StageTyped DEF Listing, List, Listed
  <1>8. CASE Outside
    <2>1. CASE Close
      BY <1>2, <2>1 DEF Close, Closed, Idle, NoCall
    <2>2. CASE Dispose
      BY <2>2 DEF Dispose, Closed, Painted, Alive
    <2>3. CASE WireCloses
      BY <1>2, <2>3 DEF WireCloses
    <2>4. CASE Abort
      BY <1>1, <2>4 DEF Abort, Calls
    <2>5. CASE LateClose \/ Thaw \/ Interrupt \/ InterruptProbes \/ InterruptEnds
      BY <1>1, <2>5 DEF LateClose, Thaw, Interrupt, InterruptProbes, InterruptEnds
    <2>6. QED
      BY <1>8, <2>1, <2>2, <2>3, <2>4, <2>5 DEF Outside
  <1>9. QED
    BY <1>3, <1>4, <1>5, <1>6, <1>7, <1>8
-----------------------------------------------------------------------------
(* Entering an asset.  Without an interrupt, ENTERING belongs to one target: *)
(* the call that enters it or, at rest, the account choice that is open; no *)
(* other live state has a choice open; and a shell that can be used, or is, *)
(* has been judged.                                                        *)
EntryIsOwned ==
    /\ irq = "idle"
    /\ state = "ENTERING" =>
          /\ target \in Assets
          /\ \/ call.at = "idle" /\ pending = target
             \/ /\ call.at \in {"shellWait", "probing"}
                /\ call.goal = target
                /\ pending \in {NoAsset, target}
    /\ state \in {"CONNECTING", "MENU", "SHELL", "RUNNING"} => pending = NoAsset
    /\ state \in {"SHELL", "RUNNING"} => identity # "none"

(* Where setState comes from when it gets to a live state.                 *)
LEMMA SetStateFrom ==
    ASSUME NEW s \in States
    PROVE  /\ SetState(s, "MENU") = "MENU" => s \in {"MENU", "CONNECTING", "ENTERING", "SHELL"}
           /\ SetState(s, "ENTERING") = "ENTERING" => s \in {"MENU", "ENTERING"}
           /\ SetState(s, "SHELL") = "SHELL" => s \in {"ENTERING", "SHELL", "RUNNING"}
           /\ SetState(s, "RUNNING") = "RUNNING" => s \in {"SHELL", "RUNNING"}
  <1>1. CASE s = "DISCONNECTED"
    BY <1>1 DEF SetState, Legal
  <1>2. CASE s = "CONNECTING"
    BY <1>2 DEF SetState, Legal
  <1>3. CASE s = "MENU"
    BY <1>3 DEF SetState, Legal
  <1>4. CASE s = "ENTERING"
    BY <1>4 DEF SetState, Legal
  <1>5. CASE s = "SHELL"
    BY <1>5 DEF SetState, Legal
  <1>6. CASE s = "RUNNING"
    BY <1>6 DEF SetState, Legal
  <1>7. CASE s = "UNKNOWN"
    BY <1>7 DEF SetState, Legal
  <1>8. CASE s = "ERROR"
    BY <1>8 DEF SetState, Legal
  <1>9. QED
    BY <1>1, <1>2, <1>3, <1>4, <1>5, <1>6, <1>7, <1>8 DEF States

(* It ends where it was asked to go, or in UNKNOWN: for each request.      *)
LEMMA Ends ==
    ASSUME state \in States, NEW t \in States, Becomes(t)
    PROVE  state' \in {t, "UNKNOWN"}
BY SetStateTarget DEF Becomes

(* A failed entry that goes on is parked on its own target; any other ends *)
(* in the menu, or in no live state.                                       *)
LEMMA RecoveredParks ==
    ASSUME state \in States, target \in Assets \cup {NoAsset}, EntryIsOwned,
           call.at \in {"shellWait", "probing"}, NEW asked \in BOOLEAN, Recovered(asked)
    PROVE  \/ /\ state # "ENTERING" /\ pending' = NoAsset /\ UNCHANGED <<state, target>>
           \/ /\ state = "ENTERING" /\ ~WireDead /\ ListDetected
              /\ UNCHANGED <<state, target>> /\ pending' = target
           \/ /\ state = "ENTERING" /\ ~WireDead /\ MenuPromptSeen
              /\ state' = "MENU" /\ pending' = NoAsset /\ target' = NoAsset
           \/ state' \in {"DISCONNECTED", "UNKNOWN"} /\ pending' = NoAsset /\ UNCHANGED target
  <1> USE DEF Recovered
  <1>1. CASE state # "ENTERING"
    BY <1>1
  <1>2. CASE state = "ENTERING" /\ WireDead
    BY <1>2, Ends DEF States
  <1>3. CASE state = "ENTERING" /\ ~WireDead /\ ListDetected
    BY <1>3 DEF EntryIsOwned
  <1>4. CASE state = "ENTERING" /\ ~WireDead /\ ~ListDetected /\ MenuPromptSeen
    <2>1. SetState("ENTERING", "MENU") = "MENU"
      BY DEF SetState, Legal
    <2>2. QED
      BY <1>4, <2>1 DEF Becomes
  <1>5. CASE state = "ENTERING" /\ ~WireDead /\ ~ListDetected /\ ~MenuPromptSeen
    BY <1>5, Ends DEF States
  <1>6. QED
    BY <1>1, <1>2, <1>3, <1>4, <1>5

(* Every step of the session keeps the entry owned.                        *)
LEMMA EntryKept ==
    ASSUME Core, EntryIsOwned, NoInterrupt,
           Connecting \/ Entering \/ Executing \/ Leaving \/ Listing \/ Outside
    PROVE  EntryIsOwned'
  <1> USE DEF sessionVars, ambient, kokoVars
  <1>0. /\ state \in States /\ call \in Calls /\ irq = "idle"
        /\ target \in Assets \cup {NoAsset} /\ GoalIsAsset
        /\ {"DISCONNECTED", "CONNECTING", "MENU", "ENTERING", "SHELL", "RUNNING",
            "UNKNOWN", "ERROR"} = States
    BY DEF Core, SessionTypes, EntryIsOwned, States
  (* Steps that do not touch what it is about.                             *)
  <1>1. ASSUME UNCHANGED <<irq, state, target, pending, identity>>,
               state = "ENTERING" => call'.at = call.at /\ call'.goal = call.goal
        PROVE  EntryIsOwned'
    BY <1>1 DEF EntryIsOwned
  (* Steps that end in a state that is not live.                           *)
  <1>2. ASSUME UNCHANGED irq, state' \in {"DISCONNECTED", "UNKNOWN", "ERROR"}
        PROVE  EntryIsOwned'
    BY <1>2 DEF EntryIsOwned
  (* Steps that ask for a state, from one that is not ENTERING.            *)
  <1>3. ASSUME UNCHANGED <<irq, pending, identity>>, state # "ENTERING",
               Becomes("MENU") \/ Becomes("SHELL") \/ Becomes("UNKNOWN")
                  \/ Becomes("DISCONNECTED")
        PROVE  EntryIsOwned'
    <2>1. state' \in {"MENU", "SHELL", "UNKNOWN", "DISCONNECTED"}
      BY <1>0, <1>3, Ends
    <2>2. state' = "MENU" => state \in {"MENU", "CONNECTING", "SHELL"}
      BY <1>0, <1>3, Ends, SetStateFrom DEF Becomes
    <2>3. state' = "SHELL" => state \in {"SHELL", "RUNNING"}
      BY <1>0, <1>3, Ends, SetStateFrom DEF Becomes
    <2>4. QED
      BY <1>3, <2>1, <2>2, <2>3 DEF EntryIsOwned
  (* ENTERING is the state of a call at rest, waiting or probing.           *)
  <1>4. state = "ENTERING" => call.at \in {"idle", "shellWait", "probing"}
    BY DEF EntryIsOwned
  <1>5. ASSUME UNCHANGED irq, Becomes("DISCONNECTED") \/ Becomes("UNKNOWN") \/ Becomes("ERROR")
        PROVE  EntryIsOwned'
    BY <1>0, <1>2, <1>5, Ends
  <1>6. CASE Connecting
    <2>1. CASE Connect
      BY <2>1 DEF Connect, SetState, Legal, EntryIsOwned
    <2>2. CASE Attach
      BY <1>1, <1>4, <2>2 DEF Attach
    <2>3. CASE ConnectFails
      <3>1. state' \in {"ERROR", "UNKNOWN"}
        BY <1>0, <2>3, SetStateTarget DEF ConnectFails, TornDown
      <3>2. QED
        BY <1>2, <2>3, <3>1 DEF ConnectFails
    <2>4. CASE MenuSeen
      BY <1>3, <1>4, <2>4 DEF MenuSeen
    <2>5. QED
      BY <1>6, <2>1, <2>2, <2>3, <2>4 DEF Connecting
  <1>7. CASE Entering
    <2>1. ASSUME NEW t \in Assets, EnterExpired(t) PROVE EntryIsOwned'
      BY <1>5, <2>1 DEF EnterExpired
    <2>2. ASSUME NEW t \in Assets, NEW c \in Choices, EnterResumes(t, c)
          PROVE  EntryIsOwned'
      <3>1. /\ call'.at = "shellWait" /\ call'.goal = t
            /\ UNCHANGED <<irq, state, target, pending, identity>>
        BY <2>2 DEF EnterResumes, NoCall
      <3>2. call.at = "idle" /\ pending = t /\ state = "ENTERING"
        BY <2>2 DEF EnterResumes, CanResume, Parked, Idle, NoCall
      <3>3. QED
        BY <3>1, <3>2 DEF EntryIsOwned
    <2>3. ASSUME NEW t \in Assets, NEW c \in Choices, EnterDials(t, c)
          PROVE  EntryIsOwned'
      <3>1. state' = "ENTERING" /\ state = "MENU"
        BY <2>3 DEF EnterDials, InMenu, Becomes, SetState, Legal
      <3>2. /\ target' = t /\ UNCHANGED <<irq, pending>>
            /\ call'.at = "shellWait" /\ call'.goal = t
        BY <2>3 DEF EnterDials, NoCall
      <3>3. QED
        BY <3>1, <3>2 DEF EntryIsOwned
    <2>4. CASE AccountAnswered
      BY <1>0, <1>1, <2>4 DEF AccountAnswered, Calls
    <2>5. CASE ShellSeen
      <3>1. call'.at = "probing" /\ call'.goal = call.goal /\ call.at = "shellWait"
        BY <1>0, <2>5, Calling, StageTyped DEF ShellSeen
      <3>2. UNCHANGED <<irq, state, target, pending, identity>>
        BY <2>5 DEF ShellSeen
      <3>3. QED
        BY <3>1, <3>2 DEF EntryIsOwned
    <2>6. CASE ShellSeenTooLate
      BY <1>5, <2>6 DEF ShellSeenTooLate
    <2>7. ASSUME NEW asked \in BOOLEAN, Recovered(asked), Return,
                 UNCHANGED <<irq, identity>>, call.at \in {"shellWait", "probing"}
          PROVE  EntryIsOwned'
      <3>1. call'.at = "idle"
        BY <2>7 DEF Return, NoCall
      <3>2. QED
        BY <1>0, <2>7, <3>1, RecoveredParks DEF EntryIsOwned
    <2>8. CASE EnterGivesUp
      BY <2>7, <2>8 DEF EnterGivesUp, NeedsChoice
    <2>9. CASE ProbeAnswered
      <3>1. PICK verdict \in {"unverified", "verified", "mismatch"} : Judge(verdict)
        BY <2>9 DEF ProbeAnswered, Verdicts
      <3>2. pending' = NoAsset /\ UNCHANGED irq
        BY <2>9 DEF ProbeAnswered
      <3>3. CASE verdict = "mismatch"
        BY <1>5, <3>1, <3>2, <3>3 DEF Judge
      <3>4. CASE verdict # "mismatch"
        <4>1. state' \in {"SHELL", "UNKNOWN"} /\ identity' # "none"
          BY <1>0, <3>1, <3>4, Ends DEF Judge
        <4>2. QED
          BY <3>2, <4>1 DEF EntryIsOwned
      <3>5. QED
        BY <3>3, <3>4
    <2>10. CASE ProbeFails
      BY <1>5, <2>7, <2>10 DEF ProbeFails, Unproved
    <2>11. QED
      BY <1>7, <2>1, <2>2, <2>3, <2>4, <2>5, <2>6, <2>8, <2>9, <2>10 DEF Entering
  <1>8. CASE Executing
    <2>1. CASE Exec
      <3>1. state' = "RUNNING" /\ state = "SHELL"
        BY <2>1 DEF Exec, InShell, Becomes, SetState, Legal
      <3>2. QED
        BY <2>1, <3>1 DEF Exec, EntryIsOwned
    <2>2. CASE Completed
      <3>1. PICK parsed \in BOOLEAN :
                state' = IF parsed THEN SetState(state, "SHELL")
                         ELSE SetState(SetState(state, "SHELL"), "UNKNOWN")
        BY <2>2 DEF Completed
      <3>2. state # "ENTERING" /\ UNCHANGED <<irq, pending, identity>>
        BY <1>4, <2>2 DEF Completed
      <3>3. CASE parsed
        BY <1>3, <3>1, <3>2, <3>3 DEF Becomes
      <3>4. CASE ~parsed
        <4>1. SetState(state, "SHELL") \in States
          BY <1>0, SetStateTarget
        <4>2. state' = "UNKNOWN"
          BY <1>0, <3>1, <3>4, <4>1, SetStateTarget
        <4>3. QED
          BY <1>2, <3>2, <4>2
      <3>5. QED
        BY <3>3, <3>4
    <2>3. CASE ExecClosed
      BY <1>5, <2>3 DEF ExecClosed
    <2>4. CASE ExecInterrupted
      BY <1>1, <1>4, <2>4 DEF ExecInterrupted
    <2>5. CASE PromptBack
      BY <1>1, <1>4, <2>5 DEF PromptBack
    <2>6. CASE RecoveryEnds
      <3>1. state # "ENTERING" /\ UNCHANGED <<irq, pending, identity>>
        BY <1>4, <2>6 DEF RecoveryEnds, PromptGone, Reproved
      <3>2. Becomes("SHELL") \/ Becomes("UNKNOWN")
        BY <2>6 DEF RecoveryEnds, PromptGone, Reproved, AfterRecovery
      <3>3. QED
        BY <1>3, <3>1, <3>2
    <2>7. QED
      BY <1>8, <2>1, <2>2, <2>3, <2>4, <2>5, <2>6 DEF Executing
  <1>9. CASE Leaving
    <2>1. CASE Leave
      BY <1>1, <2>1 DEF Leave, InShell
    <2>2. CASE Left
      BY <1>3, <1>4, <2>2 DEF Left
    <2>3. CASE LeaveAborted
      BY <1>1, <1>4, <2>3 DEF LeaveAborted
    <2>4. CASE LeaveWaitEnds
      BY <1>1, <1>4, <1>5, <2>4 DEF LeaveWaitEnds
    <2>5. CASE LeaveRetries
      BY <1>1, <1>4, <2>5 DEF LeaveRetries
    <2>6. QED
      BY <1>9, <2>1, <2>2, <2>3, <2>4, <2>5 DEF Leaving
  <1>10. CASE Listing
    <2>1. CASE List
      BY <1>1, <2>1 DEF List, InMenu
    <2>2. CASE Listed
      BY <1>1, <1>4, <1>5, <2>2 DEF Listed
    <2>3. QED
      BY <1>10, <2>1, <2>2 DEF Listing
  <1>11. CASE Outside
    <2>1. CASE Close \/ Dispose
      <3>1. state' \in {"DISCONNECTED", "UNKNOWN"} /\ UNCHANGED irq
        BY <1>0, <2>1, SetStateTarget DEF Close, Dispose, Closed
      <3>2. QED
        BY <1>2, <3>1
    <2>2. CASE WireCloses \/ LateClose
      BY <1>5, <2>2 DEF WireCloses, WireGone, LateClose
    <2>3. CASE Abort
      BY <1>0, <1>1, <2>3 DEF Abort, Calls
    <2>4. CASE Thaw
      BY <1>1, <2>4 DEF Thaw
    <2>5. CASE Interrupt \/ InterruptProbes \/ InterruptEnds
      BY <1>0, <2>5 DEF Interrupt, InterruptProbes, InterruptEnds, NoInterrupt
    <2>6. QED
      BY <1>11, <2>1, <2>2, <2>3, <2>4, <2>5 DEF Outside
  <1>12. QED
    BY <1>6, <1>7, <1>8, <1>9, <1>10, <1>11
-----------------------------------------------------------------------------
(* Identity.  The probe is the last line of the call that types it: by the *)
(* time its answer is judged nothing is on its way, so the shell that      *)
(* answered is the shell there is, or there is none.  After that no line    *)
(* that dials is typed until the next entry, which starts unjudged.        *)
Landed(a) == /\ remote \in {"none", "menu", "pager", "shell", "busy", "gone"}
             /\ remote \in {"shell", "busy"} => where = a

NothingDials == \A i \in 1 .. Len(typed) : typed[i][1] \notin {"target", "index"}

ProbeIsLast == \A i \in 1 .. Len(typed) : typed[i] = Line("probe", "op") => i = Len(typed)

Unjudged == {"dialing", "menuWait", "shellWait", "probing"}

IdentityIsTrue ==
    /\ call.at \in Unjudged \/ state = "ENTERING" => identity = "none"
    /\ call.at \in {"shellWait", "probing"} /\ Alive => target = call.goal
    /\ call.at = "probing" =>
          /\ ProbeIsLast
          /\ heard["op"] \in Assets => typed = <<>> /\ Landed(heard["op"])
    /\ identity = "verified" => Landed(target) /\ NothingDials

(* The far end moves from one asset to another only by a line that dials.  *)
LEMMA LandedKept ==
    ASSUME KoKoInv, NEW a, Landed(a), NothingDials, KoKoNext
    PROVE  /\ remote' \in {"none", "menu", "pager", "shell", "busy", "gone"}
           /\ remote' \in {"shell", "busy"} => where' = a
           /\ NothingDials'
  <1> USE DEF Landed, Paint, BackToMenu, Stay
  <1>1. CASE Consume
    <2> DEFINE kind == Head(typed)[1]
               arg  == Head(typed)[2]
    <2>1. typed # <<>> /\ typed' = Tail(typed) /\ typed \in Seq(Lines)
      BY <1>1 DEF Consume, KoKoInv, KoKoTypeOK
    <2>2. kind \notin {"target", "index"}
      BY <2>1, NextLine DEF NothingDials
    <2>3. NothingDials'
      BY <2>1, NextLine DEF NothingDials
    <2>4. \/ AtMenu(kind, arg) \/ AtAccounts(kind) \/ AtShell(kind, arg)
          \/ Interrupted(kind)
      BY <1>1 DEF Consume
    <2> HIDE DEF kind, arg
    <2>5. CASE AtMenu(kind, arg)
      <3>1. CASE kind = "list"
        BY <2>3, <2>5, <3>1 DEF AtMenu
      <3>2. CASE kind = "exit"
        BY <2>3, <2>5, <3>2 DEF AtMenu
      <3>3. CASE kind \notin {"target", "list", "exit"}
        BY <2>3, <2>5, <3>3 DEF AtMenu
      <3>4. QED
        BY <2>2, <3>1, <3>2, <3>3
    <2>6. CASE AtAccounts(kind)
      BY <2>6 DEF AtAccounts
    <2>7. CASE AtShell(kind, arg)
      BY <2>3, <2>7 DEF AtShell
    <2>8. CASE Interrupted(kind)
      BY <2>3, <2>8 DEF Interrupted
    <2>9. QED
      BY <2>4, <2>5, <2>6, <2>7, <2>8
  <1>2. CASE MenuPainted \/ DialEnds \/ PromptAfterBanner
    BY <1>2 DEF MenuPainted, DialEnds, PromptAfterBanner
  <1>3. CASE CommandEnds
    BY <1>3 DEF CommandEnds, NothingDials
  <1>4. CASE Logout
    BY <1>4 DEF Logout, NothingDials
  <1>5. QED
    BY <1>1, <1>2, <1>3, <1>4 DEF KoKoNext

(* What the far end does to a probe that is the last line.                 *)
LEMMA ProbeHeard ==
    ASSUME KoKoInv, ProbeIsLast, heard["op"] \in Assets => typed = <<>> /\ Landed(heard["op"]),
           KoKoNext
    PROVE  /\ ProbeIsLast'
           /\ heard'["op"] \in Assets => typed' = <<>> /\ Landed(heard["op"])'
  <1>0. typed \in Seq(Lines) /\ heard \in [Drivers -> Assets \cup {"nothing", "done"}]
        /\ "op" \in Drivers
    BY DEF KoKoInv, KoKoTypeOK, Drivers
  <1>1. CASE typed = <<>>
    <2>1. typed' = <<>> /\ ProbeIsLast'
      BY <1>1 DEF KoKoNext, Consume, MenuPainted, DialEnds, PromptAfterBanner, CommandEnds,
                  Logout, ProbeIsLast
    <2>2. heard'["op"] \in {heard["op"], "done"}
      BY <1>0, <1>1 DEF KoKoNext, Consume, MenuPainted, DialEnds, PromptAfterBanner,
                  CommandEnds, Logout
    <2>3. ASSUME heard'["op"] \in Assets PROVE Landed(heard["op"])'
      <3>1. heard'["op"] = heard["op"] /\ Landed(heard["op"])
        BY <2>2, <2>3, HeardAssumption
      <3>2. NothingDials
        BY <1>1 DEF NothingDials
      <3> DEFINE a == heard["op"]
      <3>3. Landed(a)
        BY <3>1
      <3> HIDE DEF a
      <3>4. /\ remote' \in {"none", "menu", "pager", "shell", "busy", "gone"}
            /\ remote' \in {"shell", "busy"} => where' = a
        BY <3>2, <3>3, LandedKept
      <3>5. QED
        BY <3>1, <3>4 DEF Landed, a
    <2>4. QED
      BY <2>1, <2>3
  <1>2. CASE typed # <<>> /\ Consume
    <2> DEFINE kind == Head(typed)[1]
               arg  == Head(typed)[2]
    <2>1. /\ typed' = Tail(typed) /\ Head(typed) = Line(kind, arg)
          /\ Head(typed) = typed[1]
      BY <1>0, <1>2, NextLine, LineParts DEF Consume
    <2>2. ProbeIsLast'
      BY <1>0, <1>2, <2>1, NextLine DEF ProbeIsLast
    <2>3. heard["op"] \notin Assets
      BY <1>2
    <2>4. \/ UNCHANGED heard
          \/ AtShell(kind, arg) /\ kind = "probe" /\ watcher = arg
      BY <1>2 DEF Consume, AtMenu, AtAccounts, AtShell, Interrupted
    <2> HIDE DEF kind, arg
    <2>5. CASE UNCHANGED heard
      BY <2>2, <2>3, <2>5
    <2>6. CASE AtShell(kind, arg) /\ kind = "probe" /\ watcher = arg
      <3>1. heard' = [heard EXCEPT ![arg] = where] /\ remote' = "shell" /\ UNCHANGED where
        BY <2>6 DEF AtShell, Stay, Paint
      <3>2. CASE arg = "op"
        <4>0. typed[1] = Line("probe", "op") /\ 1 \in 1 .. Len(typed)
          BY <1>0, <1>2, <2>1, <2>6, <3>2, NextLine
        <4>1. Len(typed) = 1
          BY <4>0 DEF ProbeIsLast
        <4>2. typed' = <<>>
          BY <1>0, <2>1, <4>1
        <4>3. heard'["op"] = where
          BY <1>0, <3>1, <3>2
        <4>4. QED
          BY <2>2, <3>1, <4>2, <4>3 DEF Landed
      <3>3. CASE arg # "op"
        BY <1>0, <2>2, <2>3, <3>1, <3>3
      <3>4. QED
        BY <3>2, <3>3
    <2>7. QED
      BY <2>4, <2>5, <2>6
  <1>3. CASE typed # <<>> /\ ~Consume
    <2>1. UNCHANGED typed /\ heard'["op"] \in {heard["op"], "done"}
      BY <1>0, <1>3 DEF KoKoNext, MenuPainted, DialEnds, PromptAfterBanner, CommandEnds,
                        Logout
    <2>2. heard'["op"] \notin Assets
      BY <1>3, <2>1, HeardAssumption
    <2>3. QED
      BY <2>1, <2>2 DEF ProbeIsLast
  <1>4. QED
    BY <1>1, <1>2, <1>3

(* The far end, whatever it does, leaves the verdict true.                 *)
LEMMA IdentityHeard ==
    ASSUME KoKoInv, IdentityIsTrue, KoKoNext, UNCHANGED <<sessionVars, call>>
    PROVE  IdentityIsTrue'
  <1> USE DEF sessionVars
  <1>1. Alive
    BY Paints
  <1>2. ASSUME call.at = "probing"
        PROVE  /\ ProbeIsLast'
               /\ heard'["op"] \in Assets => typed' = <<>> /\ Landed(heard["op"])'
    BY <1>2, ProbeHeard DEF IdentityIsTrue
  <1>3. ASSUME identity = "verified" PROVE Landed(target)' /\ NothingDials'
    <2>1. Landed(target) /\ NothingDials
      BY <1>3 DEF IdentityIsTrue
    <2>2. /\ remote' \in {"none", "menu", "pager", "shell", "busy", "gone"}
          /\ remote' \in {"shell", "busy"} => where' = target
          /\ NothingDials'
      BY <2>1, LandedKept
    <2>3. QED
      BY <2>2 DEF Landed
  <1>4. QED
    BY <1>1, <1>2, <1>3 DEF IdentityIsTrue
-----------------------------------------------------------------------------
(* A line that does not dial is typed, alone or as a script.               *)
LEMMA TypesNoDial ==
    ASSUME KoKoInv, NothingDials, NEW l \in Lines, l[1] \notin {"target", "index"},
           \/ Type(l)
           \/ \E d \in Drivers : RunOp(d, l)
           \/ UNCHANGED typed
           \/ typed' = <<>>
    PROVE  NothingDials'
  <1>0. typed \in Seq(Lines)
    BY DEF KoKoInv, KoKoTypeOK
  <1>1. CASE Type(l)
    <2>1. /\ Len(typed') = Len(typed) + 1 /\ typed'[Len(typed) + 1] = l
          /\ \A i \in 1 .. Len(typed) : typed'[i] = typed[i]
      BY <1>0, <1>1, TypedSeq DEF Type
    <2>2. ASSUME NEW i \in 1 .. Len(typed') PROVE typed'[i][1] \notin {"target", "index"}
      <3>1. CASE i = Len(typed) + 1
        BY <2>1, <3>1
      <3>2. CASE i \in 1 .. Len(typed)
        BY <2>1, <3>2 DEF NothingDials
      <3>3. QED
        BY <1>0, <2>1, <3>1, <3>2
    <2>3. QED
      BY <2>2 DEF NothingDials
  <1>2. ASSUME NEW d \in Drivers, RunOp(d, l) PROVE NothingDials'
    <2>1. /\ Len(typed') = Len(typed) + 1 /\ typed'[Len(typed) + 1] = l
          /\ \A i \in 1 .. Len(typed) : typed'[i][1] = typed[i][1]
      BY <1>0, <1>2, Scripted
    <2>2. ASSUME NEW i \in 1 .. Len(typed') PROVE typed'[i][1] \notin {"target", "index"}
      <3>1. CASE i = Len(typed) + 1
        BY <2>1, <3>1
      <3>2. CASE i \in 1 .. Len(typed)
        BY <2>1, <3>2 DEF NothingDials
      <3>3. QED
        BY <1>0, <2>1, <3>1, <3>2
    <2>3. QED
      BY <2>2 DEF NothingDials
  <1>3. CASE UNCHANGED typed \/ typed' = <<>>
    BY <1>3 DEF NothingDials
  <1>4. QED
    BY <1>1, <1>2, <1>3

(* Every step of the session keeps the verdict true.                       *)
LEMMA IdentityKept ==
    ASSUME Core, KoKoInv, Painted, EntryIsOwned, IdentityIsTrue, NoInterrupt,
           Connecting \/ Entering \/ Executing \/ Leaving \/ Listing \/ Outside
    PROVE  IdentityIsTrue'
  <1> USE DEF sessionVars, ambient, kokoVars
  <1>0. /\ state \in States /\ call \in Calls /\ irq = "idle"
        /\ target \in Assets \cup {NoAsset} /\ GoalIsAsset /\ typed \in Seq(Lines)
        /\ heard \in [Drivers -> Assets \cup {"nothing", "done"}] /\ "op" \in Drivers
        /\ {"DISCONNECTED", "CONNECTING", "MENU", "ENTERING", "SHELL", "RUNNING",
            "UNKNOWN", "ERROR"} = States
    BY DEF Core, SessionTypes, EntryIsOwned, KoKoInv, KoKoTypeOK, States, Drivers
  <1>1. /\ Line("probe", "op") \in Lines /\ Line("cmd", NoAsset) \in Lines
        /\ Line("intr", NoAsset) \in Lines /\ Line("exit", NoAsset) \in Lines
        /\ Line("list", NoAsset) \in Lines
        /\ \A k \in {"probe", "cmd", "intr", "exit", "list"}, a \in {NoAsset, "op"} :
               Line(k, a)[1] \notin {"target", "index"}
    BY LineTyped DEF Drivers, Line
  (* An operation that does not enter, or returns.                         *)
  <1>2. ASSUME call'.at \notin Unjudged, state' = "ENTERING" => state = "ENTERING",
               UNCHANGED identity, Landed(target) => Landed(target)',
               NothingDials => NothingDials'
        PROVE  IdentityIsTrue'
    BY <1>2 DEF IdentityIsTrue, Unjudged
  (* What happens to an operation from outside.                            *)
  <1>3. ASSUME call'.at = call.at, call'.goal = call.goal, UNCHANGED <<identity, heard>>,
               state' = "ENTERING" => state = "ENTERING",
               \/ UNCHANGED <<typed, remote, where, target>>
               \/ typed' = <<>> /\ remote' \in {"none", "gone"}
        PROVE  IdentityIsTrue'
    BY <1>3 DEF IdentityIsTrue, Landed, NothingDials, ProbeIsLast, Alive
  <1>4. ASSUME NEW t \in States, Becomes(t), t # "ENTERING"
        PROVE  state' # "ENTERING"
    BY <1>0, <1>4, Ends
  <1>5. ASSUME UNCHANGED <<remote, where, target>> PROVE Landed(target) => Landed(target)'
    BY <1>5 DEF Landed
  <1>6. ASSUME Return PROVE call'.at \notin Unjudged
    BY <1>6 DEF Return, NoCall, Unjudged
  <1>7. CASE Connecting
    <2>1. CASE Connect
      <3>1. call'.at = "dialing" /\ identity' = "none"
        BY <2>1, Calling, StageTyped, <1>0 DEF Connect
      <3>2. QED
        BY <3>1 DEF IdentityIsTrue
    <2>2. CASE Attach
      <3>1. call.at = "dialing" /\ call'.at = "menuWait" /\ identity = "none" /\ UNCHANGED identity
        BY <1>0, <2>2, Calling, StageTyped DEF Attach, IdentityIsTrue, Unjudged
      <3>2. QED
        BY <3>1 DEF IdentityIsTrue
    <2>3. CASE ConnectFails
      <3>1. state' \in {"ERROR", "UNKNOWN"} /\ identity = "none" /\ UNCHANGED identity
        BY <1>0, <2>3, SetStateTarget DEF ConnectFails, TornDown, IdentityIsTrue, Unjudged
      <3>2. call'.at = "idle"
        BY <2>3 DEF ConnectFails, Return, NoCall
      <3>3. QED
        BY <3>1, <3>2 DEF IdentityIsTrue
    <2>4. CASE MenuSeen
      <3>1. /\ UNCHANGED <<identity, remote, where, target, typed>>
            /\ Return /\ state' # "ENTERING"
        BY <1>0, <1>4, <2>4 DEF MenuSeen
      <3>2. QED
        BY <1>2, <1>5, <1>6, <3>1 DEF NothingDials
    <2>5. QED
      BY <1>7, <2>1, <2>2, <2>3, <2>4 DEF Connecting
  <1>8. CASE Entering
    <2>1. ASSUME NEW t \in Assets, EnterExpired(t) PROVE IdentityIsTrue'
      <3>1. /\ UNCHANGED <<identity, remote, where, target, typed, call>>
            /\ call.at = "idle"
        BY <2>1 DEF EnterExpired, Idle, NoCall
      <3>2. state' # "ENTERING"
        BY <1>0, <1>4, <2>1 DEF EnterExpired
      <3>3. QED
        BY <1>2, <1>5, <3>1, <3>2 DEF NothingDials, Unjudged
    <2>2. ASSUME NEW t \in Assets, NEW c \in Choices, EnterResumes(t, c)
          PROVE  IdentityIsTrue'
      <3>1. /\ call'.at = "shellWait" /\ call'.goal = t
            /\ UNCHANGED <<state, target, identity>>
        BY <2>2 DEF EnterResumes, NoCall
      <3>2. call.at = "idle" /\ pending = t /\ state = "ENTERING"
        BY <2>2 DEF EnterResumes, CanResume, Parked, Idle, NoCall
      <3>3. target = t /\ identity = "none"
        BY <3>2 DEF EntryIsOwned, IdentityIsTrue
      <3>4. QED
        BY <3>1, <3>3 DEF IdentityIsTrue
    <2>3. ASSUME NEW t \in Assets, NEW c \in Choices, EnterDials(t, c)
          PROVE  IdentityIsTrue'
      <3>1. /\ call'.at = "shellWait" /\ call'.goal = t /\ target' = t
            /\ identity' = "none"
        BY <2>3 DEF EnterDials, NoCall
      <3>2. QED
        BY <3>1 DEF IdentityIsTrue
    <2>4. CASE AccountAnswered
      <3>1. /\ call'.at = "shellWait" /\ call.at = "shellWait" /\ call'.goal = call.goal
            /\ UNCHANGED <<remote, target, identity>>
        BY <1>0, <2>4 DEF AccountAnswered, Calls
      <3>2. QED
        BY <3>1 DEF IdentityIsTrue, Unjudged, Alive
    <2>5. CASE ShellSeen
      <3>1. /\ call'.at = "probing" /\ call'.goal = call.goal /\ call.at = "shellWait"
            /\ UNCHANGED <<remote, target, identity>> /\ RunOp("op", Line("probe", "op"))
        BY <1>0, <2>5, Calling, StageTyped DEF ShellSeen
      <3>2. heard'["op"] = "nothing"
        BY <1>0, <3>1 DEF RunOp
      <3>3. /\ Len(typed') = Len(typed) + 1
            /\ \A i \in 1 .. Len(typed) : typed'[i] # Line("probe", "op")
        BY <1>0, <1>1, <3>1, Scripted
      <3>4. ProbeIsLast'
        BY <1>0, <3>3 DEF ProbeIsLast
      <3>5. QED
        BY <3>1, <3>2, <3>4, HeardAssumption DEF IdentityIsTrue, Unjudged, Alive
    <2>6. CASE ShellSeenTooLate
      <3>1. /\ UNCHANGED <<identity, remote, where, target, typed>>
            /\ Return /\ state' # "ENTERING"
        BY <1>0, <1>4, <2>6 DEF ShellSeenTooLate
      <3>2. QED
        BY <1>2, <1>5, <1>6, <3>1 DEF NothingDials
    (* A call that gives up ends unjudged, wherever it leaves the session. *)
    <2>7. ASSUME Return, UNCHANGED identity, call.at \in {"shellWait", "probing"}
          PROVE  IdentityIsTrue'
      BY <1>6, <2>7 DEF IdentityIsTrue, Unjudged
    <2>8. CASE EnterGivesUp \/ ProbeFails
      BY <2>7, <2>8 DEF EnterGivesUp, ProbeFails
    <2>9. CASE ProbeAnswered
      <3>1. /\ call.at = "probing" /\ Return /\ heard["op"] \in Assets
            /\ UNCHANGED <<remote, where, target, typed>>
        BY <2>9 DEF ProbeAnswered
      <3>2. PICK verdict \in Verdicts(call.goal, heard["op"]) : Judge(verdict)
        BY <2>9 DEF ProbeAnswered
      <3>3. state' # "ENTERING"
        BY <1>0, <1>4, <3>2 DEF Judge
      <3>4. identity' = "verified" => heard["op"] = call.goal
        <4>1. identity = "none"
          BY <3>1 DEF IdentityIsTrue, Unjudged
        <4>2. QED
          BY <3>2, <4>1 DEF Judge, Verdicts
      <3>5. typed = <<>> /\ Landed(heard["op"])
        BY <3>1 DEF IdentityIsTrue
      <3>6. Alive => target = call.goal
        BY <3>1 DEF IdentityIsTrue
      <3>7. identity' = "verified" => Landed(target)' /\ NothingDials'
        BY <3>1, <3>4, <3>5, <3>6 DEF Landed, Alive, NothingDials
      <3>8. call'.at \notin Unjudged
        BY <1>6, <3>1
      <3>9. QED
        BY <3>3, <3>7, <3>8 DEF IdentityIsTrue, Unjudged
    <2>10. QED
      BY <1>8, <2>1, <2>2, <2>3, <2>4, <2>5, <2>6, <2>8, <2>9 DEF Entering
  <1>9. CASE Executing
    <2>1. CASE Exec
      <3>1. /\ call'.at = "executing" /\ UNCHANGED <<identity, remote, where, target>>
            /\ RunOp("op", Line("cmd", NoAsset)) /\ Becomes("RUNNING")
        BY <1>0, <2>1, Calling, StageTyped DEF Exec
      <3>2. NothingDials => NothingDials'
        BY <1>0, <1>1, <3>1, TypesNoDial
      <3>3. state' # "ENTERING"
        BY <1>0, <1>4, <3>1
      <3>4. QED
        BY <1>2, <1>5, <3>1, <3>2, <3>3 DEF Unjudged
    <2>2. CASE Completed \/ ExecClosed
      <3>1. /\ UNCHANGED <<identity, remote, where, target, typed>> /\ Return
        BY <2>2 DEF Completed, ExecClosed
      <3>2. state' # "ENTERING"
        <4>1. CASE Completed
          BY <1>0, <4>1, SetStateTarget DEF Completed
        <4>2. CASE ExecClosed
          BY <1>0, <1>4, <4>2 DEF ExecClosed
        <4>3. QED
          BY <2>2, <4>1, <4>2
      <3>3. QED
        BY <1>2, <1>5, <1>6, <3>1, <3>2 DEF NothingDials
    <2>3. CASE ExecInterrupted
      <3>1. /\ call'.at = "recovering" /\ UNCHANGED <<identity, remote, where, target, state>>
            /\ Type(Line("intr", NoAsset))
        BY <1>0, <2>3 DEF ExecInterrupted, Calls
      <3>2. NothingDials => NothingDials'
        BY <1>1, <3>1, TypesNoDial
      <3>3. QED
        BY <1>2, <1>5, <3>1, <3>2 DEF Unjudged
    <2>4. CASE PromptBack
      <3>1. /\ call'.at = "reproving" /\ UNCHANGED <<identity, remote, where, target, state>>
            /\ RunOp("op", Line("probe", "op"))
        BY <1>0, <2>4, Calling, StageTyped DEF PromptBack
      <3>2. NothingDials => NothingDials'
        BY <1>0, <1>1, <3>1, TypesNoDial
      <3>3. QED
        BY <1>2, <1>5, <3>1, <3>2 DEF Unjudged
    <2>5. CASE RecoveryEnds
      <3>1. /\ UNCHANGED <<identity, remote, where, target, typed>> /\ Return
            /\ Becomes("SHELL") \/ Becomes("UNKNOWN")
        BY <2>5 DEF RecoveryEnds, PromptGone, Reproved, AfterRecovery
      <3>2. QED
        BY <1>0, <1>2, <1>4, <1>5, <1>6, <3>1 DEF NothingDials
    <2>6. QED
      BY <1>9, <2>1, <2>2, <2>3, <2>4, <2>5 DEF Executing
  <1>10. CASE Leaving
    <2>1. CASE Leave
      <3>1. /\ call'.at = "leaving" /\ UNCHANGED <<identity, remote, where, target, state>>
            /\ Type(Line("exit", NoAsset))
        BY <2>1 DEF Leave, NoCall
      <3>2. NothingDials => NothingDials'
        BY <1>1, <3>1, TypesNoDial
      <3>3. QED
        BY <1>2, <1>5, <3>1, <3>2 DEF Unjudged
    <2>2. CASE Left
      <3>1. /\ UNCHANGED <<identity, remote, where, typed>> /\ Return /\ MenuPromptSeen
            /\ Becomes("MENU")
        BY <2>2 DEF Left
      <3>2. remote \notin {"shell", "busy"}
        BY <3>1 DEF Painted, Alive, MenuPromptSeen
      <3>3. Landed(target) => Landed(target)'
        BY <3>1, <3>2 DEF Landed
      <3>4. QED
        BY <1>0, <1>2, <1>4, <1>6, <3>1, <3>3 DEF NothingDials
    <2>3. CASE LeaveAborted
      BY <1>2, <1>5, <1>6, <2>3 DEF LeaveAborted, NothingDials
    <2>4. CASE LeaveWaitEnds
      <3>1. /\ UNCHANGED <<identity, remote, where, target, typed>>
            /\ call'.at \in {"backoff", "idle"}
        BY <1>0, <2>4, Calling, StageTyped DEF LeaveWaitEnds
      <3>2. state' = "ENTERING" => state = "ENTERING"
        BY <1>0, <1>4, <2>4 DEF LeaveWaitEnds
      <3>3. QED
        BY <1>2, <1>5, <3>1, <3>2 DEF NothingDials, Unjudged
    <2>5. CASE LeaveRetries
      <3>1. /\ UNCHANGED <<identity, remote, where, target, state>>
            /\ call'.at \in {"leaving", "idle"}
            /\ UNCHANGED typed \/ Type(Line("exit", NoAsset))
        BY <1>0, <2>5, Calling DEF LeaveRetries, NextTry, Calls, Type, Stages
      <3>2. NothingDials => NothingDials'
        BY <1>1, <3>1, TypesNoDial
      <3>3. QED
        BY <1>2, <1>5, <3>1, <3>2 DEF Unjudged
    <2>6. QED
      BY <1>10, <2>1, <2>2, <2>3, <2>4, <2>5 DEF Leaving
  <1>11. CASE Listing
    <2>1. CASE List
      <3>1. /\ call'.at = "listing" /\ UNCHANGED <<identity, remote, where, target, state>>
            /\ Type(Line("list", NoAsset))
        BY <1>0, <2>1, Calling, StageTyped DEF List
      <3>2. NothingDials => NothingDials'
        BY <1>1, <3>1, TypesNoDial
      <3>3. QED
        BY <1>2, <1>5, <3>1, <3>2 DEF Unjudged
    <2>2. CASE Listed
      <3>1. /\ UNCHANGED <<identity, remote, where, target, typed>> /\ Return
            /\ Becomes("UNKNOWN") \/ UNCHANGED state
        BY <2>2 DEF Listed
      <3>2. QED
        BY <1>0, <1>2, <1>4, <1>5, <1>6, <3>1 DEF NothingDials
    <2>3. QED
      BY <1>11, <2>1, <2>2 DEF Listing
  <1>12. CASE Outside
    <2>1. CASE Close \/ Dispose
      <3>1. state' # "ENTERING"
        BY SMTT(30), <1>0, <2>1, SetStateTarget DEF Close, Dispose, Closed
      <3>2. QED
        BY <1>3, <2>1, <3>1 DEF Close, Dispose, Closed
    <2>2. CASE WireCloses \/ LateClose
      <3>1. state' # "ENTERING"
        BY <1>0, <1>4, <2>2 DEF WireCloses, WireGone, LateClose
      <3>2. QED
        BY <1>3, <2>2, <3>1 DEF WireCloses, LateClose
    <2>3. CASE Abort
      BY <1>0, <1>3, <2>3 DEF Abort, Calls
    <2>4. CASE Thaw
      BY <1>3, <2>4 DEF Thaw
    <2>5. CASE Interrupt \/ InterruptProbes \/ InterruptEnds
      BY <1>0, <2>5 DEF Interrupt, InterruptProbes, InterruptEnds, NoInterrupt
    <2>6. QED
      BY <1>12, <2>1, <2>2, <2>3, <2>4, <2>5 DEF Outside
  <1>13. QED
    BY <1>7, <1>8, <1>9, <1>10, <1>11, <1>12
-----------------------------------------------------------------------------
(* Who reads what is typed.  While only transports fail, the stage of the   *)
(* operation says what is on its way and which program will read it: at    *)
(* rest at most choices of accounts that came too late, and these only at  *)
(* the menu; a search or a list command behind them, at the menu; a probe,  *)
(* a command or an exit alone, at the shell's prompt.                      *)
Indexes(s) == \A i \in 1 .. Len(s) : s[i][1] = "index"
IndexesThen(s, kind) == /\ s # <<>>
                        /\ s[Len(s)][1] = kind
                        /\ \A i \in 1 .. Len(s) - 1 : s[i][1] = "index"

Listens == watcher = "op" /\ heard["op"] = "nothing"

\* A script of the operation is read, or has been.
Asked(script) == typed = script /\ Listens
Answered == typed = <<>> /\ heard["op"] = where

Probe == Line("probe", "op")
Exit == Line("exit", NoAsset)
Intr == Line("intr", NoAsset)
Cmd == Line("cmd", NoAsset)
Index == Line("index", NoAsset)

Resting ==
    /\ Indexes(typed)
    /\ typed # <<>> => remote \in {"menu", "failing"}
    /\ state = "SHELL" => remote = "shell"
    /\ state = "MENU" => remote = "menu"
    /\ state = "ENTERING" => remote \in {"accounts", "failing", "menu"}

\* What a search and its answers have come to.
Dialled ==
    \/ remote = "menu" /\ Indexes(typed)
    \/ /\ remote = "menu" /\ IndexesThen(typed, "target")
       /\ ~roster /\ screen \in {"blank", "menu"}
    \/ remote = "failing" /\ Indexes(typed)
    \/ remote = "accounts" /\ typed = <<>>
    \/ remote = "accounts" /\ call.chosen /\ typed = <<Index>>
    \/ remote \in {"dialing", "shell"} /\ typed = <<>>

Waiting ==
    /\ state = "ENTERING"
    /\ Dialled
    /\ call.choice = "none" => call.chosen
    /\ call.choice = "none" /\ roster => remote = "accounts" /\ typed = <<>>
    /\ ~call.chosen /\ roster => remote \in {"accounts", "failing", "menu"}

Running == \/ remote = "shell" /\ Asked(<<Cmd>>)
           \/ remote = "busy" /\ Asked(<<>>)
           \/ remote = "shell" /\ typed = <<>> /\ heard["op"] = "done"

Recovering == \/ remote \in {"busy", "shell"} /\ typed = <<Intr>>
              \/ remote = "shell" /\ typed = <<>>

Stage ==
    /\ call.at \notin {"dialing", "backoff"}
    /\ call.at = "idle" => Resting
    /\ call.at = "menuWait" => remote \in {"greeting", "menu"} /\ typed = <<>>
    /\ call.at = "shellWait" => Waiting
    /\ call.at = "probing" => remote = "shell" /\ (Asked(<<Probe>>) \/ Answered)
    /\ call.at = "executing" => Running
    /\ call.at = "recovering" => Recovering
    /\ call.at = "reproving" =>
          remote = "shell" /\ (Asked(<<Probe>>) \/ Asked(<<Intr, Probe>>) \/ Answered)
    /\ call.at = "leaving" => \/ remote = "shell" /\ typed = <<Exit>>
                              \/ remote = "menu" /\ typed = <<>>
    /\ call.at = "listing" => \/ remote = "menu" /\ IndexesThen(typed, "list")
                              \/ remote \in {"menu", "pager"} /\ typed = <<>>
    /\ call.at = "listing" => state = "MENU"

Shows == /\ remote = "shell" => screen = "shell"
         /\ remote = "pager" => screen = "pager"
         /\ remote = "accounts" => roster

LinesInTurn == /\ ~call.aborted
               /\ call.at = "dialing" => typed = <<>>
               /\ Alive => Stage /\ Shows

(* Choices of accounts, and a last line behind them.                       *)
LEMMA IndexesRead ==
    ASSUME NEW s \in Seq(Lines), s # <<>>, Indexes(s)
    PROVE  Head(s)[1] = "index" /\ Indexes(Tail(s))
BY NextLine DEF Indexes

(* The last line is read, or one of those before it.                       *)
LEMMA LastRead ==
    ASSUME NEW s \in Seq(Lines), NEW k, IndexesThen(s, k)
    PROVE  /\ s # <<>>
           /\ \/ Head(s)[1] = k /\ Tail(s) = <<>>
              \/ Head(s)[1] = "index" /\ IndexesThen(Tail(s), k)
  <1>1. /\ s # <<>> /\ Head(s) = s[1] /\ Tail(s) \in Seq(Lines)
        /\ Len(Tail(s)) = Len(s) - 1 /\ Len(s) \in Nat \ {0}
        /\ \A i \in 1 .. Len(s) - 1 : Tail(s)[i] = s[i + 1]
    BY NextLine DEF IndexesThen
  <1>2. CASE Len(s) = 1
    <2>1. Tail(s) = <<>>
      <3> DEFINE t == Tail(s)
      <3>1. t \in Seq(Lines) /\ Len(t) = 0
        BY <1>1, <1>2
      <3> HIDE DEF t
      <3>2. t = <<>>
        BY <3>1, EmptySeq
      <3>3. QED
        BY <3>2 DEF t
    <2>2. QED
      BY <1>1, <1>2, <2>1 DEF IndexesThen
  <1>3. CASE Len(s) # 1
    <2>1. Len(Tail(s)) \in Nat \ {0} /\ Tail(s) # <<>>
      <3> DEFINE t == Tail(s)
      <3>1. t \in Seq(Lines) /\ Len(t) \in Nat \ {0}
        BY <1>1, <1>3
      <3> HIDE DEF t
      <3>2. t # <<>>
        BY <3>1, EmptySeq
      <3>3. QED
        BY <3>1, <3>2 DEF t
    <2>2. Head(s)[1] = "index"
      BY <1>1, <1>3 DEF IndexesThen
    <2>3. Tail(s)[Len(Tail(s))] = s[Len(s)]
      BY <1>1, <2>1
    <2>4. \A i \in 1 .. Len(Tail(s)) - 1 : Tail(s)[i][1] = "index"
      BY <1>1, <2>1 DEF IndexesThen
    <2>5. QED
      BY <1>1, <2>1, <2>2, <2>3, <2>4 DEF IndexesThen
  <1>4. QED
    BY <1>2, <1>3

(* A line is typed behind choices of accounts.                             *)
LEMMA LastTyped ==
    ASSUME NEW s \in Seq(Lines), Indexes(s), NEW l \in Lines
    PROVE  /\ IndexesThen(Append(s, l), l[1])
           /\ l[1] = "index" => Indexes(Append(s, l))
  <1>1. /\ Append(s, l) \in Seq(Lines) /\ Len(s) \in Nat
        /\ Len(Append(s, l)) = Len(s) + 1
        /\ Append(s, l)[Len(s) + 1] = l
        /\ \A i \in 1 .. Len(s) : Append(s, l)[i] = s[i]
    BY TypedSeq
  <1>2. Append(s, l) # <<>>
    BY <1>1
  <1>3. \A i \in 1 .. Len(s) : Append(s, l)[i][1] = "index"
    BY <1>1 DEF Indexes
  <1>4. QED
    BY <1>1, <1>2, <1>3 DEF Indexes, IndexesThen

(* One line, or two.                                                       *)
LEMMA Few ==
    ASSUME NEW a \in Lines, NEW b \in Lines
    PROVE  /\ <<a>> # <<>> /\ Head(<<a>>) = a /\ Tail(<<a>>) = <<>>
           /\ <<a, b>> # <<>> /\ Head(<<a, b>>) = a /\ Tail(<<a, b>>) = <<b>>
           /\ Append(<<>>, a) = <<a>> /\ Append(<<a>>, b) = <<a, b>>
  <1>1. <<a>> \in Seq(Lines) /\ <<b>> \in Seq(Lines) /\ <<a, b>> \in Seq(Lines)
    OBVIOUS
  <1>2. <<a>> # <<>> /\ Head(<<a>>) = a /\ <<a, b>> # <<>> /\ Head(<<a, b>>) = a
    OBVIOUS
  <1>3. Tail(<<a>>) = <<>>
    OBVIOUS
  <1>4. Tail(<<a, b>>) = <<b>>
    OBVIOUS
  <1>5. Append(<<>>, a) = <<a>>
    OBVIOUS
  <1>6. Append(<<a>>, b) = <<a, b>>
    <2> DEFINE s == <<a>>
               t == <<a, b>>
    <2>1. /\ s \in Seq(Lines) /\ Len(s) = 1 /\ s[1] = a
          /\ t \in Seq(Lines) /\ Len(t) = 2 /\ t[1] = a /\ t[2] = b
      OBVIOUS
    <2> HIDE DEF s, t
    <2>2. Append(s, b) \in Seq(Lines) /\ Len(Append(s, b)) = 2
      BY SMTT(30), <2>1, TypedSeq
    <2>3. Append(s, b)[1] = a /\ Append(s, b)[2] = b
      <3>1. /\ Append(s, b)[Len(s) + 1] = b
            /\ \A i \in 1 .. Len(s) : Append(s, b)[i] = s[i]
        BY <2>1, TypedSeq
      <3>2. Append(s, b)[1 + 1] = b /\ \A i \in 1 .. 1 : Append(s, b)[i] = s[i]
        BY <2>1, <3>1
      <3>3. 1 + 1 = 2 /\ 1 \in 1 .. 1
        OBVIOUS
      <3>4. QED
        BY <2>1, <3>2, <3>3
    <2>4. ASSUME NEW i \in 1 .. 2 PROVE Append(s, b)[i] = t[i]
      <3>1. i = 1 \/ i = 2
        OBVIOUS
      <3>2. QED
        BY <2>1, <2>3, <3>1
    <2>5. Append(s, b) = t
      BY <2>1, <2>2, <2>4, SeqEqual
    <2>6. QED
      BY <2>5 DEF s, t
  <1>7. QED
    BY <1>2, <1>3, <1>4, <1>5, <1>6

(* Nothing is typed.                                                       *)
LEMMA NoLines == Indexes(<<>>) /\ \A k \in {"target", "list"} : ~IndexesThen(<<>>, k)
BY DEF Indexes, IndexesThen

(* The lines of the protocol and their kinds.                              *)
LEMMA LineKinds ==
    /\ Probe \in Lines /\ Exit \in Lines /\ Intr \in Lines /\ Cmd \in Lines /\ Index \in Lines
    /\ Probe[1] = "probe" /\ Probe[2] = "op" /\ Exit[1] = "exit" /\ Intr[1] = "intr"
    /\ Cmd[1] = "cmd" /\ Index[1] = "index"
BY LineTyped DEF Probe, Exit, Intr, Cmd, Index, Line, Drivers
-----------------------------------------------------------------------------
(* What the far end does in turn: it reads the next line, or goes on.       *)
ReadsNext(kind, arg) ==
    \/ /\ remote = "menu" /\ UNCHANGED heard
       /\ kind = "target" => remote' \in {"dialing", "accounts"}
       /\ kind = "list" => remote' \in {"menu", "pager"}
       /\ kind \notin {"target", "list", "exit"} => remote' = "menu"
    \/ /\ remote = "accounts" /\ UNCHANGED heard
       /\ kind = "index" => remote' = "dialing"
    \/ /\ remote = "shell"
       /\ kind = "cmd" => remote' = "busy"
       /\ kind = "exit" => remote' = "menu"
       /\ kind \notin {"cmd", "exit"} => remote' = "shell"
       /\ kind # "exit" => where' = where
       /\ heard' = IF kind = "probe" /\ watcher = arg
                   THEN [heard EXCEPT ![arg] = where] ELSE heard
    \/ /\ remote \in {"busy", "pager", "dialing", "failing"} /\ kind = "intr" /\ UNCHANGED heard
       /\ remote = "busy" => remote' = "shell"

GoesOn ==
    \/ remote \in {"greeting", "failing"} /\ remote' = "menu" /\ UNCHANGED heard
    \/ remote = "dialing" /\ remote' \in {"shell", "failing"} /\ UNCHANGED heard
    \/ /\ remote = "busy" /\ remote' = "shell"
       /\ heard' = IF watcher = "op" THEN [heard EXCEPT !["op"] = "done"] ELSE heard

(* In calm weather these are its steps, and an account list appears in the  *)
(* window only when it is painted.                                         *)
LEMMA FarEndSteps ==
    ASSUME KoKoInv, KoKoNext, "logout" \notin faults
    PROVE  /\ UNCHANGED watcher
           /\ remote' = "accounts" => roster'
           /\ remote' # "accounts" /\ roster' => roster
           /\ remote = "menu" /\ remote' = "menu" => screen' = "menu"
           /\ \/ /\ typed # <<>> /\ typed' = Tail(typed)
                 /\ ReadsNext(Head(typed)[1], Head(typed)[2])
              \/ UNCHANGED typed /\ GoesOn
  <1> USE DEF Paint, BackToMenu, Stay
  <1>0. roster \in BOOLEAN
    BY DEF KoKoInv, KoKoTypeOK
  <1>1. CASE Consume
    <2> DEFINE kind == Head(typed)[1]
               arg  == Head(typed)[2]
    <2>1. \/ AtMenu(kind, arg) \/ AtAccounts(kind) \/ AtShell(kind, arg)
          \/ Interrupted(kind)
      BY <1>1 DEF Consume
    <2>2. typed # <<>> /\ typed' = Tail(typed) /\ UNCHANGED watcher
      BY <1>1 DEF Consume
    <2>3. SUFFICES /\ remote' = "accounts" => roster'
                   /\ remote' # "accounts" /\ roster' => roster
                   /\ remote = "menu" /\ remote' = "menu" => screen' = "menu"
                   /\ ReadsNext(kind, arg)
      BY <2>2
    <2> HIDE DEF kind, arg
    <2>4. CASE AtMenu(kind, arg)
      <3>1. CASE kind = "target"
        BY <1>0, <2>4, <3>1 DEF AtMenu, ReadsNext
      <3>2. CASE kind = "list"
        BY <1>0, <2>4, <3>2 DEF AtMenu, ReadsNext
      <3>3. CASE kind = "exit"
        BY <1>0, <2>4, <3>3 DEF AtMenu, ReadsNext
      <3>4. CASE kind \notin {"target", "list", "exit"}
        BY <1>0, <2>4, <3>4 DEF AtMenu, ReadsNext
      <3>5. QED
        BY <3>1, <3>2, <3>3, <3>4
    <2>5. CASE AtAccounts(kind)
      BY <1>0, <2>5 DEF AtAccounts, ReadsNext
    <2>6. CASE AtShell(kind, arg)
      BY <1>0, <2>6 DEF AtShell, ReadsNext
    <2>7. CASE Interrupted(kind)
      BY <1>0, <2>7 DEF Interrupted, ReadsNext
    <2>8. QED
      BY <2>1, <2>4, <2>5, <2>6, <2>7
  <1>2. CASE MenuPainted
    BY <1>0, <1>2 DEF MenuPainted, GoesOn
  <1>3. CASE DialEnds
    BY <1>0, <1>3 DEF DialEnds, GoesOn
  <1>4. CASE PromptAfterBanner
    BY <1>0, <1>4 DEF PromptAfterBanner, GoesOn
  <1>5. CASE CommandEnds
    BY <1>0, <1>5 DEF CommandEnds, GoesOn
  <1>6. CASE Logout
    BY <1>6 DEF Logout
  <1>7. QED
    BY <1>1, <1>2, <1>3, <1>4, <1>5, <1>6 DEF KoKoNext

(* Whatever the far end does, the lines stay in turn.                      *)
LEMMA LinesHeard ==
    ASSUME KoKoInv, Calm, LinesInTurn, KoKoNext,
           UNCHANGED <<sessionVars, call, irq, disposed, faults>>
    PROVE  LinesInTurn'
  <1> USE DEF sessionVars, ambient
  <1>0. /\ typed \in Seq(Lines) /\ heard \in [Drivers -> Assets \cup {"nothing", "done"}]
        /\ "op" \in Drivers /\ WhereKnown /\ roster \in BOOLEAN
    BY DEF KoKoInv, KoKoTypeOK, Drivers
  <1>1. /\ Stage /\ Shows /\ ~call.aborted
        /\ remote' = "shell" => screen' = "shell"
        /\ remote' = "pager" => screen' = "pager"
        /\ remote' = "menu" => screen' \in {"menu", "bannerMenu"}
    BY Paints DEF LinesInTurn
  <1>17. call.at # "dialing"
    BY <1>1 DEF Stage
  <1>2. /\ UNCHANGED watcher
        /\ remote' = "accounts" => roster'
        /\ remote' # "accounts" /\ roster' => roster
        /\ remote = "menu" /\ remote' = "menu" => screen' = "menu"
        /\ \/ /\ typed # <<>> /\ typed' = Tail(typed)
              /\ ReadsNext(Head(typed)[1], Head(typed)[2])
           \/ UNCHANGED typed /\ GoesOn
    BY FarEndSteps DEF Calm
  <1>3. Shows'
    BY <1>1, <1>2 DEF Shows
  <1>4. SUFFICES Stage'
    BY <1>1, <1>17, <1>3 DEF LinesInTurn
  <1> USE DEF ReadsNext, GoesOn
  <1>5. CASE call.at = "idle"
    <2>1. Resting
      BY <1>1, <1>5 DEF Stage
    <2>2. Resting'
      BY <1>0, <1>2, <2>1, IndexesRead DEF Resting
    <2>3. QED
      BY <1>5, <2>2 DEF Stage
  <1>6. CASE call.at = "menuWait"
    BY <1>1, <1>2, <1>6 DEF Stage
  <1>7. CASE call.at = "shellWait"
    <2>1. Waiting
      BY <1>1, <1>7 DEF Stage
    <2>2. Waiting'
      <3>1. CASE remote = "menu" /\ Indexes(typed)
        <4>1. typed # <<>> /\ remote' = "menu" /\ Indexes(typed')
          BY <1>0, <1>2, <3>1, IndexesRead
        <4>2. QED
          BY <1>2, <2>1, <3>1, <4>1 DEF Waiting, Dialled
      <3>2. CASE /\ remote = "menu" /\ IndexesThen(typed, "target")
                 /\ ~roster /\ screen \in {"blank", "menu"}
        <4>1. \/ remote' \in {"dialing", "accounts"} /\ typed' = <<>>
              \/ remote' = "menu" /\ IndexesThen(typed', "target")
          BY <1>0, <1>2, <3>2, LastRead
        <4>2. remote' = "menu" => screen' = "menu"
          BY <1>2, <3>2
        <4>3. QED
          BY <1>1, <1>2, <2>1, <3>2, <4>1, <4>2 DEF Waiting, Dialled
      <3>3. CASE remote = "failing" /\ Indexes(typed)
        <4>1. remote' = "menu" /\ UNCHANGED typed
          BY <1>0, <1>2, <3>3, IndexesRead
        <4>2. QED
          BY <1>2, <2>1, <3>3, <4>1 DEF Waiting, Dialled
      <3>4. CASE remote = "accounts" /\ typed = <<>>
        BY <1>2, <3>4
      <3>5. CASE remote = "accounts" /\ call.chosen /\ typed = <<Index>>
        <4>1. remote' = "dialing" /\ typed' = <<>>
          BY <1>2, <3>5, Few, LineKinds
        <4>2. QED
          BY <1>2, <2>1, <3>5, <4>1, NoLines DEF Waiting, Dialled
      <3>6. CASE remote \in {"dialing", "shell"} /\ typed = <<>>
        BY <1>2, <2>1, <3>6, NoLines DEF Waiting, Dialled
      <3>7. QED
        BY <2>1, <3>1, <3>2, <3>3, <3>4, <3>5, <3>6 DEF Waiting, Dialled
    <2>3. QED
      BY <1>7, <2>2 DEF Stage
  <1>8. ASSUME remote = "shell", Asked(<<Probe>>)
        PROVE  remote' = "shell" /\ Answered'
    <2>1. /\ typed' = <<>> /\ remote' = "shell" /\ where' = where
          /\ heard' = [heard EXCEPT !["op"] = where]
      BY <1>2, <1>8, Few, LineKinds DEF Asked, Listens
    <2>2. QED
      BY <1>0, <2>1 DEF Answered
  <1>9. ASSUME remote = "shell", typed = <<>> PROVE FALSE
    BY <1>2, <1>9
  <1>10. CASE call.at = "probing"
    BY <1>1, <1>8, <1>9, <1>10 DEF Stage, Answered
  <1>11. CASE call.at = "executing"
    <2>1. Running
      BY <1>1, <1>11 DEF Stage
    <2>2. CASE remote = "shell" /\ Asked(<<Cmd>>)
      <3>1. typed' = <<>> /\ remote' = "busy" /\ UNCHANGED heard
        BY <1>2, <2>2, Few, LineKinds DEF Asked
      <3>2. QED
        BY <1>2, <1>11, <2>2, <3>1 DEF Stage, Running, Asked, Listens
    <2>3. CASE remote = "busy" /\ Asked(<<>>)
      <3>1. typed' = <<>> /\ remote' = "shell" /\ heard' = [heard EXCEPT !["op"] = "done"]
        BY <1>2, <2>3 DEF Asked, Listens
      <3>2. QED
        BY <1>0, <1>11, <3>1 DEF Stage, Running
    <2>4. QED
      BY <1>9, <2>1, <2>2, <2>3 DEF Running
  <1>12. CASE call.at = "recovering"
    <2>1. Recovering
      BY <1>1, <1>12 DEF Stage
    <2>2. CASE typed = <<Intr>>
      <3>1. remote' = "shell" /\ typed' \in {<<>>, <<Intr>>}
        BY <1>2, <2>1, <2>2, Few, LineKinds DEF Recovering
      <3>2. QED
        BY <1>12, <3>1 DEF Stage, Recovering
    <2>3. QED
      BY <1>9, <2>1, <2>2 DEF Recovering
  <1>13. CASE call.at = "reproving"
    <2>1. CASE Asked(<<Intr, Probe>>) /\ remote = "shell"
      <3>1. typed' = <<Probe>> /\ remote' = "shell" /\ UNCHANGED heard
        BY <1>2, <2>1, Few, LineKinds DEF Asked
      <3>2. QED
        BY <1>2, <1>13, <2>1, <3>1 DEF Stage, Asked, Listens
    <2>2. QED
      BY <1>1, <1>8, <1>9, <1>13, <2>1 DEF Stage, Answered
  <1>14. CASE call.at = "leaving"
    <2>1. CASE remote = "shell" /\ typed = <<Exit>>
      <3>1. typed' = <<>> /\ remote' = "menu"
        BY <1>2, <2>1, Few, LineKinds
      <3>2. QED
        BY <1>14, <3>1 DEF Stage
    <2>2. CASE remote = "menu" /\ typed = <<>>
      BY <1>2, <2>2
    <2>3. QED
      BY <1>1, <1>14, <2>1, <2>2 DEF Stage
  <1>15. CASE call.at = "listing"
    <2>1. CASE remote = "menu" /\ IndexesThen(typed, "list")
      <3>1. \/ remote' \in {"menu", "pager"} /\ typed' = <<>>
            \/ remote' = "menu" /\ IndexesThen(typed', "list")
        BY <1>0, <1>2, <2>1, LastRead
      <3>2. QED
        BY <1>1, <1>15, <3>1 DEF Stage
    <2>2. CASE remote \in {"menu", "pager"} /\ typed = <<>>
      BY <1>2, <2>2
    <2>3. QED
      BY <1>1, <1>15, <2>1, <2>2 DEF Stage
  <1>16. QED
    BY <1>1, <1>5, <1>6, <1>7, <1>10, <1>11, <1>12, <1>13, <1>14, <1>15 DEF Stage
-----------------------------------------------------------------------------
(* A script that is typed when nothing, or only a ^C, is on its way.        *)
LEMMA ScriptOn ==
    ASSUME KoKoInv, NEW l \in Lines, RunOp("op", l)
    PROVE  /\ typed = <<>> => typed' = <<l>>
           /\ typed = <<Intr>> => typed' = <<Intr, l>>
           /\ Listens'
  <1>0. /\ typed \in Seq(Lines) /\ "op" \in Drivers
        /\ heard \in [Drivers -> Assets \cup {"nothing", "done"}]
    BY DEF KoKoInv, KoKoTypeOK, Drivers
  <1>1. Listens'
    BY <1>0 DEF RunOp, Listens
  <1>2. /\ typed' \in Seq(Lines) /\ Len(typed') = Len(typed) + 1
        /\ typed'[Len(typed) + 1] = l
        /\ \A i \in 1 .. Len(typed) : typed[i] # Line("probe", "op") => typed'[i] = typed[i]
    BY <1>0, Scripted
  <1>3. ASSUME typed = <<>> PROVE typed' = <<l>>
    <2> DEFINE t == <<l>>
    <2>1. t \in Seq(Lines) /\ Len(t) = 1 /\ t[1] = l
      OBVIOUS
    <2>2. Len(typed) = 0
      BY <1>3
    <2>3. Len(typed') = 1 /\ typed'[1] = l
      BY <1>2, <2>2
    <2> HIDE DEF t
    <2>4. \A i \in 1 .. Len(typed') : typed'[i] = t[i]
      BY <2>1, <2>3
    <2>5. typed' = t
      BY <1>2, <2>1, <2>3, <2>4, SeqEqual
    <2>6. QED
      BY <2>5 DEF t
  <1>4. ASSUME typed = <<Intr>> PROVE typed' = <<Intr, l>>
    <2> DEFINE t == <<Intr, l>>
    <2>1. t \in Seq(Lines) /\ Len(t) = 2 /\ t[1] = Intr /\ t[2] = l
      BY LineKinds
    <2>2. Len(typed) = 1 /\ typed[1] = Intr /\ Intr # Line("probe", "op")
      BY <1>4, LineKinds DEF Probe
    <2>3. Len(typed') = 2 /\ typed'[1] = Intr /\ typed'[2] = l
      BY <1>2, <2>2
    <2> HIDE DEF t
    <2>4. ASSUME NEW i \in 1 .. Len(typed') PROVE typed'[i] = t[i]
      <3>1. i = 1 \/ i = 2
        BY <2>3
      <3>2. QED
        BY <2>1, <2>3, <3>1
    <2>5. typed' = t
      BY <1>2, <2>1, <2>3, <2>4, SeqEqual
    <2>6. QED
      BY <2>5 DEF t
  <1>5. QED
    BY <1>1, <1>3, <1>4

(* Every step of the session keeps the lines in turn.                      *)
LEMMA LinesKept ==
    ASSUME Core, KoKoInv, Painted, EntryIsOwned, LinesInTurn, Calm,
           Connecting \/ Entering \/ Executing \/ Leaving \/ Listing \/ Outside
    PROVE  LinesInTurn'
  <1> USE DEF sessionVars, ambient, kokoVars
  <1>0. /\ state \in States /\ call \in Calls /\ irq = "idle"
        /\ target \in Assets \cup {NoAsset} /\ GoalIsAsset /\ typed \in Seq(Lines)
        /\ heard \in [Drivers -> Assets \cup {"nothing", "done"}] /\ "op" \in Drivers
        /\ WhereKnown /\ roster \in BOOLEAN /\ ~call.aborted
        /\ {"DISCONNECTED", "CONNECTING", "MENU", "ENTERING", "SHELL", "RUNNING",
            "UNKNOWN", "ERROR"} = States
    BY DEF Core, SessionTypes, EntryIsOwned, KoKoInv, KoKoTypeOK, States, Drivers, LinesInTurn
  <1>1. /\ DeadlineMayPass <=> Settled
        /\ WireDead => ~Alive
        /\ {"abort", "interrupt", "slow"} \cap faults = {}
    BY DEF Calm, DeadlineMayPass, Painted, WireDead
  <1>2. ASSUME NEW t \in States, Becomes(t) PROVE state' \in {t, "UNKNOWN"}
    BY <1>0, <1>2, Ends
  (* Where there is no far end, nothing is read.                           *)
  <1>3. ASSUME remote' \in {"none", "gone"}, ~call'.aborted, call'.at = "dialing" => typed' = <<>>
        PROVE  LinesInTurn'
    BY <1>3 DEF LinesInTurn, Alive
  <1>4. ASSUME ~Alive, UNCHANGED remote, ~call'.aborted, call'.at # "dialing"
        PROVE  LinesInTurn'
    BY <1>4 DEF LinesInTurn, Alive
  (* Otherwise the stage that comes next has to be right.                  *)
  <1>5. ASSUME UNCHANGED <<remote, screen, roster>>, ~call'.aborted, call'.at # "dialing",
               Alive => Stage'
        PROVE  LinesInTurn'
    BY <1>5 DEF LinesInTurn, Shows, Alive
  <1>6. Alive => Stage /\ Shows /\ ~WireDead
    BY <1>1 DEF LinesInTurn
  <1>7. ASSUME Return PROVE ~call'.aborted /\ call'.at = "idle"
    BY <1>7 DEF Return, NoCall
  (* An operation returns with the session at rest.                         *)
  <1>8. ASSUME UNCHANGED <<remote, screen, roster, typed>>, Return, Alive => Resting'
        PROVE  LinesInTurn'
    BY <1>5, <1>7, <1>8 DEF Stage
  <1>9. CASE Connecting
    <2>1. CASE Connect
      BY <1>3, <2>1 DEF Connect, Begin, NoCall
    <2>2. CASE Attach
      <3>1. /\ call.at = "dialing" /\ call'.at = "menuWait" /\ ~call'.aborted
            /\ typed' = <<>> /\ remote' = "greeting"
        BY <1>0, <2>2, Calling, StageTyped DEF Attach, LinesInTurn
      <3>2. QED
        BY <3>1 DEF LinesInTurn, Stage, Shows
    <2>3. CASE ConnectFails
      BY <1>3, <1>7, <2>3 DEF ConnectFails, TornDown
    <2>4. CASE MenuSeen
      <3>1. ASSUME Alive PROVE Resting'
        <4>1. remote = "menu" /\ typed = <<>>
          BY <1>6, <2>4, <3>1 DEF MenuSeen, Painted, Stage
        <4>2. state' \in {"MENU", "UNKNOWN"}
          BY <1>0, <1>2, <2>4 DEF MenuSeen
        <4>3. QED
          BY <2>4, <4>1, <4>2, NoLines DEF MenuSeen, Resting
      <3>2. QED
        BY <1>8, <2>4, <3>1 DEF MenuSeen
    <2>5. QED
      BY <1>9, <2>1, <2>2, <2>3, <2>4 DEF Connecting
  <1>10. CASE Entering
    <2>1. ASSUME NEW t \in Assets, EnterExpired(t) PROVE LinesInTurn'
      <3>1. /\ call.at = "idle" /\ UNCHANGED <<remote, screen, roster, typed, call>>
            /\ state' \in {"DISCONNECTED", "UNKNOWN"}
        BY <1>0, <1>2, <2>1 DEF EnterExpired, Idle, NoCall
      <3>2. Alive => Stage'
        BY <1>6, <3>1 DEF Stage, Resting
      <3>3. QED
        BY <1>0, <1>5, <3>1, <3>2
    <2>2. ASSUME NEW t \in Assets, NEW c \in Choices, EnterResumes(t, c)
          PROVE  LinesInTurn'
      <3>1. /\ call'.at = "shellWait" /\ call'.choice = c /\ c # "none" /\ ~call'.aborted
            /\ UNCHANGED <<remote, screen, roster, typed, state>> /\ ~call'.chosen
        BY <2>2 DEF EnterResumes, CanResume, NoCall
      <3>2. call.at = "idle" /\ state = "ENTERING"
        BY <2>2 DEF EnterResumes, CanResume, Parked, Idle, NoCall
      <3>3. ASSUME Alive PROVE Waiting'
        <4>1. Resting
          BY <1>6, <3>2, <3>3 DEF Stage
        <4>2. Dialled'
          BY <3>1, <3>2, <4>1 DEF Resting, Dialled
        <4>3. QED
          BY <3>1, <3>2, <4>1, <4>2 DEF Resting, Waiting
      <3>4. QED
        BY <1>5, <3>1, <3>3 DEF Stage
    <2>3. ASSUME NEW t \in Assets, NEW c \in Choices, EnterDials(t, c)
          PROVE  LinesInTurn'
      <3>1. /\ call'.at = "shellWait" /\ call'.choice = c /\ ~call'.aborted
            /\ call'.chosen = (c = "none") /\ UNCHANGED remote
            /\ ~roster' /\ screen' = "blank" /\ typed' = Append(typed, Line("target", t))
        BY <2>3 DEF EnterDials, ScreenReset, NoCall, Type
      <3>2. call.at = "idle" /\ state = "MENU" /\ state' = "ENTERING"
        BY <2>3 DEF EnterDials, InMenu, Idle, NoCall, Becomes, SetState, Legal
      <3>3. ASSUME Alive PROVE Waiting' /\ Shows'
        <4>1. remote = "menu" /\ Indexes(typed)
          BY <1>6, <3>2, <3>3 DEF Stage, Resting
        <4>2. IndexesThen(typed', "target")
          BY <1>0, <3>1, <4>1, LastTyped, LineTyped DEF Line
        <4>3. QED
          BY <3>1, <3>2, <4>1, <4>2 DEF Waiting, Dialled, Shows
      <3>4. QED
        BY <3>1, <3>3 DEF LinesInTurn, Stage, Alive
    <2>4. CASE AccountAnswered
      <3>1. /\ call.at = "shellWait" /\ call'.at = "shellWait" /\ ~call'.aborted
            /\ call'.chosen /\ call'.choice = call.choice /\ call.choice = "shown"
            /\ ~call.chosen /\ roster /\ UNCHANGED <<remote, screen, roster, state>>
        BY <1>0, <2>4 DEF AccountAnswered, MayAnswer, ListDetected, Calls
      <3>2. ASSUME Alive PROVE Waiting'
        <4>1. Waiting /\ typed' = Append(typed, Index)
          BY <1>6, <2>4, <3>1, <3>2 DEF Stage, AccountAnswered, Index
        <4>2. remote \in {"accounts", "failing", "menu"}
          BY <3>1, <4>1 DEF Waiting
        <4>3. CASE remote = "accounts"
          <5>1. typed' = <<Index>>
            BY <3>1, <4>1, <4>3, Few, LineKinds DEF Waiting, Dialled
          <5>2. QED
            BY <3>1, <4>1, <4>3, <5>1 DEF Waiting, Dialled
        <4>4. CASE remote \in {"failing", "menu"}
          <5>1. Indexes(typed)
            BY <3>1, <4>1, <4>4 DEF Waiting, Dialled
          <5>2. Indexes(typed')
            BY <1>0, <4>1, <5>1, LastTyped, LineKinds
          <5>3. QED
            BY <3>1, <4>1, <4>4, <5>2 DEF Waiting, Dialled
        <4>5. QED
          BY <4>2, <4>3, <4>4
      <3>3. QED
        BY <1>5, <3>1, <3>2 DEF Stage
    <2>5. CASE ShellSeen
      <3>1. /\ call.at = "shellWait" /\ call'.at = "probing" /\ ~call'.aborted
            /\ screen = "shell" /\ UNCHANGED <<remote, screen, roster>>
            /\ RunOp("op", Probe)
        BY <1>0, <2>5, Calling, StageTyped DEF ShellSeen, Probe
      <3>2. ASSUME Alive PROVE remote' = "shell" /\ Asked(<<Probe>>)'
        <4>1. remote = "shell" /\ typed = <<>>
          BY <1>6, <3>1, <3>2 DEF Painted, Stage, Waiting, Dialled
        <4>2. typed' = <<Probe>> /\ Listens'
          BY <3>1, <4>1, ScriptOn, LineKinds
        <4>3. QED
          BY <3>1, <4>1, <4>2 DEF Asked
      <3>3. QED
        BY <1>5, <3>1, <3>2 DEF Stage
    <2>6. CASE ShellSeenTooLate
      BY <1>1, <1>4, <1>7, <2>6 DEF ShellSeenTooLate
    <2>7. CASE EnterGivesUp
      <3>1. /\ call.at = "shellWait" /\ Return /\ UNCHANGED <<remote, screen, roster, typed>>
            /\ screen # "shell"
        BY <2>7 DEF EnterGivesUp
      <3>2. ASSUME Alive
            PROVE  /\ remote \in {"accounts", "failing", "menu"} /\ Indexes(typed)
                   /\ remote = "accounts" => typed = <<>>
        <4>1. Waiting /\ Shows /\ wire = "open"
          BY <1>6, <3>1, <3>2 DEF Stage, WireDead
        <4>2. NeedsChoice \/ BannerSeen \/ Settled
          BY <1>0, <1>1, <2>7, <3>2, <4>1 DEF EnterGivesUp
        <4>3. CASE NeedsChoice
          BY <4>1, <4>3, NoLines DEF NeedsChoice, ListDetected, Waiting, Dialled
        <4>4. CASE BannerSeen
          BY <3>2, <4>1, <4>4 DEF BannerSeen, Painted, Waiting, Dialled
        <4>5. CASE Settled
          BY <3>1, <4>1, <4>5, NoLines DEF Settled, Shows, Waiting, Dialled
        <4>6. QED
          BY <4>2, <4>3, <4>4, <4>5
      <3>3. ASSUME Alive PROVE Resting'
        <4>1. PICK asked \in BOOLEAN : Recovered(asked)
          BY <2>7 DEF EnterGivesUp, NeedsChoice
        <4>2. state = "ENTERING"
          BY <1>6, <3>1, <3>3 DEF Stage, Waiting
        <4>3. \/ state' \in {"ENTERING", "DISCONNECTED", "UNKNOWN"}
              \/ state' = "MENU" /\ MenuPromptSeen
          BY <1>0, <3>1, <4>1, <4>2, RecoveredParks
        <4>4. state' = "MENU" => remote = "menu"
          BY <3>3, <4>3 DEF Painted, MenuPromptSeen
        <4>5. QED
          BY <3>1, <3>2, <3>3, <4>3, <4>4 DEF Resting
      <3>4. QED
        BY <1>8, <3>1, <3>3
    <2>8. CASE ProbeAnswered
      <3>1. /\ call.at = "probing" /\ Return /\ heard["op"] \in Assets
            /\ UNCHANGED <<remote, screen, roster, typed>>
        BY <2>8 DEF ProbeAnswered
      <3>2. state' \in {"SHELL", "UNKNOWN"}
        BY <1>0, <1>2, <2>8 DEF ProbeAnswered, Judge
      <3>3. ASSUME Alive PROVE Resting'
        <4>1. remote = "shell" /\ typed = <<>>
          BY <1>6, <3>1, <3>3, HeardAssumption DEF Stage, Asked, Answered, Listens
        <4>2. QED
          BY <3>1, <3>2, <4>1, NoLines DEF Resting
      <3>4. QED
        BY <1>8, <3>1, <3>3
    <2>9. CASE ProbeFails
      <3>1. /\ call.at = "probing" /\ Return /\ heard["op"] \notin Assets
            /\ UNCHANGED <<remote, screen, roster, typed>>
            /\ WireDead \/ Settled
        BY <1>0, <1>1, <2>9 DEF ProbeFails
      <3>2. ~Alive
        <4>1. SUFFICES ASSUME Alive PROVE FALSE
          OBVIOUS
        <4>2. remote = "shell" /\ Settled /\ (Asked(<<Probe>>) \/ Answered)
          BY <1>6, <3>1, <4>1 DEF Stage
        <4>3. typed = <<>>
          BY <4>2 DEF Settled
        <4>4. heard["op"] = where
          BY <4>2, <4>3, Few, LineKinds DEF Asked, Answered
        <4>5. QED
          BY <1>0, <3>1, <4>2, <4>4 DEF WhereKnown
      <3>3. QED
        BY <1>8, <3>1, <3>2
    <2>10. QED
      BY <1>10, <2>1, <2>2, <2>3, <2>4, <2>5, <2>6, <2>7, <2>8, <2>9 DEF Entering
  <1>11. CASE Executing
    <2>1. CASE Exec
      <3>1. /\ call.at = "idle" /\ state = "SHELL" /\ call'.at = "executing" /\ ~call'.aborted
            /\ RunOp("op", Cmd) /\ UNCHANGED <<remote, screen, roster>>
        BY <2>1 DEF Exec, Idle, InShell, Begin, NoCall, Cmd
      <3>2. ASSUME Alive PROVE Running'
        <4>1. remote = "shell" /\ typed = <<>>
          BY <1>6, <3>1, <3>2 DEF Stage, Resting
        <4>2. typed' = <<Cmd>> /\ Listens'
          BY <3>1, <4>1, ScriptOn, LineKinds
        <4>3. QED
          BY <3>1, <4>1, <4>2 DEF Running, Asked
      <3>3. QED
        BY <1>5, <3>1, <3>2 DEF Stage
    <2>2. CASE Completed
      <3>1. /\ call.at = "executing" /\ heard["op"] = "done" /\ Return
            /\ UNCHANGED <<remote, screen, roster, typed>>
        BY <2>2 DEF Completed
      <3>2. state' \in {"SHELL", "UNKNOWN"}
        BY <1>0, <2>2, SetStateTarget DEF Completed
      <3>3. ASSUME Alive PROVE Resting'
        <4>1. remote = "shell" /\ typed = <<>>
          BY <1>6, <3>1, <3>3 DEF Stage, Running, Asked, Listens
        <4>2. QED
          BY <3>1, <3>2, <4>1, NoLines DEF Resting
      <3>4. QED
        BY <1>8, <3>1, <3>3
    <2>3. CASE ExecClosed
      BY <1>1, <1>4, <1>7, <2>3 DEF ExecClosed
    <2>4. CASE ExecInterrupted
      <3>1. /\ call.at = "executing" /\ call'.at = "recovering" /\ ~call'.aborted
            /\ heard["op"] # "done" /\ Settled /\ typed' = Append(typed, Intr)
            /\ UNCHANGED <<remote, screen, roster>>
        BY <1>0, <1>1, <2>4 DEF ExecInterrupted, Calls, Type, Intr
      <3>2. ASSUME Alive PROVE Recovering'
        <4>1. Running
          BY <1>6, <3>1, <3>2 DEF Stage
        <4>2. remote = "busy" /\ typed = <<>>
          BY <3>1, <4>1, Few, LineKinds DEF Running, Asked, Settled
        <4>3. typed' = <<Intr>>
          BY <3>1, <4>2, Few, LineKinds
        <4>4. QED
          BY <3>1, <4>2, <4>3 DEF Recovering
      <3>3. QED
        BY <1>5, <3>1, <3>2 DEF Stage
    <2>5. CASE PromptBack
      <3>1. /\ call.at = "recovering" /\ call'.at = "reproving" /\ ~call'.aborted
            /\ screen = "shell" /\ RunOp("op", Probe) /\ UNCHANGED <<remote, screen, roster>>
        BY <1>0, <2>5, Calling, StageTyped DEF PromptBack, Probe
      <3>2. ASSUME Alive
            PROVE  remote' = "shell" /\ (Asked(<<Probe>>)' \/ Asked(<<Intr, Probe>>)')
        <4>1. remote = "shell" /\ typed \in {<<>>, <<Intr>>}
          BY <1>6, <3>1, <3>2 DEF Painted, Stage, Recovering
        <4>2. typed' \in {<<Probe>>, <<Intr, Probe>>} /\ Listens'
          BY <3>1, <4>1, ScriptOn, LineKinds
        <4>3. QED
          BY <3>1, <4>1, <4>2 DEF Asked
      <3>3. QED
        BY <1>5, <3>1, <3>2 DEF Stage
    <2>6. CASE RecoveryEnds
      <3>1. Return /\ UNCHANGED <<remote, screen, roster, typed>>
        BY <2>6 DEF RecoveryEnds
      <3>2. state' \in {"SHELL", "UNKNOWN"}
        BY <1>0, <1>2, <2>6 DEF RecoveryEnds, PromptGone, Reproved, AfterRecovery
      <3>3. ASSUME Alive PROVE remote = "shell" /\ typed = <<>>
        <4>1. CASE PromptGone
          <5>1. call.at = "recovering" /\ screen # "shell" /\ Settled
            BY <1>0, <1>1, <1>6, <3>3, <4>1 DEF PromptGone, RecoveryCancelled
          <5>2. Recovering /\ Shows
            BY <1>6, <3>3, <5>1 DEF Stage
          <5>3. remote = "busy" /\ typed = <<Intr>>
            BY <5>1, <5>2 DEF Recovering, Shows
          <5>4. QED
            BY <5>1, <5>3, Few, LineKinds DEF Settled
        <4>2. CASE Reproved
          <5>1. call.at = "reproving" /\ (heard["op"] \in Assets \/ Settled)
            BY <1>0, <1>1, <1>6, <3>3, <4>2 DEF Reproved, RecoveryCancelled
          <5>2. remote = "shell" /\ (Asked(<<Probe>>) \/ Asked(<<Intr, Probe>>) \/ Answered)
            BY <1>6, <3>3, <5>1 DEF Stage
          <5>3. CASE heard["op"] \in Assets
            BY <5>2, <5>3, HeardAssumption DEF Asked, Answered, Listens
          <5>4. CASE Settled
            BY <5>2, <5>4 DEF Settled
          <5>5. QED
            BY <5>1, <5>2, <5>3, <5>4
        <4>3. QED
          BY <2>6, <4>1, <4>2 DEF RecoveryEnds
      <3>4. Alive => Resting'
        BY <3>1, <3>2, <3>3, NoLines DEF Resting
      <3>5. QED
        BY <1>8, <3>1, <3>4
    <2>7. QED
      BY <1>11, <2>1, <2>2, <2>3, <2>4, <2>5, <2>6 DEF Executing
  <1>12. CASE Leaving
    <2>1. CASE Leave
      <3>1. /\ call.at = "idle" /\ state = "SHELL" /\ call'.at = "leaving" /\ ~call'.aborted
            /\ typed' = Append(typed, Exit) /\ UNCHANGED <<remote, screen, roster>>
        BY <2>1 DEF Leave, Idle, InShell, NoCall, Exit, Type
      <3>2. ASSUME Alive PROVE remote = "shell" /\ typed' = <<Exit>>
        <4>1. remote = "shell" /\ typed = <<>>
          BY <1>6, <3>1, <3>2 DEF Stage, Resting
        <4>2. QED
          BY <3>1, <4>1, Few, LineKinds
      <3>3. QED
        BY <1>5, <3>1, <3>2 DEF Stage
    <2>2. CASE Left
      <3>1. /\ call.at = "leaving" /\ Return /\ UNCHANGED <<remote, screen, roster, typed>>
            /\ MenuPromptSeen
        BY <2>2 DEF Left
      <3>2. state' \in {"MENU", "UNKNOWN"}
        BY <1>0, <1>2, <2>2 DEF Left
      <3>3. ASSUME Alive PROVE Resting'
        <4>1. remote = "menu"
          BY <3>1, <3>3 DEF Painted, MenuPromptSeen
        <4>2. typed = <<>>
          BY <1>6, <3>1, <3>3, <4>1 DEF Stage
        <4>3. QED
          BY <3>1, <3>2, <4>1, <4>2, NoLines DEF Resting
      <3>4. QED
        BY <1>8, <3>1, <3>3
    <2>3. CASE LeaveAborted
      BY <1>0, <2>3 DEF LeaveAborted
    <2>4. CASE LeaveWaitEnds
      <3>1. /\ call.at = "leaving" /\ UNCHANGED <<remote, screen, roster, typed>>
            /\ WireDead \/ Settled
        BY <1>1, <2>4 DEF LeaveWaitEnds
      <3>2. ASSUME Alive PROVE remote = "menu" /\ typed = <<>> /\ screen # "shell"
        <4>1. Settled
          BY <1>6, <3>1, <3>2
        <4>2. remote = "menu" /\ typed = <<>>
          BY <1>6, <3>1, <3>2, <4>1, Few, LineKinds DEF Stage, Settled
        <4>3. QED
          BY <3>2, <4>2 DEF Painted
      <3>3. CASE MayRetry
        <4>1. ~Alive
          BY <3>2, <3>3 DEF MayRetry
        <4>2. call'.at = "backoff" /\ ~call'.aborted
          BY <1>0, <2>4, <3>3, Calling, StageTyped DEF LeaveWaitEnds
        <4>3. QED
          BY <1>4, <3>1, <4>1, <4>2
      <3>4. CASE ~MayRetry
        <4>1. Return /\ state' = "UNKNOWN"
          BY <1>0, <1>2, <2>4, <3>4 DEF LeaveWaitEnds
        <4>2. Alive => Resting'
          BY <3>1, <3>2, <4>1, NoLines DEF Resting
        <4>3. QED
          BY <1>8, <3>1, <4>1, <4>2
      <3>5. QED
        BY <3>3, <3>4
    <2>5. CASE LeaveRetries
      <3>1. /\ call.at = "backoff" /\ call'.at \in {"leaving", "idle"} /\ ~call'.aborted
            /\ UNCHANGED remote
        BY <1>0, <2>5, Calling DEF LeaveRetries, NextTry, Calls, Stages
      <3>2. ~Alive
        BY <1>6, <3>1 DEF Stage
      <3>3. QED
        BY <1>4, <3>1, <3>2
    <2>6. QED
      BY <1>12, <2>1, <2>2, <2>3, <2>4, <2>5 DEF Leaving
  <1>13. CASE Listing
    <2>1. CASE List
      <3>1. /\ call.at = "idle" /\ state = "MENU" /\ call'.at = "listing" /\ ~call'.aborted
            /\ typed' = Append(typed, Line("list", NoAsset))
            /\ UNCHANGED <<remote, screen, roster, state>>
        BY <2>1 DEF List, Idle, InMenu, Begin, NoCall, Type
      <3>2. ASSUME Alive PROVE remote = "menu" /\ IndexesThen(typed', "list")
        <4>1. remote = "menu" /\ Indexes(typed)
          BY <1>6, <3>1, <3>2 DEF Stage, Resting
        <4>2. QED
          BY <1>0, <3>1, <4>1, LastTyped, LineTyped DEF Line
      <3>3. QED
        BY <1>5, <3>1, <3>2 DEF Stage
    <2>2. CASE Listed
      <3>1. /\ call.at = "listing" /\ Return /\ UNCHANGED <<remote, screen, roster, typed>>
            /\ typed = <<>> \/ WireDead \/ Settled
        BY <1>0, <1>1, <2>2 DEF Listed
      <3>2. ASSUME Alive PROVE Resting'
        <4>1. typed = <<>> \/ Settled
          BY <1>6, <3>1, <3>2
        <4>2. remote \in {"menu", "pager"} /\ typed = <<>> /\ state = "MENU"
          BY <1>6, <3>1, <3>2, <4>1 DEF Stage, Settled
        <4>3. \/ state' = "UNKNOWN"
              \/ state' = "MENU" /\ screen # "pager"
          BY <1>0, <1>2, <1>6, <2>2, <3>2, <4>2 DEF Listed, NotTheMenu
        <4>4. state' = "MENU" => remote = "menu"
          BY <1>6, <3>2, <4>2, <4>3 DEF Shows
        <4>5. QED
          BY <3>1, <4>2, <4>3, <4>4, NoLines DEF Resting
      <3>3. QED
        BY <1>8, <3>1, <3>2
    <2>3. QED
      BY <1>13, <2>1, <2>2 DEF Listing
  <1>14. CASE Outside
    <2>1. CASE Close \/ Dispose
      BY <1>0, <1>3, <2>1 DEF Close, Dispose, Closed
    <2>2. CASE WireCloses
      BY <1>0, <1>3, <2>2 DEF WireCloses
    <2>3. CASE LateClose
      BY <1>0, <1>3, <2>3 DEF LateClose, LinesInTurn
    <2>4. CASE Abort
      BY <1>1, <2>4 DEF Abort
    <2>5. CASE Thaw
      <3>1. UNCHANGED <<remote, screen, roster, typed, call, state, watcher, heard, where>>
        BY <2>5 DEF Thaw
      <3>2. QED
        BY <3>1 DEF LinesInTurn, Stage, Shows, Alive, Resting, Waiting, Dialled, Running,
                    Recovering, Asked, Answered, Listens
    <2>6. CASE Interrupt \/ InterruptProbes \/ InterruptEnds
      BY <1>0, <1>1, <2>6 DEF Interrupt, InterruptProbes, InterruptEnds
    <2>7. QED
      BY <1>14, <2>1, <2>2, <2>3, <2>4, <2>5, <2>6 DEF Outside
  <1>15. QED
    BY <1>9, <1>10, <1>11, <1>12, <1>13, <1>14
-----------------------------------------------------------------------------
(* Each entry and its own dial.  KoKo's word about a dial, and the list its  *)
(* accounts were chosen from, can be on the screen of an entry only if they *)
(* are about what that entry asked for: the screen starts blank, and the    *)
(* far end can be away from the menu only on the way of the one search.     *)
DialIsOwn ==
    /\ wire = "open" => Alive
    /\ call.at = "shellWait" /\ BannerSeen => refused = call.goal
    /\ state = "ENTERING" =>
          /\ BannerSeen \/ remote = "failing" => refused = target
          /\ roster /\ remote = "menu" => refused = target
          /\ remote \in {"accounts", "dialing"} => where = target
          /\ \A i \in 1 .. Len(typed) : typed[i][1] = "target" => typed[i] = Line("target", target)

(* The next line is one its reader understands, at every stage.            *)
LEMMA LinesSuit ==
    ASSUME KoKoInv, call \in Calls, Stage, typed # <<>>, Alive
    PROVE  /\ Head(typed)[1] \in {"cmd", "exit"} => remote # "menu"
           /\ Head(typed)[1] \in {"target", "list", "index"} => remote # "shell"
           /\ remote # "pager"
  <1> DEFINE kind == Head(typed)[1]
  <1>1. typed \in Seq(Lines) /\ call.at \in Stages \ {"dialing", "backoff"}
    BY DEF KoKoInv, KoKoTypeOK, Calls, Stage
  <1>2. CASE call.at = "idle"
    <2>1. kind = "index" /\ remote \in {"menu", "failing"}
      BY <1>1, <1>2, IndexesRead DEF Stage, Resting
    <2>2. QED
      BY <2>1
  <1>3. CASE call.at = "menuWait"
    BY <1>3 DEF Stage
  <1>4. CASE call.at = "shellWait"
    <2>1. Dialled
      BY <1>4 DEF Stage, Waiting
    <2>2. remote = "accounts" \/ kind \in {"index", "target"}
      BY <1>1, <2>1, IndexesRead, LastRead DEF Dialled
    <2>3. remote \notin {"shell", "pager"}
      BY <2>1 DEF Dialled
    <2>4. QED
      BY <2>2, <2>3
  <1>5. CASE call.at = "probing"
    BY <1>5, Few, LineKinds DEF Stage, Asked, Answered
  <1>6. CASE call.at = "executing"
    BY <1>6, Few, LineKinds DEF Stage, Running, Asked
  <1>7. CASE call.at = "recovering"
    BY <1>7, Few, LineKinds DEF Stage, Recovering
  <1>8. CASE call.at = "reproving"
    BY <1>8, Few, LineKinds DEF Stage, Asked, Answered
  <1>9. CASE call.at = "leaving"
    BY <1>9, Few, LineKinds DEF Stage
  <1>10. CASE call.at = "listing"
    BY <1>1, <1>10, LastRead DEF Stage
  <1>11. QED
    BY <1>1, <1>2, <1>3, <1>4, <1>5, <1>6, <1>7, <1>8, <1>9, <1>10 DEF Stages

(* What may be on its way while the session enters, and to whom.           *)
LEMMA EnteringLines ==
    ASSUME KoKoInv, EntryIsOwned, Stage, state = "ENTERING"
    PROVE  /\ remote \in {"menu", "failing", "accounts", "dialing", "shell"}
           /\ typed # <<>> => Head(typed)[1] \in {"index", "target", "probe"}
           /\ typed # <<>> /\ remote = "accounts" => Head(typed)[1] = "index"
  <1>1. typed \in Seq(Lines) /\ call.at \in {"idle", "shellWait", "probing"}
    BY DEF KoKoInv, KoKoTypeOK, EntryIsOwned
  <1>2. CASE call.at = "idle"
    <2>1. Resting
      BY <1>2 DEF Stage
    <2>2. typed # <<>> => Head(typed)[1] = "index"
      BY <1>1, <2>1, IndexesRead DEF Resting
    <2>3. QED
      BY <2>1, <2>2 DEF Resting
  <1>3. CASE call.at = "shellWait"
    <2>1. Dialled
      BY <1>3 DEF Stage, Waiting
    <2>2. remote \in {"menu", "failing", "accounts", "dialing", "shell"}
      BY <2>1 DEF Dialled
    <2>3. CASE remote = "accounts"
      BY <2>1, <2>3, Few, LineKinds DEF Dialled
    <2>4. CASE remote \in {"menu", "failing"}
      BY <1>1, <2>1, <2>4, IndexesRead, LastRead DEF Dialled
    <2>5. CASE remote \in {"dialing", "shell"}
      BY <2>1, <2>5 DEF Dialled
    <2>6. QED
      BY <2>2, <2>3, <2>4, <2>5
  <1>4. CASE call.at = "probing"
    BY <1>4, Few, LineKinds DEF Stage, Asked, Answered
  <1>5. QED
    BY <1>1, <1>2, <1>3, <1>4

(* Where a dial comes from, and what is painted of its end.                *)
LEMMA DialSteps ==
    ASSUME KoKoInv, KoKoNext, "misroute" \notin faults
    PROVE  /\ remote' = "failing" => remote = "dialing"
           /\ BannerSeen' => remote' = "failing" \/ remote = "failing"
           /\ \/ remote' \notin {"accounts", "dialing"}
              \/ remote = "accounts" /\ where' = where
              \/ /\ typed # <<>> /\ Head(typed)[1] = "target" /\ remote = "menu"
                 /\ where' = Head(typed)[2]
           /\ remote' = "gone" => typed # <<>> /\ Head(typed)[1] = "exit" /\ remote = "menu"
  <1> USE DEF Paint, BackToMenu, Stay, BannerSeen
  <1>1. CASE Consume
    <2> DEFINE kind == Head(typed)[1]
               arg  == Head(typed)[2]
    <2>1. /\ typed # <<>>
          /\ \/ AtMenu(kind, arg) \/ AtAccounts(kind) \/ AtShell(kind, arg)
             \/ Interrupted(kind)
      BY <1>1 DEF Consume
    <2> HIDE DEF kind, arg
    <2>2. CASE AtMenu(kind, arg)
      <3>1. CASE kind = "target"
        BY <2>1, <2>2, <3>1 DEF AtMenu, kind, arg
      <3>2. CASE kind = "list"
        BY <2>2, <3>2 DEF AtMenu
      <3>3. CASE kind = "exit"
        BY <2>1, <2>2, <3>3 DEF AtMenu, kind
      <3>4. CASE kind \notin {"target", "list", "exit"}
        BY <2>2, <3>4 DEF AtMenu
      <3>5. QED
        BY <3>1, <3>2, <3>3, <3>4
    <2>3. CASE AtAccounts(kind)
      BY <2>3 DEF AtAccounts
    <2>4. CASE AtShell(kind, arg)
      BY <2>4 DEF AtShell
    <2>5. CASE Interrupted(kind)
      BY <2>5 DEF Interrupted
    <2>6. QED
      BY <2>1, <2>2, <2>3, <2>4, <2>5
  <1>2. CASE MenuPainted
    BY <1>2 DEF MenuPainted
  <1>3. CASE DialEnds
    BY <1>3 DEF DialEnds
  <1>4. CASE PromptAfterBanner
    BY <1>4 DEF PromptAfterBanner
  <1>5. CASE CommandEnds
    BY <1>5 DEF CommandEnds
  <1>6. CASE Logout
    BY <1>6 DEF Logout
  <1>7. QED
    BY <1>1, <1>2, <1>3, <1>4, <1>5, <1>6 DEF KoKoNext

(* Whatever the far end does, the entry hears of its own dial.             *)
LEMMA DialHeard ==
    ASSUME KoKoInv, call \in Calls, Calm, EntryIsOwned, LinesInTurn, DialIsOwn, KoKoNext,
           refused' = IF remote' = "failing" THEN where ELSE refused,
           UNCHANGED <<sessionVars, call, irq, disposed, faults>>
    PROVE  DialIsOwn'
  <1> USE DEF sessionVars
  <1>1. Alive /\ Stage
    BY Paints DEF LinesInTurn
  <1>2. /\ remote' # "accounts" /\ roster' => roster
        /\ \/ /\ typed # <<>> /\ typed' = Tail(typed)
              /\ ReadsNext(Head(typed)[1], Head(typed)[2])
           \/ UNCHANGED typed /\ GoesOn
    BY FarEndSteps DEF Calm
  <1>3. /\ remote' = "failing" => remote = "dialing"
        /\ BannerSeen' => remote' = "failing" \/ remote = "failing"
        /\ \/ remote' \notin {"accounts", "dialing"}
           \/ remote = "accounts" /\ where' = where
           \/ /\ typed # <<>> /\ Head(typed)[1] = "target" /\ remote = "menu"
              /\ where' = Head(typed)[2]
        /\ remote' = "gone" => typed # <<>> /\ Head(typed)[1] = "exit" /\ remote = "menu"
    BY DialSteps DEF Calm
  <1>4. typed \in Seq(Lines) /\ UNCHANGED <<state, target, call, wire>>
    BY DEF KoKoInv, KoKoTypeOK
  <1>5. Alive'
    BY <1>1, <1>3, LinesSuit, Paints DEF Alive
  <1>6. ASSUME state = "ENTERING"
        PROVE  /\ BannerSeen' \/ remote' = "failing" => refused' = target
               /\ roster' /\ remote' = "menu" => refused' = target
               /\ remote' \in {"accounts", "dialing"} => where' = target
               /\ \A i \in 1 .. Len(typed') :
                      typed'[i][1] = "target" => typed'[i] = Line("target", target)
    <2>1. /\ remote = "failing" => refused = target
          /\ roster /\ remote = "menu" => refused = target
          /\ remote \in {"accounts", "dialing"} => where = target
          /\ \A i \in 1 .. Len(typed) :
                 typed[i][1] = "target" => typed[i] = Line("target", target)
      BY <1>6 DEF DialIsOwn
    <2>2. /\ remote \in {"menu", "failing", "accounts", "dialing", "shell"}
          /\ typed # <<>> => Head(typed)[1] \in {"index", "target", "probe"}
          /\ typed # <<>> /\ remote = "accounts" => Head(typed)[1] = "index"
      BY <1>1, <1>6, EnteringLines
    <2>3. BannerSeen' \/ remote' = "failing" => refused' = target
      BY <1>3, <2>1
    <2>4. roster' /\ remote' = "menu" => refused' = target
      BY <1>2, <2>1, <2>2 DEF ReadsNext, GoesOn
    <2>5. ASSUME typed # <<>>, Head(typed)[1] = "target" PROVE Head(typed)[2] = target
      <3>1. Head(typed) = typed[1] /\ 1 \in 1 .. Len(typed)
        BY <1>4, <2>5, NextLine
      <3>2. Head(typed) = Line("target", target)
        BY <2>1, <2>5, <3>1
      <3>3. QED
        BY <3>2 DEF Line
    <2>6. remote' \in {"accounts", "dialing"} => where' = target
      BY <1>3, <2>1, <2>5
    <2>7. \A i \in 1 .. Len(typed') :
              typed'[i][1] = "target" => typed'[i] = Line("target", target)
      <3>1. CASE typed # <<>> /\ typed' = Tail(typed)
        BY <1>4, <2>1, <3>1, NextLine
      <3>2. QED
        BY <1>2, <2>1, <3>1
    <2>8. QED
      BY <2>3, <2>4, <2>6, <2>7
  <1>7. ASSUME call.at = "shellWait", BannerSeen' PROVE refused' = call.goal
    <2>1. state = "ENTERING"
      BY <1>1, <1>7 DEF Stage, Waiting
    <2>2. call.goal = target
      BY <1>7, <2>1 DEF EntryIsOwned
    <2>3. QED
      BY <1>6, <1>7, <2>1, <2>2
  <1>8. QED
    BY <1>4, <1>5, <1>6, <1>7 DEF DialIsOwn

(* Lines behind the search are no other search.                            *)
LEMMA SearchKept ==
    ASSUME typed \in Seq(Lines), NEW t,
           \A i \in 1 .. Len(typed) : typed[i][1] = "target" => typed[i] = Line("target", t),
           NEW l \in Lines, l[1] = "target" => l = Line("target", t),
           typed' = Append(typed, l) \/ RunOp("op", l)
    PROVE  \A i \in 1 .. Len(typed') : typed'[i][1] = "target" => typed'[i] = Line("target", t)
  <1>1. CASE typed' = Append(typed, l)
    BY <1>1, TypedSeq
  <1>2. CASE RunOp("op", l)
    <2>1. /\ Len(typed') = Len(typed) + 1 /\ Len(typed) \in Nat
          /\ typed'[Len(typed) + 1] = l
          /\ \A i \in 1 .. Len(typed) :
                /\ typed'[i][1] = typed[i][1]
                /\ typed[i] # Line("probe", "op") => typed'[i] = typed[i]
      BY <1>2, Scripted DEF Drivers
    <2>2. ASSUME NEW i \in 1 .. Len(typed), typed'[i][1] = "target"
          PROVE  typed'[i] = Line("target", t)
      <3>1. typed[i][1] = "target" /\ typed[i] # Line("probe", "op")
        BY <2>1, <2>2 DEF Line
      <3>2. QED
        BY <2>1, <3>1
    <2>3. QED
      BY <2>1, <2>2
  <1>3. QED
    BY <1>1, <1>2

(* Every step of the session keeps the entry to its own dial.              *)
LEMMA DialKept ==
    ASSUME Core, KoKoInv, Painted, EntryIsOwned, LinesInTurn, Calm, DialIsOwn,
           Connecting \/ Entering \/ Executing \/ Leaving \/ Listing \/ Outside
    PROVE  DialIsOwn'
  <1> USE DEF sessionVars, ambient, kokoVars
  <1>0. /\ state \in States /\ call \in Calls /\ irq = "idle" /\ typed \in Seq(Lines)
        /\ target \in Assets \cup {NoAsset} /\ GoalIsAsset /\ ~call.aborted
        /\ {"DISCONNECTED", "CONNECTING", "MENU", "ENTERING", "SHELL", "RUNNING",
            "UNKNOWN", "ERROR"} = States
        /\ state = "ENTERING" => call.at \in {"idle", "shellWait", "probing"}
        /\ {"abort", "interrupt", "slow"} \cap faults = {}
    BY DEF Core, SessionTypes, EntryIsOwned, KoKoInv, KoKoTypeOK, States, LinesInTurn, Calm
  <1>1. ASSUME NEW t \in States, Becomes(t) PROVE state' \in {t, "UNKNOWN"}
    BY <1>0, <1>1, Ends
  <1>2. ASSUME Return PROVE call'.at = "idle"
    BY <1>2 DEF Return, NoCall
  (* Steps that change neither the dial nor what is painted of it.          *)
  <1>3. ASSUME UNCHANGED <<state, target, wire, remote, where, screen, roster, refused>>,
               UNCHANGED typed \/ state # "ENTERING",
               call'.at = "shellWait" =>
                  \/ call.at = "shellWait" /\ call'.goal = call.goal
                  \/ state = "ENTERING" /\ call'.goal = target
        PROVE  DialIsOwn'
    BY <1>3 DEF DialIsOwn, Alive, BannerSeen
  (* Steps after which no entry is on its way, or rests.                    *)
  <1>4. ASSUME state' # "ENTERING", UNCHANGED <<screen, refused>>,
               wire' = "open" => wire = "open" /\ UNCHANGED remote,
               call'.at = "shellWait" => call.at = "shellWait" /\ call'.goal = call.goal
        PROVE  DialIsOwn'
    BY <1>4 DEF DialIsOwn, Alive, BannerSeen
  <1>5. CASE Connecting
    <2>1. CASE Connect
      <3>1. state' = "CONNECTING" /\ wire' = "none" /\ call'.at = "dialing"
        BY <2>1 DEF Connect, SetState, Legal, Begin, NoCall
      <3>2. QED
        BY <3>1 DEF DialIsOwn
    <2>2. CASE Attach
      <3>1. state' # "ENTERING" /\ call'.at = "menuWait" /\ remote' = "greeting"
        BY <1>0, <2>2, Calling, StageTyped DEF Attach
      <3>2. QED
        BY <3>1 DEF DialIsOwn, Alive
    <2>3. CASE ConnectFails
      <3>1. state' \in {"ERROR", "UNKNOWN"}
        BY <1>0, <2>3, SetStateTarget DEF ConnectFails, TornDown
      <3>2. QED
        BY <1>2, <1>4, <2>3, <3>1 DEF ConnectFails, TornDown
    <2>4. CASE MenuSeen
      BY <1>1, <1>2, <1>4, <1>0, <2>4 DEF MenuSeen
    <2>5. QED
      BY <1>5, <2>1, <2>2, <2>3, <2>4 DEF Connecting
  <1>6. CASE Entering
    <2>1. ASSUME NEW t \in Assets, EnterExpired(t) PROVE DialIsOwn'
      <3>1. state' \in {"DISCONNECTED", "UNKNOWN"} /\ call'.at = "idle"
        BY <1>0, <1>1, <2>1 DEF EnterExpired, Idle, NoCall
      <3>2. QED
        BY <1>4, <2>1, <3>1 DEF EnterExpired
    <2>2. ASSUME NEW t \in Assets, NEW c \in Choices, EnterResumes(t, c)
          PROVE  DialIsOwn'
      <3>1. call'.goal = t /\ pending = t /\ state = "ENTERING" /\ call.at = "idle"
        BY <2>2 DEF EnterResumes, CanResume, Parked, Idle, NoCall
      <3>2. target = t
        BY <3>1 DEF EntryIsOwned
      <3>3. QED
        BY <1>3, <2>2, <3>1, <3>2 DEF EnterResumes
    <2>3. ASSUME NEW t \in Assets, NEW c \in Choices, EnterDials(t, c)
          PROVE  DialIsOwn'
      <3>1. /\ state = "MENU" /\ call.at = "idle" /\ screen' = "blank" /\ ~roster'
            /\ typed' = Append(typed, Line("target", t)) /\ target' = t
            /\ UNCHANGED <<remote, wire>>
        BY <2>3 DEF EnterDials, ScreenReset, InMenu, Idle, NoCall, Type
      <3>2. Alive => remote = "menu" /\ Indexes(typed)
        BY <3>1 DEF LinesInTurn, Stage, Resting
      <3>3. Alive
        BY <3>1 DEF Core, LiveHasWire, Live, DialIsOwn
      <3>4. \A i \in 1 .. Len(typed) : typed[i][1] = "target" => typed[i] = Line("target", t)
        BY <3>2, <3>3 DEF Indexes
      <3>5. \A i \in 1 .. Len(typed') : typed'[i][1] = "target" => typed'[i] = Line("target", t)
        BY <1>0, <3>1, <3>4, SearchKept, LineTyped
      <3>6. QED
        BY <3>1, <3>2, <3>3, <3>5 DEF DialIsOwn, BannerSeen, Alive
    <2>4. ASSUME NEW l \in Lines, l[1] # "target",
                 \/ typed' = Append(typed, l)
                 \/ RunOp("op", l)
                 \/ UNCHANGED typed,
                 UNCHANGED <<state, target, wire, remote, where, screen, roster, refused>>,
                 call'.at = "shellWait" => call.at = "shellWait" /\ call'.goal = call.goal
          PROVE  DialIsOwn'
      <3>1. ASSUME state = "ENTERING"
            PROVE  \A i \in 1 .. Len(typed') :
                       typed'[i][1] = "target" => typed'[i] = Line("target", target)
        <4>1. \A i \in 1 .. Len(typed) :
                  typed[i][1] = "target" => typed[i] = Line("target", target)
          BY <3>1 DEF DialIsOwn
        <4>2. QED
          BY <1>0, <2>4, <4>1, SearchKept
      <3>2. QED
        BY <2>4, <3>1 DEF DialIsOwn, Alive, BannerSeen
    <2>5. CASE AccountAnswered
      BY <1>0, <2>4, <2>5, LineKinds DEF AccountAnswered, Calls, Index
    <2>6. CASE ShellSeen
      <3>1. call'.at = "probing"
        BY <1>0, <2>6, Calling, StageTyped DEF ShellSeen
      <3>2. QED
        BY <2>4, <2>6, <3>1, LineKinds DEF ShellSeen, Probe
    <2>7. CASE ShellSeenTooLate
      BY <1>0, <1>1, <1>2, <1>4, <2>7 DEF ShellSeenTooLate
    <2>8. ASSUME NEW asked \in BOOLEAN, Recovered(asked), Return,
                 UNCHANGED <<remote, where, typed, screen, roster, wire, refused>>,
                 call.at \in {"shellWait", "probing"}
          PROVE  DialIsOwn'
      <3>1. \/ UNCHANGED <<state, target>>
            \/ state' # "ENTERING"
        BY <1>0, <2>8, RecoveredParks
      <3>2. QED
        BY <1>2, <1>3, <1>4, <2>8, <3>1
    <2>9. CASE EnterGivesUp
      BY <2>8, <2>9 DEF EnterGivesUp, NeedsChoice
    <2>10. CASE ProbeAnswered
      <3>1. state' \in {"SHELL", "UNKNOWN"}
        BY <1>0, <1>1, <2>10 DEF ProbeAnswered, Judge
      <3>2. QED
        BY <1>2, <1>4, <2>10, <3>1 DEF ProbeAnswered
    <2>11. CASE ProbeFails
      BY <1>0, <1>1, <1>2, <1>4, <2>8, <2>11 DEF ProbeFails, Unproved
    <2>12. QED
      BY <1>6, <2>1, <2>2, <2>3, <2>5, <2>6, <2>7, <2>9, <2>10, <2>11 DEF Entering
  <1>7. CASE Executing
    <2>1. CASE Exec
      <3>1. state' \in {"RUNNING", "UNKNOWN"} /\ call'.at = "executing"
        BY <1>0, <1>1, <2>1 DEF Exec, Begin, NoCall
      <3>2. QED
        BY <1>4, <2>1, <3>1 DEF Exec
    <2>2. CASE Completed
      <3>1. state' \in {"SHELL", "UNKNOWN"}
        <4>1. SetState(state, "SHELL") \in {"SHELL", "UNKNOWN"}
          BY <1>0, SetStateTarget
        <4>2. SetState(SetState(state, "SHELL"), "UNKNOWN") = "UNKNOWN"
          BY <1>0, <4>1, SetStateTarget
        <4>3. QED
          BY <2>2, <4>1, <4>2 DEF Completed
      <3>2. QED
        BY <1>2, <1>4, <2>2, <3>1 DEF Completed
    <2>3. CASE ExecClosed
      BY <1>0, <1>1, <1>2, <1>4, <2>3 DEF ExecClosed
    <2>4. CASE ExecInterrupted \/ PromptBack
      <3>1. call'.at # "shellWait" /\ state # "ENTERING"
        BY <1>0, <2>4, Calling, StageTyped DEF ExecInterrupted, PromptBack, Calls
      <3>2. QED
        BY <1>3, <2>4, <3>1 DEF ExecInterrupted, PromptBack
    <2>5. CASE RecoveryEnds
      <3>1. state' \in {"SHELL", "UNKNOWN"}
        BY <1>0, <1>1, <2>5 DEF RecoveryEnds, PromptGone, Reproved, AfterRecovery
      <3>2. QED
        BY <1>2, <1>4, <2>5, <3>1 DEF RecoveryEnds
    <2>6. QED
      BY <1>7, <2>1, <2>2, <2>3, <2>4, <2>5 DEF Executing
  <1>8. CASE Leaving
    <2>1. CASE Leave
      BY <1>3, <2>1 DEF Leave, InShell, NoCall
    <2>2. CASE Left
      BY <1>0, <1>1, <1>2, <1>4, <2>2 DEF Left
    <2>3. CASE LeaveAborted
      BY <1>0, <2>3 DEF LeaveAborted
    <2>4. CASE LeaveWaitEnds
      <3>1. call'.at \in {"idle", "backoff"} /\ state' # "ENTERING"
        BY <1>0, <1>1, <1>2, <2>4, Calling, StageTyped DEF LeaveWaitEnds
      <3>2. QED
        BY <1>4, <2>4, <3>1 DEF LeaveWaitEnds
    <2>5. CASE LeaveRetries
      <3>1. call'.at \in {"idle", "leaving"} /\ state # "ENTERING"
        BY <1>0, <1>2, <2>5 DEF LeaveRetries, NextTry, Calls
      <3>2. QED
        BY <1>3, <2>5, <3>1 DEF LeaveRetries
    <2>6. QED
      BY <1>8, <2>1, <2>2, <2>3, <2>4, <2>5 DEF Leaving
  <1>9. CASE Listing
    <2>1. CASE List
      BY <1>3, <2>1 DEF List, InMenu, Begin, NoCall
    <2>2. CASE Listed
      <3>1. state' # "ENTERING"
        BY <1>0, <1>1, <2>2 DEF Listed
      <3>2. QED
        BY <1>2, <1>4, <2>2, <3>1 DEF Listed
    <2>3. QED
      BY <1>9, <2>1, <2>2 DEF Listing
  <1>10. CASE Outside
    <2>1. CASE Close \/ Dispose
      <3>1. wire' = "none" /\ screen' = "blank"
        BY <2>1 DEF Close, Dispose, Closed
      <3>2. state' \in {"DISCONNECTED", "UNKNOWN"}
        <4>1. \A s \in States : SetState(s, "DISCONNECTED") \in {"DISCONNECTED", "UNKNOWN"}
          BY <1>0, SetStateTarget
        <4>2. \A s \in {state, SetState(state, "DISCONNECTED")} : s \in States
          BY <1>0, <4>1
        <4>3. PICK s \in {state, SetState(state, "DISCONNECTED")} :
                  state' = SetState(s, "DISCONNECTED")
          BY <2>1 DEF Close, Dispose, Closed
        <4>4. QED
          BY <4>1, <4>2, <4>3
      <3>3. QED
        BY <3>1, <3>2 DEF DialIsOwn, BannerSeen
    <2>2. CASE WireCloses \/ LateClose
      <3>1. state' \in {"DISCONNECTED", "UNKNOWN"} /\ wire' # "open"
        BY <1>0, <1>1, <2>2 DEF WireCloses, WireGone, LateClose, WireDead
      <3>2. QED
        BY <1>4, <2>2, <3>1 DEF WireCloses, LateClose
    <2>3. CASE Thaw
      BY <1>3, <2>3 DEF Thaw
    <2>4. CASE Abort \/ Interrupt \/ InterruptProbes \/ InterruptEnds
      BY <1>0, <2>4 DEF Abort, Interrupt, InterruptProbes, InterruptEnds
    <2>5. QED
      BY <1>10, <2>1, <2>2, <2>3, <2>4 DEF Outside
  <1>11. QED
    BY <1>5, <1>6, <1>7, <1>8, <1>9, <1>10

(* Whatever is read, or typed in a script, no index is typed.              *)
LEMMA NoIndexTyped ==
    ASSUME typed \in Seq(Lines),
           \/ UNCHANGED typed
           \/ typed' = <<>>
           \/ typed # <<>> /\ typed' = Tail(typed)
           \/ \E l \in Lines : l[1] # "index" /\ typed' = Append(typed, l)
           \/ \E d \in Drivers, l \in Lines : l[1] # "index" /\ RunOp(d, l)
    PROVE  ~TypesAnIndex
  <1> DEFINE a == Append(typed, Index)
  <1>1. /\ Len(typed) \in Nat /\ Len(a) = Len(typed) + 1
        /\ a[Len(typed) + 1] = Index /\ Index[1] = "index"
    BY LineKinds, TypedSeq
  <1>2. SUFFICES typed' # a
    BY DEF TypesAnIndex, Index
  <1> HIDE DEF a
  <1>3. CASE UNCHANGED typed
    BY <1>1, <1>3
  <1>4. CASE typed' = <<>>
    BY <1>1, <1>4
  <1>5. CASE typed # <<>> /\ typed' = Tail(typed)
    <2>1. Len(typed') = Len(typed) - 1
      BY <1>5, NextLine
    <2>2. QED
      BY <1>1, <2>1
  <1>6. ASSUME NEW l \in Lines, l[1] # "index", typed' = Append(typed, l) PROVE typed' # a
    <2>1. typed'[Len(typed) + 1] = l
      BY <1>6, TypedSeq
    <2>2. QED
      BY <1>1, <1>6, <2>1
  <1>7. ASSUME NEW d \in Drivers, NEW l \in Lines, l[1] # "index", RunOp(d, l)
        PROVE  typed' # a
    <2>1. typed'[Len(typed) + 1] = l
      BY <1>7, Scripted
    <2>2. QED
      BY <1>1, <1>7, <2>1
  <1>8. QED
    BY <1>3, <1>4, <1>5, <1>6, <1>7

(* An index is typed by the entry that waits, and only there.              *)
LEMMA OnlyEntriesAnswer ==
    ASSUME Core, KoKoInv, Next, TypesAnIndex
    PROVE  AccountAnswered
  <1> USE DEF sessionVars, ambient, kokoVars
  <1>0. typed \in Seq(Lines)
    BY DEF KoKoInv, KoKoTypeOK
  <1>1. /\ Line("probe", "op") \in Lines /\ Line("probe", "irq") \in Lines
        /\ Line("cmd", NoAsset) \in Lines /\ Line("intr", NoAsset) \in Lines
        /\ Line("exit", NoAsset) \in Lines /\ Line("list", NoAsset) \in Lines
        /\ "op" \in Drivers /\ "irq" \in Drivers
        /\ \A k \in {"probe", "cmd", "intr", "exit", "list"}, a \in {NoAsset, "op", "irq"} :
               Line(k, a)[1] # "index"
        /\ \A t \in Assets : Line("target", t) \in Lines /\ Line("target", t)[1] # "index"
    BY LineTyped DEF Drivers, Line
  <1>2. SUFFICES ASSUME ~AccountAnswered PROVE FALSE
    OBVIOUS
  <1>3. ASSUME \/ UNCHANGED typed
               \/ typed' = <<>>
               \/ typed # <<>> /\ typed' = Tail(typed)
        PROVE  FALSE
    BY <1>0, <1>3, NoIndexTyped
  <1>4. ASSUME NEW k \in {"probe", "cmd", "intr", "exit", "list"},
               NEW a \in {NoAsset, "op", "irq"}, Line(k, a) \in Lines,
               Type(Line(k, a)) \/ RunOp("op", Line(k, a)) \/ RunOp("irq", Line(k, a))
        PROVE  FALSE
    BY <1>0, <1>1, <1>4, NoIndexTyped DEF Type
  <1>5. CASE Connecting
    BY <1>3, <1>5 DEF Connecting, Connect, Attach, ConnectFails, TornDown, MenuSeen
  <1>6. CASE Entering
    <2>1. ASSUME NEW u \in Assets, EnterExpired(u) \/ \E c \in Choices : EnterResumes(u, c)
          PROVE  FALSE
      BY <1>3, <2>1 DEF EnterExpired, EnterResumes
    <2>2. ASSUME NEW u \in Assets, NEW c \in Choices, EnterDials(u, c)
          PROVE  FALSE
      BY <1>0, <1>1, <2>2, NoIndexTyped DEF EnterDials, Type
    <2>3. CASE ShellSeen
      BY <1>1, <1>4, <2>3 DEF ShellSeen
    <2>4. CASE ShellSeenTooLate \/ EnterGivesUp \/ ProbeAnswered \/ ProbeFails
      BY <1>3, <2>4 DEF ShellSeenTooLate, EnterGivesUp, ProbeAnswered, ProbeFails
    <2>5. QED
      BY <1>2, <1>6, <2>1, <2>2, <2>3, <2>4 DEF Entering
  <1>7. CASE Executing
    <2>1. CASE Exec
      BY <1>1, <1>4, <2>1 DEF Exec
    <2>2. CASE ExecInterrupted
      BY <1>1, <1>4, <2>2 DEF ExecInterrupted
    <2>3. CASE PromptBack
      BY <1>1, <1>4, <2>3 DEF PromptBack
    <2>4. CASE Completed \/ ExecClosed \/ RecoveryEnds
      BY <1>3, <2>4 DEF Completed, ExecClosed, RecoveryEnds
    <2>5. QED
      BY <1>7, <2>1, <2>2, <2>3, <2>4 DEF Executing
  <1>8. CASE Leaving
    <2>1. CASE Leave
      BY <1>1, <1>4, <2>1 DEF Leave
    <2>2. CASE LeaveRetries
      BY <1>1, <1>3, <1>4, <2>2 DEF LeaveRetries, Type
    <2>3. CASE Left \/ LeaveAborted \/ LeaveWaitEnds
      BY <1>3, <2>3 DEF Left, LeaveAborted, LeaveWaitEnds
    <2>4. QED
      BY <1>8, <2>1, <2>2, <2>3 DEF Leaving
  <1>9. CASE Listing
    <2>1. CASE List
      BY <1>1, <1>4, <2>1 DEF List
    <2>2. CASE Listed
      BY <1>3, <2>2 DEF Listed
    <2>3. QED
      BY <1>9, <2>1, <2>2 DEF Listing
  <1>10. CASE Outside
    <2>1. CASE Interrupt
      BY <1>1, <1>4, <2>1 DEF Interrupt
    <2>2. CASE InterruptProbes
      BY <1>1, <1>4, <2>2 DEF InterruptProbes
    <2>3. CASE Close \/ Dispose \/ WireCloses \/ LateClose \/ Abort \/ Thaw \/ InterruptEnds
      BY <1>3, <2>3 DEF Close, Dispose, Closed, WireCloses, LateClose, Abort, Thaw,
                        InterruptEnds
    <2>4. QED
      BY <1>10, <2>1, <2>2, <2>3 DEF Outside
  <1>11. CASE KoKoNext
    BY <1>3, <1>11 DEF KoKoNext, Consume, MenuPainted, DialEnds, PromptAfterBanner,
                       CommandEnds, Logout
  <1>12. QED
    BY <1>5, <1>6, <1>7, <1>8, <1>9, <1>10, <1>11 DEF Next
-----------------------------------------------------------------------------
(* The inductive invariant.                                                *)
SInv == /\ Core
        /\ KoKoInv
        /\ Painted
        /\ NoInterrupt => EntryIsOwned /\ IdentityIsTrue
        /\ Calm => LinesInTurn /\ DialIsOwn

(* A session begins with nothing typed, painted or judged.                 *)
LEMMA SInvInit == ASSUME Init PROVE SInv
  <1> USE DEF Init, KoKoInit
  <1>1. Core
    BY NoCallTyped
       DEF Core, SessionTypes, TriesLeft, GoalIsAsset, ConnectingIsACall, LiveHasWire,
           Live, States
  <1>2. KoKoInv
    <2>1. typed \in Seq(Lines) /\ remote = "none" /\ screen = "blank" /\ watcher = "none"
      OBVIOUS
    <2>2. heard \in [Drivers -> Assets \cup {"nothing", "done"}]
      OBVIOUS
    <2>3. where \in Assets \cup {NoAsset} /\ roster \in BOOLEAN /\ faults \in Weather
      OBVIOUS
    <2>4. QED
      BY <2>1, <2>2, <2>3 DEF KoKoInv, KoKoTypeOK, WhereKnown, Remotes, Screens
  <1>3. Painted
    BY NoCallTyped DEF Painted, Alive
  <1>4. EntryIsOwned /\ IdentityIsTrue
    BY NoCallTyped DEF EntryIsOwned, IdentityIsTrue, Unjudged
  <1>5. LinesInTurn
    BY NoCallTyped DEF LinesInTurn, Alive, NoCall
  <1>6. DialIsOwn
    BY NoCallTyped DEF DialIsOwn
  <1>7. QED
    BY <1>1, <1>2, <1>3, <1>4, <1>5, <1>6 DEF SInv

(* Every step keeps it.                                                    *)
LEMMA SInvKept == ASSUME SInv, [Next]_vars PROVE SInv'
  <1> USE DEF sessionVars, ambient
  <1>1. /\ Core /\ KoKoInv /\ Painted /\ GoalIsAsset /\ call \in Calls
        /\ NoInterrupt => EntryIsOwned /\ IdentityIsTrue
        /\ Calm => LinesInTurn /\ DialIsOwn /\ NoInterrupt
    BY DEF SInv, Core, SessionTypes, Calm, NoInterrupt
  <1>2. CASE Connecting \/ Entering \/ Executing \/ Leaving \/ Listing \/ Outside
    <2>1. KoKoInv' /\ UNCHANGED faults
      BY <1>1, <1>2, SessionKeepsKoKo
    <2>2. Core'
      BY <1>1, <1>2, ConnectingKeeps, EnteringKeeps, ExecutingKeeps, LeavingKeeps,
         ListingKeeps, OutsideKeeps
    <2>3. Painted'
      BY <1>1, <1>2, PaintedKept
    <2>4. NoInterrupt => EntryIsOwned' /\ IdentityIsTrue'
      BY <1>1, <1>2, EntryKept, IdentityKept
    <2>5. Calm => LinesInTurn' /\ DialIsOwn'
      BY <1>1, <1>2, LinesKept, DialKept
    <2>6. (NoInterrupt' <=> NoInterrupt) /\ (Calm' <=> Calm)
      BY <2>1 DEF NoInterrupt, Calm
    <2>7. QED
      BY <2>1, <2>2, <2>3, <2>4, <2>5, <2>6 DEF SInv
  <1>3. CASE /\ KoKoNext /\ refused' = IF remote' = "failing" THEN where ELSE refused
             /\ UNCHANGED <<sessionVars, call, irq, disposed, faults>>
    <2>1. KoKoInv'
      BY <1>1, <1>3, KoKoKeeps
    <2>2. refused' \in Assets \cup {NoAsset}
      BY <1>1, <1>3 DEF Core, SessionTypes, KoKoInv, KoKoTypeOK
    <2>3. Core'
      BY <1>1, <1>3, <2>2 DEF Core, SessionTypes, TriesLeft, GoalIsAsset, ConnectingIsACall,
                              LiveHasWire
    <2>4. Painted'
      BY <1>1, <1>3, Paints DEF Painted, Alive
    <2>5. NoInterrupt => EntryIsOwned' /\ IdentityIsTrue'
      BY <1>1, <1>3, IdentityHeard DEF EntryIsOwned
    <2>6. Calm => LinesInTurn' /\ DialIsOwn'
      BY <1>1, <1>3, LinesHeard, DialHeard
    <2>7. (NoInterrupt' <=> NoInterrupt) /\ (Calm' <=> Calm)
      BY <1>3 DEF NoInterrupt, Calm
    <2>8. QED
      BY <2>1, <2>3, <2>4, <2>5, <2>6, <2>7 DEF SInv
  <1>4. CASE UNCHANGED vars
    <2> USE <1>4 DEF vars, kokoVars
    <2>1. Core'
      BY <1>1 DEF Core, SessionTypes, TriesLeft, GoalIsAsset, ConnectingIsACall, LiveHasWire
    <2>2. KoKoInv' /\ Painted'
      BY <1>1 DEF KoKoInv, KoKoTypeOK, WhereKnown, Painted, Alive
    <2>3. NoInterrupt' => EntryIsOwned' /\ IdentityIsTrue'
      BY <1>1 DEF NoInterrupt, EntryIsOwned, IdentityIsTrue, Alive, ProbeIsLast, Landed,
                  NothingDials
    <2>4. Calm' => LinesInTurn' /\ DialIsOwn'
      BY <1>1 DEF Calm, LinesInTurn, Stage, Shows, Alive, Resting, Waiting, Dialled, Running,
                  Recovering, Asked, Answered, Listens, DialIsOwn, BannerSeen
    <2>5. QED
      BY <2>1, <2>2, <2>3, <2>4 DEF SInv
  <1>5. QED
    BY <1>2, <1>3, <1>4 DEF Next

(* The session, its far end and the lines between them: session.ts.         *)
THEOREM Invariance == Spec => []SInv
  <1>1. QED
    BY SInvInit, SInvKept, PTL DEF Spec

(* The transport of a live session is open, whatever interleaves (session.ts:   *)
(* setState, onWireClose, teardownTransport, close).                       *)
THEOREM LiveWire == Spec => []LiveHasWire
  <1>1. SInv => LiveHasWire
    BY DEF SInv, Core
  <1>2. QED
    BY <1>1, Invariance, PTL

(* The session's variables, and what is between it and the bastion, keep    *)
(* their types (session.ts: the fields of JumpServerSession).              *)
THEOREM TypeCorrect == Spec => []TypeOK
  <1>1. SInv => TypeOK
    BY DEF SInv, Core, SessionTypes, KoKoInv, TypeOK
  <1>2. QED
    BY <1>1, Invariance, PTL

(* An entry that ends without a shell parks the session on its own target,  *)
(* or leaves ENTERING (session.ts:689-691, recoverAfterFailedEnter).        *)
THEOREM EntryParks == Spec => []ParkedOrNotEntering
  <1>1. SInv => ParkedOrNotEntering
    <2> SUFFICES ASSUME SInv, NoInterrupt, Idle, state = "ENTERING"
                 PROVE  pending = target /\ target # NoAsset
      BY DEF ParkedOrNotEntering, EnteringIsParked
    <2>1. call.at = "idle" /\ EntryIsOwned
      BY DEF SInv, Idle, NoCall
    <2>2. pending = target /\ target \in Assets
      BY <2>1 DEF EntryIsOwned
    <2>3. QED
      BY <2>2, NoAssetAssumption
  <1>2. QED
    BY <1>1, Invariance, PTL

(* What exec finds in ASSET_SHELL has been judged by an entry, whatever      *)
(* detours there were (session.ts:698).                                    *)
THEOREM ShellJudged == Spec => []ShellIsJudged
  <1>1. SInv => ShellIsJudged
    BY DEF SInv, ShellIsJudged, ShellWasJudged, EntryIsOwned
  <1>2. QED
    BY <1>1, Invariance, PTL

(* Once the identity is verified, every command the session lets through    *)
(* reaches the asset it says it is on (session.ts:661-666, target-verify.ts). *)
THEOREM VerifiedHolds == Spec => []VerifiedMeansTarget
  <1>1. SInv => VerifiedMeansTarget
    BY DEF SInv, VerifiedMeansTarget, IdentityIsTrue, Landed, Meets
  <1>2. QED
    BY <1>1, Invariance, PTL

(* While only transports fail, every line is read by a program that          *)
(* understands it (session.ts:843-844, 992-994), and an index is typed at    *)
(* the account list, or behind a failed dial of its own (session.ts:418-420). *)
THEOREM LinesArrive == Spec => LinesReachTheirReader
  <1>1. SInv => (Calm => LineSuitsReader)
    <2> SUFFICES ASSUME SInv, Calm PROVE LineSuitsReader
      OBVIOUS
    <2>1. call \in Calls /\ KoKoInv /\ (Alive => Stage)
      BY DEF SInv, Core, SessionTypes, LinesInTurn
    <2>2. QED
      BY <2>1, LinesSuit DEF LineSuitsReader, Meets, Alive
  <1>2. SInv /\ [Next]_vars =>
            [Calm /\ TypesAnIndex => AtThePrompt \/ refused = call.goal]_vars
    <2> SUFFICES ASSUME SInv, Next, Calm, TypesAnIndex
                 PROVE  AtThePrompt \/ refused = call.goal
      OBVIOUS
    <2>1. /\ AccountAnswered /\ EntryIsOwned /\ LinesInTurn /\ DialIsOwn
          /\ typed \in Seq(Lines)
      BY OnlyEntriesAnswer DEF SInv, Calm, NoInterrupt, KoKoInv, KoKoTypeOK
    <2>2. wire = "open"
      <3> SUFFICES ASSUME wire # "open" PROVE FALSE
        OBVIOUS
      <3>1. UNCHANGED typed
        BY <2>1 DEF AccountAnswered, WireDead
      <3>2. QED
        BY <2>1, <3>1, NoIndexTyped
    <2>3. Alive /\ Waiting /\ ~call.chosen /\ roster
      BY <2>1, <2>2 DEF AccountAnswered, MayAnswer, ListDetected, DialIsOwn, LinesInTurn, Stage
    <2>4. state = "ENTERING" /\ call.goal = target
      BY <2>1, <2>3 DEF Waiting, EntryIsOwned, AccountAnswered
    <2>5. remote \in {"accounts", "failing", "menu"}
      BY <2>3 DEF Waiting
    <2>6. CASE remote = "accounts"
      BY <2>3, <2>6 DEF Waiting, Dialled, AtThePrompt
    <2>7. CASE remote \in {"failing", "menu"}
      BY <2>1, <2>3, <2>4, <2>7 DEF DialIsOwn
    <2>8. QED
      BY <2>5, <2>6, <2>7
  <1>3. QED
    BY <1>1, <1>2, Invariance, PTL DEF Spec, LinesReachTheirReader

(* While only transports fail, a cooldown is started for the asset that KoKo *)
(* has just failed to dial, never on what an earlier entry left on the       *)
(* screen (session.ts:470-475).                                             *)
THEOREM CooldownEarned == Spec => CooldownIsEarned
  <1>1. SInv /\ [Next]_vars =>
            [Calm => \A t \in cooling' \ cooling : refused = t]_vars
    <2> SUFFICES ASSUME SInv, Next, Calm, NEW t \in cooling' \ cooling
                 PROVE  refused = t
      OBVIOUS
    <2> USE DEF sessionVars, ambient, kokoVars
    <2>1. EnterGivesUp
      <3> SUFFICES ASSUME ~EnterGivesUp PROVE cooling' \subseteq cooling
        OBVIOUS
      <3>1. CASE Connecting
        BY <3>1 DEF Connecting, Connect, Attach, ConnectFails, MenuSeen
      <3>2. CASE Entering
        BY <3>2 DEF Entering, EnterExpired, EnterResumes, EnterDials, AccountAnswered,
                    ShellSeen, ShellSeenTooLate, ProbeAnswered, Judge, ProbeFails
      <3>3. CASE Executing
        BY <3>3 DEF Executing, Exec, Completed, ExecClosed, ExecInterrupted, PromptBack,
                    RecoveryEnds
      <3>4. CASE Leaving \/ Listing
        BY <3>4 DEF Leaving, Leave, Left, LeaveAborted, LeaveWaitEnds, LeaveRetries,
                    Listing, List, Listed
      <3>5. CASE Outside
        BY <3>5 DEF Outside, Close, Dispose, Closed, WireCloses, LateClose, Abort, Thaw,
                    Interrupt, InterruptProbes, InterruptEnds
      <3>6. QED
        BY <3>1, <3>2, <3>3, <3>4, <3>5 DEF Next
    <2>2. call.at = "shellWait" /\ BannerSeen /\ t = call.goal
      BY <2>1 DEF EnterGivesUp
    <2>3. QED
      BY <2>2 DEF SInv, DialIsOwn
  <1>2. QED
    BY <1>1, Invariance, PTL DEF Spec, CooldownIsEarned
=============================================================================
