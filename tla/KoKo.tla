--------------------------------- MODULE KoKo ---------------------------------
(***************************************************************************)
(* The bastion's text interface, as jumpserver/session.ts uses it.  KoKo   *)
(* is not part of this repository: what it answers to each line is taken   *)
(* from what the session's code and its comments expect of it.             *)
(*                                                                         *)
(* The client types lines; KoKo, or the asset's shell behind it, consumes  *)
(* them one at a time and repaints the screen.  Between the two, `screen`  *)
(* still shows what was painted before: every decision the session takes   *)
(* from its screen is taken on the past.                                   *)
(***************************************************************************)
EXTENDS Naturals, Sequences

CONSTANTS Assets,    \* what the account may enter
          NoAsset,   \* model value
          Weather,   \* the sets of disturbances the environment may produce
          MaxTyped   \* bound: unread lines when an operation begins

AllFaults == {"abort", "interrupt", "logout", "slow", "drop", "misroute", "dispose"}

\* NoAsset is neither an asset nor the name of a driver.
ASSUME NoAssetAssumption == NoAsset \notin Assets \cup {"op", "irq"}
\* What a watcher matched is an asset, nothing, or the end of a command.
ASSUME HeardAssumption == Assets \cap {"nothing", "done"} = {}
ASSUME WeatherAssumption == Weather \subseteq SUBSET AllFaults

VARIABLES remote,   \* what the far end is doing
          where,    \* the asset it dials or is in
          typed,    \* lines on their way, each <<kind, argument>>
          screen,   \* what the detector recognises in what was painted last
          roster,   \* an account list ending in `ID>` is in the last 2048 chars
          watcher,  \* whose MarkerWatcher is installed: "none", "op" or "irq"
          heard,    \* driver -> what its watcher has matched
          faults    \* the disturbances of this behaviour

kokoVars == <<remote, where, typed, screen, roster, watcher, heard>>

Remotes == {"none", "greeting", "menu", "accounts", "dialing", "failing", "shell", "busy",
            "pager", "gone"}
Screens == {"blank", "menu", "banner", "bannerMenu", "accounts", "shell", "pager",
            "other"}
Drivers == {"op", "irq"}
Lines == ({"target"} \X Assets) \cup ({"probe"} \X (Drivers \cup {NoAsset}))
            \cup ({"index", "cmd", "intr", "exit", "list"} \X {NoAsset})

KoKoInit == /\ remote = "none"
            /\ where = NoAsset
            /\ typed = <<>>
            /\ screen = "blank"
            /\ roster = FALSE
            /\ watcher = "none"
            /\ heard = [d \in Drivers |-> "nothing"]
            /\ faults \in Weather

Line(kind, arg) == <<kind, arg>>

\* wire.write(...)
Type(line) == typed' = Append(typed, line)

\* runOp types a script with a fresh random marker and installs its watcher in
\* the one slot there is: what an earlier script of the same driver answers is
\* nobody's any more.  The slot is emptied when runOp ends.
RunOp(d, line) ==
    /\ typed' = Append([i \in DOMAIN typed |->
                            IF typed[i] = Line("probe", d) THEN Line("probe", NoAsset)
                            ELSE typed[i]], line)
    /\ watcher' = d
    /\ heard' = [heard EXCEPT ![d] = "nothing"]
StopsListening(d) == watcher' = "none" /\ heard' = [heard EXCEPT ![d] = "nothing"]

\* Everything on its way has arrived, or waits behind a program that runs: a
\* deadline that expires now is not early.
Settled == /\ remote \notin {"greeting", "dialing", "failing"}
           /\ typed # <<>> => remote \in {"busy", "pager"} /\ Head(typed)[1] # "intr"

DeadlineMayPass == "slow" \in faults \/ Settled

\* The next line to be consumed is of this kind and meets this far end.
Meets(kind, r) == typed # <<>> /\ Head(typed)[1] = kind /\ remote = r

-----------------------------------------------------------------------------
(* What the far end does with the next line.                               *)

\* New output may or may not push an account list out of the detector's window.
Paint(r, s) == /\ remote' = r
               /\ screen' = s
               /\ roster' \in IF s = "accounts" THEN {TRUE} ELSE {roster, FALSE}

Stay(s) == Paint(remote, s) /\ UNCHANGED where
BackToMenu == Paint("menu", "menu") /\ where' = NoAsset

\* A line at the menu.  A probe, a command or an index is taken for a search.
AtMenu(kind, arg) ==
    /\ remote = "menu"
    /\ CASE kind = "target" -> /\ \/ Paint("dialing", "other")
                                  \/ Paint("accounts", "accounts")
                               /\ where' = arg
         [] kind = "list"   -> \/ BackToMenu
                               \/ Paint("pager", "pager") /\ UNCHANGED where
         [] kind = "exit"   -> Paint("gone", "other") /\ UNCHANGED where
         [] OTHER           -> BackToMenu
    /\ UNCHANGED heard

\* A line at the `ID>` prompt: the chosen account is dialled.
AtAccounts(kind) ==
    /\ remote = "accounts"
    /\ IF kind = "index" THEN Paint("dialing", "other") /\ UNCHANGED where ELSE BackToMenu
    /\ UNCHANGED heard

\* A line at the asset's prompt.  A probe answers to whoever listens.
AtShell(kind, arg) ==
    /\ remote = "shell"
    /\ CASE kind = "cmd"   -> Paint("busy", "other") /\ UNCHANGED where
         [] kind = "exit"  -> BackToMenu
         [] OTHER          -> Stay("shell")
    /\ heard' = IF kind = "probe" /\ watcher = arg
                THEN [heard EXCEPT ![arg] = where] ELSE heard

\* ^C reaches a running command, a pager or a dial; other lines wait.
Interrupted(kind) ==
    /\ kind = "intr"
    /\ remote \in {"busy", "pager", "dialing", "failing"}
    /\ IF remote = "busy" THEN Paint("shell", "shell") /\ UNCHANGED where ELSE BackToMenu
    /\ UNCHANGED heard

Consume ==
    /\ typed # <<>>
    /\ typed' = Tail(typed)
    /\ LET kind == Head(typed)[1]
           arg  == Head(typed)[2]
       IN  \/ AtMenu(kind, arg)
           \/ AtAccounts(kind)
           \/ AtShell(kind, arg)
           \/ Interrupted(kind)
    /\ UNCHANGED watcher

\* The menu of a fresh connection is painted.
MenuPainted ==
    /\ remote = "greeting"
    /\ BackToMenu
    /\ UNCHANGED <<typed, watcher, heard>>

\* A dial ends: in a shell, the one that was asked for unless the bastion
\* lands elsewhere, or with a banner whose menu prompt follows later.
DialEnds ==
    /\ remote = "dialing"
    /\ \/ /\ Paint("shell", "shell")
          /\ \E a \in IF "misroute" \in faults THEN Assets ELSE {where} : where' = a
       \/ Paint("failing", "banner") /\ UNCHANGED where
    /\ UNCHANGED <<typed, watcher, heard>>

PromptAfterBanner ==
    /\ remote = "failing"
    /\ Paint("menu", "bannerMenu")
    /\ where' = NoAsset
    /\ UNCHANGED <<typed, watcher, heard>>

\* The command ends by itself; its marker is seen by the watcher in place.
CommandEnds ==
    /\ remote = "busy"
    /\ Paint("shell", "shell")
    /\ heard' = IF watcher = "op" THEN [heard EXCEPT !["op"] = "done"] ELSE heard
    /\ UNCHANGED <<where, typed, watcher>>

\* The asset ends the login (idle logout, reboot): back at the menu.
Logout ==
    /\ "logout" \in faults
    /\ remote \in {"shell", "busy"}
    /\ BackToMenu
    /\ UNCHANGED <<typed, watcher, heard>>

KoKoNext == \/ Consume \/ MenuPainted \/ DialEnds \/ PromptAfterBanner
            \/ CommandEnds \/ Logout

KoKoTypeOK == /\ remote \in Remotes
              /\ where \in Assets \cup {NoAsset}
              /\ typed \in Seq(Lines)
              /\ screen \in Screens
              /\ roster \in BOOLEAN
              /\ watcher \in Drivers \cup {"none"}
              /\ heard \in [Drivers -> Assets \cup {"nothing", "done"}]
              /\ faults \in Weather
=============================================================================
