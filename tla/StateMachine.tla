----------------------------- MODULE StateMachine -----------------------------
(***************************************************************************)
(* jumpserver/state-machine.ts: the states of a JumpServerSession and the  *)
(* transitions its setState lets through.  MENU, ENTERING, SHELL and       *)
(* RUNNING stand for JUMPSERVER_MENU, ENTERING_ASSET, ASSET_SHELL and      *)
(* COMMAND_RUNNING.                                                        *)
(***************************************************************************)

States == {"DISCONNECTED", "CONNECTING", "MENU", "ENTERING", "SHELL", "RUNNING",
           "UNKNOWN", "ERROR"}

\* isLive()
Live == {"MENU", "ENTERING", "SHELL", "RUNNING"}

\* LEGAL_TRANSITIONS
Legal == [DISCONNECTED |-> {"CONNECTING"},
          CONNECTING   |-> {"MENU", "ERROR"},
          MENU         |-> {"ENTERING", "DISCONNECTED"},
          ENTERING     |-> {"SHELL", "MENU", "DISCONNECTED", "UNKNOWN", "ERROR"},
          SHELL        |-> {"RUNNING", "MENU", "UNKNOWN", "DISCONNECTED"},
          RUNNING      |-> {"SHELL", "UNKNOWN", "DISCONNECTED"},
          UNKNOWN      |-> {"DISCONNECTED", "CONNECTING"},
          ERROR        |-> {"DISCONNECTED"}]

\* setState: an illegal transition collapses to UNKNOWN.
SetState(from, to) ==
    IF from = to THEN from ELSE IF to \in Legal[from] THEN to ELSE "UNKNOWN"
=============================================================================
