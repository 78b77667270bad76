----------------------------- MODULE MCBoundedMap -----------------------------
(* Two workers on three targets, and surveys of each kind with one or two   *)
(* commands: a comparison, runbooks whose steps are asserted, skipped,      *)
(* scoped to one probe or not asserted, and a baseline compared with the    *)
(* profile it recorded and with the one it was taken with.                  *)
EXTENDS Survey

Step(cmds, scope, expect) == [cmds |-> cmds, scope |-> scope, expect |-> expect]
Plan(tool, steps) == [tool |-> tool, steps |-> steps, before |-> <<>>]
Drift(profile, before) ==
    [tool |-> "drift", before |-> before,
     steps |-> <<Step(ResolveProfile(profile), 0, "none")>>]

Both == <<"read", "read">>
MCPlans ==
    {Plan("compare", <<Step(Both, 0, "none")>>),
     Plan("runbook", <<Step(<<"read", "write", "read">>, 3, "absent")>>),
     Plan("runbook", <<Step(<<"write">>, 0, "absent"), Step(<<"read">>, 0, "none"),
                       Step(<<"read">>, 0, "exit0")>>),
     Plan("runbook", <<Step(<<"read">>, 0, "present"), Step(<<"read">>, 2, "absent"),
                       Step(<<"read">>, 0, "absent")>>),
     Plan("runbook", <<Step(Both, 0, "exit0")>>),
     Drift(Recorded("full"), <<"same", "other">>),
     Drift("full", <<"same", "nothing">>)}
=============================================================================
