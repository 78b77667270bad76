-------------------------- MODULE MCPermissionGate --------------------------
EXTENDS PermissionGate, TLC

CONSTANTS A, B

Command(name, risk, plain, long) == [key |-> name, risk |-> risk, plain |-> plain, long |-> long]
Look == Command("look", "READ", TRUE, FALSE)
Odd == Command("odd", "UNKNOWN", TRUE, FALSE)
Odder == Command("odder", "UNKNOWN", FALSE, FALSE)
Edit == Command("edit", "MODIFY", TRUE, FALSE)
Wipe == Command("wipe", "DANGEROUS", TRUE, TRUE)
Root == Command("root", "PRIVILEGED_READ", TRUE, FALSE)

OneTask(tool, target, items) == [tool |-> tool, tasks |-> <<[target |-> target, items |-> items]>>]
MCRequests ==
  {OneTask("exec", NoTarget, <<Edit>>), OneTask("run", A, <<Wipe>>), OneTask("enter", B, <<>>),
   OneTask("disarm", NoTarget, <<>>), OneTask("close", NoTarget, <<>>),
   [tool |-> "batch", tasks |-> <<[target |-> A, items |-> <<Odd, Odder>>],
                                  [target |-> B, items |-> <<Root>>]>>]}

Policy(mode, arm, auto, denied) ==
  [mode |-> mode, privilegedRead |-> mode = "READ_ONLY", requireArm |-> arm, judge |-> auto, autoAllow |-> auto,
   allowed |-> {{A, B}}, denied |-> denied]
MCPolicies == {Policy("AUTO", FALSE, TRUE, {}), Policy("FULL_ACCESS", TRUE, FALSE, {}),
               Policy("READ_ONLY", FALSE, FALSE, {{B}})}

Symmetry == Permutations(Calls)

AllPass == [q \in Questions |-> "pass"]
MCResponses == {AllPass, [AllPass EXCEPT !["bands"] = "absent"]}
=============================================================================
