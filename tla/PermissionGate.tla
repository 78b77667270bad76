---------------------------- MODULE PermissionGate ----------------------------
(***************************************************************************)
(* What stands between a tool call and the shell: the grant and the target *)
(* scope (security/grant.ts, target-scope.ts), the permission matrix       *)
(* (permission.ts), the gate with its approvals (permission-gate.ts), the  *)
(* semantic judge behind it (risk-judge.ts), the handlers of server.ts and *)
(* tools-ops.ts that ask them, and the place in session-manager.ts where   *)
(* each answer is used.  One conversation, whose calls run concurrently    *)
(* and take turns on one shell.                                            *)
(***************************************************************************)
EXTENDS Naturals, Sequences, FiniteSets

CONSTANTS Calls,      \* bound: the tool calls of a behaviour
          Requests,   \* the requests they may make
          Policies,   \* the configurations a process may have been started with
          Responses,  \* what the judge's service may answer
          Targets, NoTarget,
          GroupLimit  \* the most commands one prompt lists (10)

ASSUME TargetAssumption == NoTarget \notin Targets
ASSUME GroupAssumption == GroupLimit \in Nat /\ GroupLimit >= 2

\* PermissionMode and the lists of a configuration.
ASSUME PolicyAssumption ==
  \A p \in Policies : /\ p.mode \in {"READ_ONLY", "AUTO", "FULL_ACCESS"}
                      /\ p.denied \subseteq SUBSET Targets

VARIABLES policy,  \* the configuration, fixed at boot
          grant,   \* SessionGrant: the conversation is armed
          shell,   \* the session: the asset it is on and whether its shell is up
          holder,  \* the call whose turn it is on the session, or NoCall
          calls,   \* the locals of each call
          cache,   \* redacted command -> verdict
          shown,   \* history: request -> the commands the user was shown to approve
          runs     \* history: what was typed into a shell, and by what right

vars == <<policy, grant, shell, holder, calls, cache, shown, runs>>

NoCall == "no call"
ASSUME CallAssumption == NoCall \notin Calls

Commands == UNION {{t.items[k] : k \in DOMAIN t.items} : t \in UNION {{r.tasks[i] : i \in DOMAIN r.tasks} : r \in Requests}}
Keys == {cmd.key : cmd \in Commands}

\* exec and run take one command; a batch passes over a task without commands.
ASSUME RequestAssumption ==
  \A r \in Requests :
    /\ r.tool \in {"exec", "run", "batch", "enter", "leave", "close", "disarm"}
    /\ r.tasks \in Seq([target : Targets \cup {NoTarget}, items : Seq(Commands)])
    /\ r.tasks # <<>>
    /\ r.tool = "batch" => \A i \in DOMAIN r.tasks : r.tasks[i].items # <<>>
    /\ r.tool \in {"exec", "run"} => \A i \in DOMAIN r.tasks : Len(r.tasks[i].items) = 1
-----------------------------------------------------------------------------
(* The judge.                                                              *)

Questions == {"read_only", "impact", "score", "bands", "privilege", "confidence"}

\* A verdict is the set of thresholds it meets.
NoVerdict == [state |-> "none", met |-> {}]
Asking == [state |-> "asking", met |-> {}]

\* parseVerdict: without these two there is no verdict, a missing privilege
\* counts as none needed, anything else that is missing meets no threshold.
Parse(resp) ==
  IF "absent" \in {resp["read_only"], resp["score"]} THEN NoVerdict
  ELSE [state |-> "given",
        met   |-> {q \in Questions : resp[q] = "pass" \/ (q = "privilege" /\ resp[q] = "absent")}]

\* Mutant: the composition, opaque-syntax and interpreter vetoes are not asked.
MutAutoAllowed(cmd, v) ==
  /\ policy.autoAllow
  /\ v # NoVerdict
  /\ v.met = Questions

\* decideAutoAllow: `plain` is a single segment with an ordinary head.
AutoAllowed(cmd, v) ==
  /\ policy.autoAllow
  /\ v # NoVerdict
  /\ cmd.plain
  /\ v.met = Questions

\* judgeUnknown, judgeCommandRisk up to the request: a fresh entry of the cache
\* answers at once.
FirstOpinion(cmd) ==
  IF ~policy.judge \/ cmd.risk \notin {"UNKNOWN", "MODIFY", "DANGEROUS"} THEN NoVerdict
  ELSE IF cache[cmd.key] # NoVerdict THEN cache[cmd.key]
  ELSE Asking
-----------------------------------------------------------------------------
(* The rules.                                                              *)

\* gateDecision
Decision(risk) ==
  CASE policy.mode = "READ_ONLY" ->
         IF risk = "READ" \/ (risk = "PRIVILEGED_READ" /\ policy.privilegedRead)
         THEN "allow" ELSE "COMMAND_BLOCKED"
    [] policy.mode = "AUTO" ->
         IF risk \in {"READ", "PRIVILEGED_READ"} THEN "allow" ELSE "COMMAND_APPROVAL_REQUIRED"
    [] policy.mode = "FULL_ACCESS" ->
         IF risk \in {"UNKNOWN", "DANGEROUS"} THEN "COMMAND_APPROVAL_REQUIRED" ELSE "allow"

\* matches: an entry of a list covers a set of targets.
Covered(list, target) == \E entry \in list : target \in entry

\* Mutant: an allowed target is allowed, denied or not.
MutTargetAllowed(target) ==
  \/ target = NoTarget
  \/ policy.allowed = {} \/ Covered(policy.allowed, target)

\* requireTargetAllowed: deny wins, an empty allow list allows, and being nowhere
\* is not out of scope.
TargetAllowed(target) ==
  \/ target = NoTarget
  \/ /\ ~Covered(policy.denied, target)
     /\ policy.allowed = {} \/ Covered(policy.allowed, target)

\* requireTargetVerified
Verified == shell.up /\ shell.target # NoTarget

\* requireReady: isGranted, where a grant is asked for at all.
Ready == policy.requireArm => grant

\* Mutant: whatever the judge likes skips the prompt.
MutJudged(cmd, v) == IF AutoAllowed(cmd, v) THEN "auto" ELSE "ask"

\* applyJudge: a verdict decides about an UNKNOWN command only.
Judged(cmd, v) == IF cmd.risk = "UNKNOWN" /\ AutoAllowed(cmd, v) THEN "auto" ELSE "ask"

\* One command of a task as the rules leave it.
Ruled(cmd) ==
  LET d == Decision(cmd.risk) IN
  CASE d = "allow"           -> [how |-> "free", verdict |-> NoVerdict]
    [] d = "COMMAND_BLOCKED" -> [how |-> "blocked", verdict |-> NoVerdict]
    [] OTHER                 -> [how |-> "ask", verdict |-> FirstOpinion(cmd)]
-----------------------------------------------------------------------------
(* A call and its locals.                                                  *)

NoRequest == [tool |-> "none", tasks |-> <<>>]
Idle == [at |-> "idle", req |-> NoRequest, yes |-> FALSE, task |-> 1, item |-> 1,
         gated |-> <<>>, group |-> "none", seen |-> NoTarget]

Init == /\ policy \in Policies
        /\ grant = FALSE
        /\ shell = [target |-> NoTarget, up |-> FALSE]
        /\ holder = NoCall
        /\ calls = [c \in Calls |-> Idle]
        /\ cache = [k \in Keys |-> NoVerdict]
        /\ shown = [r \in Requests |-> {}]
        /\ runs = {}

Tool(c) == calls[c].req.tool
Task(c) == calls[c].req.tasks[calls[c].task]
Item(c) == Task(c).items[calls[c].item]
How(c) == calls[c].gated[calls[c].item].how
Pending(g) == {k \in DOMAIN g : g[k].how = "ask"}

Goes(c, place) == calls' = [calls EXCEPT ![c].at = place]
Shows(c, cmds) == shown' = [shown EXCEPT ![calls[c].req] = @ \cup cmds]

\* A task is over: the queue slot is given back, a batch goes on to its next.
TaskOver(c) ==
  /\ holder' = IF holder = c THEN NoCall ELSE holder
  /\ calls' = IF Tool(c) = "batch" /\ calls[c].task < Len(calls[c].req.tasks)
              THEN [calls EXCEPT ![c].at = "gating", ![c].task = @ + 1, ![c].item = 1,
                                 ![c].gated = <<>>, ![c].group = "none"]
              ELSE [calls EXCEPT ![c].at = "done"]

\* A call is over, whatever was left of it.
CallOver(c) ==
  /\ holder' = IF holder = c THEN NoCall ELSE holder
  /\ Goes(c, "done")

\* One command is dealt with: a batch goes on to its next one.
ItemOver(c) ==
  IF calls[c].item < Len(Task(c).items)
  THEN /\ calls' = [calls EXCEPT ![c].at = "on", ![c].item = @ + 1]
       /\ UNCHANGED holder
  ELSE TaskOver(c)

\* One command is refused or cannot run: an error of its own in a batch, which
\* ends where the shell still runs another command, the end of any other call.
ItemFails(c) ==
  \/ Tool(c) = "batch" /\ ItemOver(c)
  \/ Tool(c) = "batch" /\ ~shell.up /\ TaskOver(c)
  \/ Tool(c) # "batch" /\ CallOver(c)
-----------------------------------------------------------------------------
(* The handlers, up to the queue.                                          *)

\* A handler is entered.  The same request is made again with confirm:true only
\* after its commands were shown to the user.
Call(c, r, yes) ==
  /\ calls[c].at = "idle"
  /\ yes => shown[r] # {}
  /\ IF r.tool = "disarm" \/ Ready
     THEN /\ calls' = [calls EXCEPT ![c].at = IF r.tool \in {"exec", "run", "batch"} THEN "gating" ELSE "queued",
                                    ![c].req = r, ![c].yes = yes]
          /\ grant' = (grant /\ r.tool \notin {"disarm", "close"})
     ELSE /\ calls' = [calls EXCEPT ![c].at = "done", ![c].req = r]
          /\ UNCHANGED grant
  /\ UNCHANGED <<policy, shell, holder, cache, shown, runs>>

\* enter checks its target before it queues.
OutOfScope(c) ==
  /\ calls[c].at = "queued" /\ Tool(c) = "enter"
  /\ ~TargetAllowed(Task(c).target)
  /\ CallOver(c)
  /\ UNCHANGED <<policy, grant, shell, cache, shown, runs>>

\* The rules are applied, and the judge is asked about what they leave open.
\* gateCommand verifies the target it stands on before it goes any further.
Gate(c) ==
  LET gated == [k \in DOMAIN Task(c).items |-> Ruled(Task(c).items[k])]
      refused == \/ ~TargetAllowed(Task(c).target)
                 \/ /\ Tool(c) = "exec" /\ gated[1].how # "free"
                    /\ Item(c).risk \in {"MODIFY", "DANGEROUS", "UNKNOWN"}
                    /\ ~Verified
                 \/ Tool(c) # "batch" /\ gated[1].how = "blocked"
  IN /\ calls[c].at = "gating"
     /\ IF refused THEN TaskOver(c)
        ELSE /\ calls' = [calls EXCEPT ![c].at = "judging", ![c].gated = gated,
                                       ![c].seen = IF Tool(c) = "exec" THEN shell.target ELSE NoTarget]
             /\ UNCHANGED holder
     /\ UNCHANGED <<policy, grant, shell, cache, shown, runs>>

\* The service answers about one command, or fails in whatever way.
Answer(c, k, resp) ==
  LET verdict == Parse(resp) IN
  /\ calls[c].at = "judging"
  /\ calls[c].gated[k].verdict = Asking
  /\ calls' = [calls EXCEPT ![c].gated[k].verdict = verdict]
  /\ cache' = IF verdict = NoVerdict THEN cache ELSE [cache EXCEPT ![Task(c).items[k].key] = verdict]
  /\ UNCHANGED <<policy, grant, shell, holder, shown, runs>>

NoAnswer(c, k) ==
  /\ calls[c].at = "judging"
  /\ calls[c].gated[k].verdict = Asking
  /\ calls' = [calls EXCEPT ![c].gated[k].verdict = NoVerdict]
  /\ UNCHANGED <<policy, grant, shell, holder, cache, shown, runs>>

\* Every opinion is in: what the judge cannot settle needs the user.  exec asks
\* here, the others once they are on the asset; a batch shares one prompt.
Settle(c) ==
  LET items == Task(c).items
      gated == [k \in DOMAIN items |-> IF calls[c].gated[k].how # "ask" THEN calls[c].gated[k]
                 ELSE [calls[c].gated[k] EXCEPT !.how = Judged(items[k], calls[c].gated[k].verdict)]]
      canGroup == /\ Cardinality(Pending(gated)) \in 2..GroupLimit
                  /\ \A k \in Pending(gated) : ~items[k].long
      settled(place) == calls' = [calls EXCEPT ![c].at = place, ![c].gated = gated,
                                    ![c].group = IF canGroup THEN "pending" ELSE "none"]
  IN /\ calls[c].at = "judging"
     /\ \A k \in DOMAIN calls[c].gated : calls[c].gated[k].verdict # Asking
     /\ CASE Tool(c) # "exec"                       -> settled("queued") /\ UNCHANGED shown
          [] Tool(c) = "exec" /\ gated[1].how = "ask" /\ ~calls[c].yes
                                                    -> settled("done") /\ Shows(c, {Item(c)})
          [] OTHER                                  -> settled("scoping") /\ UNCHANGED shown
     /\ UNCHANGED <<policy, grant, shell, holder, cache, runs>>

\* exec checks the asset it stands on, with the gate behind it.
Scope(c) ==
  /\ calls[c].at = "scoping"
  /\ Goes(c, IF TargetAllowed(shell.target) THEN "queued" ELSE "done")
  /\ UNCHANGED <<policy, grant, shell, holder, cache, shown, runs>>
-----------------------------------------------------------------------------
(* The turn on the session.                                                *)

Gone == [target |-> NoTarget, up |-> FALSE]

\* leave, close and disarm: the session is on no asset afterwards.
TurnAway(c) ==
  /\ calls[c].at = "queued" /\ holder = NoCall
  /\ Tool(c) \in {"leave", "close", "disarm"}
  /\ shell' = Gone
  /\ Goes(c, "done")
  /\ UNCHANGED <<policy, grant, holder, cache, shown, runs>>

\* session.exec, for c with the locals `locals`: the shell has to be up as the
\* command is typed.
Types(c, locals) ==
  IF shell.up
  THEN /\ runs' = runs \cup {[call |-> c, task |-> calls[c].task, cmd |-> Item(c), how |-> How(c),
                              verdict |-> calls[c].gated[calls[c].item].verdict,
                              target |-> shell.target, listed |-> Item(c) \in shown[calls[c].req]]}
       /\ holder' = c
       /\ calls' = [locals EXCEPT ![c].at = "running"]
  ELSE ItemFails(c) /\ UNCHANGED runs

\* exec: the shell it finds when its turn comes.
TurnExec(c) ==
  /\ calls[c].at = "queued" /\ holder = NoCall
  /\ Tool(c) = "exec"
  /\ Types(c, calls)
  /\ UNCHANGED <<policy, grant, shell, cache, shown>>

\* navigateToTarget: already there, or out of the old asset and into the new.
Arrivals(target) ==
  IF shell.up /\ shell.target = target THEN {shell} ELSE {[target |-> target, up |-> TRUE]}

\* enter, run and batch: connected when need be, then on to the asset.
TurnNavigate(c) ==
  /\ calls[c].at = "queued" /\ holder = NoCall
  /\ Tool(c) \in {"enter", "run", "batch"}
  /\ TargetAllowed(Task(c).target)
  /\ shell' \in Arrivals(Task(c).target)
  /\ IF Tool(c) = "enter" THEN UNCHANGED holder /\ Goes(c, "done")
     ELSE holder' = c /\ Goes(c, "on")
  /\ UNCHANGED <<policy, grant, cache, shown, runs>>

TurnFails(c) ==
  /\ calls[c].at = "queued" /\ holder = NoCall
  /\ Tool(c) \in {"enter", "run", "batch"}
  /\ shell' = Gone
  /\ TaskOver(c)
  /\ UNCHANGED <<policy, grant, cache, shown, runs>>

\* assertTargetBinding: a batch ends where the session is no longer on its
\* target, a refusal of the rules ends one command.
Binding(c) ==
  /\ calls[c].at = "on"
  /\ CASE shell.target # Task(c).target -> TaskOver(c)
       [] shell.target = Task(c).target /\ How(c) = "blocked" -> ItemOver(c)
       [] OTHER -> Goes(c, "asking") /\ UNCHANGED holder
  /\ UNCHANGED <<policy, grant, shell, cache, shown, runs>>

\* The existence probe of a batch finds no such command.
Missing(c) ==
  /\ calls[c].at = "asking" /\ Tool(c) = "batch" /\ Verified
  /\ ItemOver(c)
  /\ UNCHANGED <<policy, grant, shell, cache, shown, runs>>

\* beforeExec of a command that needs no prompt.
Unasked(c) ==
  /\ calls[c].at = "asking"
  /\ How(c) \in {"free", "auto"}
  /\ IF How(c) = "auto" /\ ~Verified THEN ItemFails(c) /\ UNCHANGED runs ELSE Types(c, calls)
  /\ UNCHANGED <<policy, grant, shell, cache, shown>>

\* beforeExec of a command with a prompt of its own: askApproval.
AskOne(c) ==
  /\ calls[c].at = "asking"
  /\ How(c) = "ask" /\ calls[c].group = "none"
  /\ IF Verified /\ calls[c].yes THEN Types(c, calls) ELSE ItemFails(c) /\ UNCHANGED runs
  /\ IF Verified /\ ~calls[c].yes THEN Shows(c, {Item(c)}) ELSE UNCHANGED shown
  /\ UNCHANGED <<policy, grant, shell, cache>>

\* requestApproval for a group
GroupAnswer(c) == IF calls[c].yes THEN "approved" ELSE "failed"

\* approveGroup, the first time: the target is verified, then the user asked
\* about all of it.  A target that cannot be verified settles nothing.
AskGroup(c) ==
  LET listed == {Task(c).items[k] : k \in Pending(calls[c].gated)}
      answered == [calls EXCEPT ![c].group = GroupAnswer(c)]
  IN /\ calls[c].at = "asking"
     /\ How(c) = "ask" /\ calls[c].group = "pending"
     /\ CASE ~Verified -> ItemFails(c) /\ UNCHANGED <<shown, runs>>
          [] Verified /\ calls[c].yes -> Types(c, answered) /\ UNCHANGED shown
          [] OTHER ->
               /\ Shows(c, listed)
               /\ IF calls[c].item < Len(Task(c).items)
                  THEN calls' = [answered EXCEPT ![c].at = "on", ![c].item = @ + 1] /\ UNCHANGED holder
                  ELSE TaskOver(c)
               /\ UNCHANGED runs
     /\ UNCHANGED <<policy, grant, shell, cache>>

\* approveGroup, from then on: the answer stands.
AskAgain(c) ==
  /\ calls[c].at = "asking"
  /\ How(c) = "ask" /\ calls[c].group \in {"approved", "failed"}
  /\ IF calls[c].group = "approved" THEN Types(c, calls) ELSE ItemFails(c) /\ UNCHANGED runs
  /\ UNCHANGED <<policy, grant, shell, cache, shown>>

\* The command returns, or is given up in one way or another.
Return(c) ==
  /\ calls[c].at = "running"
  /\ shell' \in {shell, [shell EXCEPT !.up = FALSE], Gone}
  /\ ItemOver(c)
  /\ UNCHANGED <<policy, grant, cache, shown, runs>>

\* The request is cancelled while it waits or between two commands.
Cancel(c) ==
  /\ calls[c].at \in {"queued", "on"}
  /\ CallOver(c)
  /\ UNCHANGED <<policy, grant, shell, cache, shown, runs>>
-----------------------------------------------------------------------------
(* What the calls do not do.                                               *)

\* jumpserver_arm
Arm == /\ policy.requireArm /\ ~grant
       /\ grant' = TRUE
       /\ UNCHANGED <<policy, shell, holder, calls, cache, shown, runs>>

\* The window of a grant closes, or an account switch revokes it.
Revoke == /\ grant
          /\ grant' = FALSE
          /\ UNCHANGED <<policy, shell, holder, calls, cache, shown, runs>>

\* A verdict outlives its TTL or is the oldest of too many.
Forget(k) == /\ cache[k] # NoVerdict
             /\ cache' = [cache EXCEPT ![k] = NoVerdict]
             /\ UNCHANGED <<policy, grant, shell, holder, calls, shown, runs>>

\* The transport is lost.
Drop == /\ shell # Gone
        /\ shell' = Gone
        /\ UNCHANGED <<policy, grant, holder, calls, cache, shown, runs>>

Handler(c) ==
  \/ OutOfScope(c) \/ Gate(c) \/ Settle(c) \/ Scope(c)
  \/ TurnAway(c) \/ TurnExec(c) \/ TurnNavigate(c) \/ TurnFails(c)
  \/ Binding(c) \/ Unasked(c) \/ AskOne(c) \/ AskGroup(c) \/ AskAgain(c) \/ Missing(c) \/ Return(c)
Opinion(c) ==
  \E k \in DOMAIN calls[c].gated : NoAnswer(c, k) \/ \E resp \in Responses : Answer(c, k, resp)

Next == \/ \E c \in Calls : \/ \E r \in Requests, yes \in BOOLEAN : Call(c, r, yes)
                            \/ Handler(c) \/ Opinion(c) \/ Cancel(c)
        \/ Arm \/ Revoke \/ Drop
        \/ \E k \in Keys : Forget(k)

Spec == Init /\ [][Next]_vars
-----------------------------------------------------------------------------
Verdicts == [state : {"none", "asking", "given"}, met : SUBSET Questions]
Rulings == [how : {"free", "blocked", "ask", "auto"}, verdict : Verdicts]
CallType ==
  [at    : {"idle", "gating", "judging", "scoping", "queued", "on", "asking", "running", "done"},
   req   : Requests \cup {NoRequest}, yes : BOOLEAN, task : Nat, item : Nat, gated : Seq(Rulings),
   group : {"none", "pending", "approved", "failed"}, seen : Targets \cup {NoTarget}]
RunType ==
  [call : Calls, task : Nat, cmd : Commands, how : {"free", "blocked", "ask", "auto"},
   verdict : Verdicts, target : Targets \cup {NoTarget}, listed : BOOLEAN]

TypeOK ==
  /\ policy \in Policies
  /\ grant \in BOOLEAN
  /\ shell \in [target : Targets \cup {NoTarget}, up : BOOLEAN]
  /\ holder \in Calls \cup {NoCall}
  /\ calls \in [Calls -> CallType]
  /\ cache \in [Keys -> Verdicts]
  /\ shown \in [Requests -> SUBSET Commands]
  /\ runs \subseteq RunType

\* What was typed into a shell had a right to be: the mode allows its risk
\* outright, or the user said yes, or it is UNKNOWN and the judge let it pass
\* where the mode would have asked.  Between the rules and the shell lie the
\* judge, the cache, a group prompt and a queue (permission-gate.ts,
\* permission.ts:30).
WithinTheMatrix ==
  \A run \in runs :
    \/ Decision(run.cmd.risk) = "allow"
    \/ /\ Decision(run.cmd.risk) = "COMMAND_APPROVAL_REQUIRED"
       /\ \/ run.how = "ask" /\ calls[run.call].yes
          \/ run.how = "auto" /\ run.cmd.risk = "UNKNOWN"

\* A command that ran unattended was backed by a verdict that met every
\* threshold, is no composition, interpreter or opaque syntax, and auto-allow
\* was on: no failure of the judge, no other command's verdict and no stale
\* cache entry stands in for one (risk-judge.ts:17-28, decideAutoAllow).
UnattendedIsBacked ==
  \A run \in runs : run.how = "auto" =>
    /\ policy.judge /\ policy.autoAllow
    /\ run.cmd.plain
    /\ run.verdict.met = Questions

\* What run and batch type runs on the asset they were asked for, and nothing at
\* all runs on a denied one, whatever other calls and the transport did to the
\* shell in between (session-manager.ts assertTargetBinding, target-scope.ts).
OnItsOwnTarget ==
  \A run \in runs :
    LET req == calls[run.call].req IN
    /\ req.tool # "exec" => run.target = req.tasks[run.task].target
    /\ \A entry \in policy.denied : run.target \notin entry

\* Known not to hold: what ran on the user's word is what the user was shown,
\* after the approval only the commands listed above are executed
\* (permission-gate.ts:119). The retried call is judged anew, and what the
\* judge let pass the first time may need the approval the second time.
ApprovedWasListed == \A run \in runs : run.how = "ask" => run.listed
=============================================================================
