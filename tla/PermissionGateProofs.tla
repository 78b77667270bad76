------------------------ MODULE PermissionGateProofs ------------------------
(***************************************************************************)
(* For any requests, configurations, judge's answers and numbers of calls: *)
(* what is typed into a shell had a right to be, what ran unattended was   *)
(* backed by a verdict, and everything ran on its own target.              *)
(*                                                                         *)
(* None of this is inductive.  A right is found at the gate and used much  *)
(* later, behind the judge, a prompt and a queue, so the invariant follows *)
(* it there: a call under way stands at a command of its request (Placed), *)
(* each of its commands still carries a ruling the mode and the judge can  *)
(* have made (Ruling), the user was asked wherever that says so (Asked),   *)
(* and between the check of its target and the typing nobody else has the  *)
(* session (Turned).  Of a run it remembers all this (Rightful); the rest  *)
(* is that the shell never stands on a denied asset.                       *)
(***************************************************************************)
EXTENDS PermissionGate, TLAPS

\* The tools that run commands, and the places of a call that is under way.
Gated == {"exec", "run", "batch"}
Under == {"gating", "judging", "scoping", "queued", "on", "asking", "running"}

(* A call under way has a task and, where it runs commands, a command.      *)
Placed(c) ==
  /\ IF calls[c].at = "idle" THEN calls[c] = Idle ELSE calls[c].req \in Requests
  /\ calls[c].at \in Under \ {"queued"} => Tool(c) \in Gated
  /\ calls[c].at \in Under => calls[c].task \in DOMAIN calls[c].req.tasks
  /\ calls[c].at \in Under /\ Tool(c) \in Gated => calls[c].item \in DOMAIN Task(c).items

(* What the rules and the judge may have made of a command.                 *)
Backed(cmd, g) ==
  /\ g.how = "free" => Decision(cmd.risk) = "allow"
  /\ g.how \in {"ask", "auto"} => Decision(cmd.risk) = "COMMAND_APPROVAL_REQUIRED"
  /\ g.how = "auto" => cmd.risk = "UNKNOWN" /\ AutoAllowed(cmd, g.verdict)
  /\ g.verdict # NoVerdict => policy.judge

(* They have ruled on each command of a call that is past the gate.         *)
Ruling(c) ==
  calls[c].at \in Under \ {"gating"} /\ Tool(c) \in Gated =>
    /\ DOMAIN calls[c].gated = DOMAIN Task(c).items
    /\ \A k \in DOMAIN Task(c).items : Backed(Task(c).items[k], calls[c].gated[k])
    /\ Tool(c) # "batch" => calls[c].gated[1].how # "blocked"

(* Where the user's word is needed it has been given.                       *)
Asked(c) ==
  /\ calls[c].group = "approved" => calls[c].yes
  /\ calls[c].at \in {"scoping", "queued"} /\ Tool(c) = "exec" /\ How(c) = "ask" => calls[c].yes
  /\ calls[c].at = "asking" => How(c) # "blocked"

(* A call between its turn's start and end holds the session, and is about  *)
(* to type on its own target.                                               *)
Turned(c) ==
  /\ calls[c].at \in {"on", "asking", "running"} => holder = c
  /\ calls[c].at = "asking" /\ Tool(c) # "exec" /\ shell.up => shell.target = Task(c).target

InPlace(c) == Placed(c) /\ Ruling(c) /\ Asked(c) /\ Turned(c)

(* What is remembered of a run.                                             *)
Rightful(run) ==
  /\ Backed(run.cmd, run) /\ run.how # "blocked"
  /\ run.how = "ask" => calls[run.call].yes
  /\ calls[run.call].at # "idle"
  /\ calls[run.call].req.tool # "exec" =>
       run.target = calls[run.call].req.tasks[run.task].target
  /\ TargetAllowed(run.target)

IInv ==
  /\ TypeOK
  /\ \A c \in Calls : InPlace(c)
  /\ \A run \in runs : Rightful(run)
  /\ TargetAllowed(shell.target)
-----------------------------------------------------------------------------
(* Helpers.                                                                *)

(* The two marks that are no verdict are verdict-shaped, and whatever the   *)
(* service answers is read as a verdict or as none.                        *)
LEMMA VerdictTyped ==
    /\ NoVerdict \in Verdicts /\ Asking \in Verdicts /\ Asking # NoVerdict
    /\ \A resp : Parse(resp) \in Verdicts
BY DEF NoVerdict, Asking, Verdicts, Parse

(* An opinion is asked for or remembered only where there is a judge.      *)
LEMMA FirstOpinionTyped ==
    ASSUME TypeOK, NEW cmd \in Commands
    PROVE  /\ FirstOpinion(cmd) \in Verdicts
           /\ FirstOpinion(cmd) # NoVerdict => policy.judge
  <1>1. cmd.key \in Keys
    BY DEF Keys
  <1>2. QED
    BY <1>1, VerdictTyped DEF FirstOpinion, TypeOK

(* A mode allows, blocks or asks.                                          *)
LEMMA DecisionTyped ==
    ASSUME TypeOK, NEW risk
    PROVE  Decision(risk) \in {"allow", "COMMAND_BLOCKED", "COMMAND_APPROVAL_REQUIRED"}
BY PolicyAssumption DEF Decision, TypeOK

(* The rules as they are first applied.                                    *)
LEMMA RuledTyped ==
    ASSUME TypeOK, NEW cmd \in Commands
    PROVE  Ruled(cmd) \in Rulings /\ Backed(cmd, Ruled(cmd))
  <1>1. CASE Decision(cmd.risk) = "allow"
    BY <1>1, VerdictTyped DEF Ruled, Rulings, Backed
  <1>2. CASE Decision(cmd.risk) = "COMMAND_BLOCKED"
    BY <1>2, VerdictTyped DEF Ruled, Rulings, Backed
  <1>3. CASE Decision(cmd.risk) = "COMMAND_APPROVAL_REQUIRED"
    BY <1>3, FirstOpinionTyped DEF Ruled, Rulings, Backed
  <1>4. QED
    BY <1>1, <1>2, <1>3, DecisionTyped

(* The judge turns a question into an unattended run only where the rules   *)
(* for that are met.                                                       *)
LEMMA JudgedTyped ==
    ASSUME NEW cmd, NEW g \in Rulings, g.how = "ask", Backed(cmd, g)
    PROVE  LET s == [g EXCEPT !.how = Judged(cmd, g.verdict)] IN
             s \in Rulings /\ Backed(cmd, s) /\ s.how # "blocked"
BY DEF Judged, Rulings, Backed

(* Another verdict about a question leaves the question.                   *)
LEMMA AnsweredTyped ==
    ASSUME NEW cmd, NEW g \in Rulings, NEW v \in Verdicts,
           Backed(cmd, g), g.verdict = Asking
    PROVE  LET s == [g EXCEPT !.verdict = v] IN
             s \in Rulings /\ Backed(cmd, s) /\ s.how = g.how
  <1>1. policy.judge
    BY VerdictTyped DEF Backed
  <1>2. g.how # "auto"
    BY DEF Backed, AutoAllowed, Asking, Questions
  <1>3. QED
    BY <1>1, <1>2 DEF Rulings, Backed

(* A task whose commands are run has a first one.                          *)
LEMMA FirstItem ==
    ASSUME NEW r \in Requests, r.tool \in Gated, NEW i \in 1 .. Len(r.tasks)
    PROVE  1 \in DOMAIN r.tasks[i].items
  <1> DEFINE T == [target : Targets \cup {NoTarget}, items : Seq(Commands)]
             t == r.tasks[i]
  <1>1. r.tasks \in Seq(T)
    BY RequestAssumption
  <1> HIDE DEF T
  <1>2. t \in T
    BY <1>1
  <1>3. t.items # <<>> \/ Len(t.items) = 1
    BY <1>1, RequestAssumption DEF Gated
  <1> HIDE DEF t
  <1>4. 1 \in DOMAIN t.items
    BY <1>2, <1>3 DEF T
  <1>5. QED
    BY <1>4 DEF t

(* Where a call stands: its task, its commands, the one it is at.          *)
LEMMA Whereabouts ==
    ASSUME IInv, NEW c \in Calls, calls[c].at \in Under
    PROVE  /\ calls[c].req \in Requests
           /\ calls[c].task \in 1 .. Len(calls[c].req.tasks)
           /\ Task(c) \in [target : Targets \cup {NoTarget}, items : Seq(Commands)]
           /\ Tool(c) \in Gated =>
                /\ calls[c].item \in 1 .. Len(Task(c).items)
                /\ Item(c) \in Commands
           /\ Tool(c) \in {"exec", "run"} => Len(Task(c).items) = 1
  <1>1. calls[c].req \in Requests /\ calls[c].task \in DOMAIN calls[c].req.tasks
    BY DEF IInv, InPlace, Placed, Under
  <1>2. calls[c].task \in 1 .. Len(calls[c].req.tasks)
    BY <1>1, RequestAssumption
  <1>3. Task(c) \in [target : Targets \cup {NoTarget}, items : Seq(Commands)]
    <2> DEFINE T == [target : Targets \cup {NoTarget}, items : Seq(Commands)]
    <2>1. calls[c].req.tasks \in Seq(T)
      BY <1>1, RequestAssumption
    <2> HIDE DEF T
    <2>2. Task(c) \in T
      BY <1>2, <2>1 DEF Task
    <2>3. QED
      BY <2>2 DEF T
  <1>4. Tool(c) \in {"exec", "run"} => Len(Task(c).items) = 1
    BY <1>1, RequestAssumption DEF Task, Tool
  <1>5. ASSUME Tool(c) \in Gated
        PROVE  calls[c].item \in 1 .. Len(Task(c).items) /\ Item(c) \in Commands
    BY <1>3, <1>5 DEF IInv, InPlace, Placed, Item
  <1>6. QED
    BY <1>1, <1>2, <1>3, <1>4, <1>5
-----------------------------------------------------------------------------
(* Steps.                                                                  *)

(* A step of one call: its locals keep their shape and what they are about, *)
(* it ends up in place, and no other call is touched or loses the session.  *)
Moves(c) ==
  /\ calls' \in [Calls -> CallType] /\ holder' \in Calls \cup {NoCall}
  /\ \A d \in Calls \ {c} : calls'[d] = calls[d] /\ (holder = d => holder' = d)
  /\ calls'[c].at # "idle"
  /\ calls[c].at # "idle" => calls'[c].req = calls[c].req /\ calls'[c].yes = calls[c].yes
  /\ InPlace(c)'

(* Such a step keeps the invariant when it stays in scope, types only what   *)
(* it may, and changes the shell only in its own turn.                     *)
LEMMA StepKeeps ==
    ASSUME IInv, NEW c \in Calls, Moves(c), TypeOK', policy' = policy,
           shell' = shell \/ ~shell'.up \/ holder \in {c, NoCall},
           TargetAllowed(shell.target)',
           \A run \in runs' \ runs : Rightful(run)'
    PROVE  IInv'
  <1>1. ASSUME NEW d \in Calls \ {c} PROVE InPlace(d)'
    <2>1. calls'[d] = calls[d] /\ (holder = d => holder' = d) /\ InPlace(d)
      BY DEF Moves, IInv
    <2>2. Placed(d)'
      BY <2>1 DEF InPlace, Placed, Tool, Task
    <2>3. Ruling(d)'
      BY ZenonT(40), <2>1 DEF InPlace, Ruling, Tool, Task, Backed, Decision, AutoAllowed
    <2>4. Asked(d)'
      BY <2>1 DEF InPlace, Asked, Tool, How
    <2>5. Turned(d)'
      BY <2>1, CallAssumption DEF InPlace, Turned, Tool, Task
    <2>6. QED
      BY <2>2, <2>3, <2>4, <2>5 DEF InPlace
  <1>2. ASSUME NEW run \in runs PROVE Rightful(run)'
    <2>1. Rightful(run) /\ run.call \in Calls
      BY DEF IInv, TypeOK, RunType
    <2>2. /\ calls'[run.call].at # "idle" /\ calls'[run.call].yes = calls[run.call].yes
          /\ calls'[run.call].req = calls[run.call].req
      BY <2>1 DEF Moves, Rightful
    <2>3. QED
      BY <2>1, <2>2 DEF Rightful, Backed, Decision, AutoAllowed, TargetAllowed
  <1>3. QED
    BY <1>1, <1>2 DEF IInv, Moves

(* What was ruled stays ruled while the call stays with its task.          *)
LEMMA RulingStays ==
    ASSUME NEW c \in Calls, Ruling(c), calls[c].at \in Under \ {"gating"}, policy' = policy,
           calls'[c].gated = calls[c].gated, calls'[c].req = calls[c].req,
           calls'[c].task = calls[c].task
    PROVE  Ruling(c)'
BY ZenonT(40), SMTT(30) DEF Ruling, Tool, Task, Backed, Decision, AutoAllowed

(* A ruling made anew holds after the step: the configuration never changes. *)
LEMMA RulingAnew ==
    ASSUME NEW c \in Calls, policy' = policy,
           DOMAIN calls'[c].gated = DOMAIN Task(c)'.items,
           \A k \in DOMAIN Task(c)'.items : Backed(Task(c)'.items[k], calls'[c].gated[k]),
           Tool(c)' # "batch" => calls'[c].gated[1].how # "blocked"
    PROVE  Ruling(c)'
BY DEF Ruling, Backed, Decision, AutoAllowed

(* A call that is over is in place.                                        *)
LEMMA CallOverMoves ==
    ASSUME IInv, NEW c \in Calls, calls[c].at \in Under, CallOver(c)
    PROVE  Moves(c)
  <1>1. calls \in [Calls -> CallType] /\ InPlace(c)
    BY DEF IInv, TypeOK
  <1> DEFINE l == [calls[c] EXCEPT !.at = "done"]
  <1>2. calls' = [calls EXCEPT ![c] = l] /\ l \in CallType
    BY <1>1 DEF CallOver, Goes, CallType
  <1>3. calls' \in [Calls -> CallType] /\ calls'[c] = l
    BY <1>1, <1>2
  <1>4. InPlace(c)'
    BY <1>1, <1>3 DEF CallType, InPlace, Placed, Ruling, Asked, Turned, Under
  <1>5. QED
    BY <1>1, <1>2, <1>3, <1>4 DEF Moves, CallOver, IInv, TypeOK, CallType

(* So is one that goes on to its next task.                                *)
LEMMA TaskOverMoves ==
    ASSUME IInv, NEW c \in Calls, calls[c].at \in Under, TaskOver(c)
    PROVE  Moves(c)
  <1>1. calls \in [Calls -> CallType] /\ InPlace(c)
    BY DEF IInv, TypeOK
  <1>2. CASE Tool(c) = "batch" /\ calls[c].task < Len(calls[c].req.tasks)
    <2> DEFINE l == [calls[c] EXCEPT !.at = "gating", !.task = @ + 1, !.item = 1,
                                     !.gated = <<>>, !.group = "none"]
    <2>1. calls' = [calls EXCEPT ![c] = l]
      BY <1>1, <1>2 DEF TaskOver
    <2>2. l \in CallType
      <3>1. <<>> \in Seq(Rulings) /\ calls[c] \in CallType
        BY <1>1
      <3>2. calls[c].task + 1 \in Nat
        BY <3>1 DEF CallType
      <3>3. QED
        BY <3>1, <3>2 DEF CallType
    <2>3. calls' \in [Calls -> CallType] /\ calls'[c] = l
      BY <1>1, <2>1, <2>2
    <2>4. InPlace(c)'
      <3>1. calls[c].task + 1 \in 1 .. Len(calls[c].req.tasks) /\ calls[c].req \in Requests
        BY <1>2, Whereabouts
      <3>2. 1 \in DOMAIN calls[c].req.tasks[calls[c].task + 1].items
        BY <1>2, <3>1, FirstItem DEF Tool, Gated
      <3>3. Placed(c)'
        BY <1>1, <1>2, <2>3, <3>1, <3>2 DEF CallType, Placed, Tool, Task, Under, Gated
      <3>4. QED
        BY <1>1, <2>3, <3>3 DEF CallType, InPlace, Ruling, Asked, Turned, Under
    <2>5. /\ holder' \in Calls \cup {NoCall}
          /\ \A d \in Calls \ {c} : calls'[d] = calls[d] /\ (holder = d => holder' = d)
      BY <1>1, <2>1 DEF TaskOver, IInv, TypeOK
    <2>6. calls'[c].at # "idle" /\ calls'[c].req = calls[c].req /\ calls'[c].yes = calls[c].yes
      BY <1>1, <2>3 DEF CallType
    <2>7. QED
      BY <2>3, <2>4, <2>5, <2>6 DEF Moves
  <1>3. CASE ~(Tool(c) = "batch" /\ calls[c].task < Len(calls[c].req.tasks))
    <2>1. CallOver(c)
      BY <1>3 DEF TaskOver, CallOver, Goes
    <2>2. QED
      BY <2>1, CallOverMoves
  <1>4. QED
    BY <1>2, <1>3

(* And one that goes on to its next command.                               *)
LEMMA ItemOverMoves ==
    ASSUME IInv, NEW c \in Calls, calls[c].at \in {"on", "asking", "running"},
           policy' = policy, ItemOver(c)
    PROVE  Moves(c)
  <1>1. calls \in [Calls -> CallType] /\ InPlace(c) /\ calls[c].at \in Under
    BY DEF IInv, TypeOK, Under
  <1>2. CASE calls[c].item < Len(Task(c).items)
    <2> DEFINE l == [calls[c] EXCEPT !.at = "on", !.item = @ + 1]
    <2>1. calls' = [calls EXCEPT ![c] = l] /\ l \in CallType /\ holder' = holder
      BY <1>1, <1>2 DEF ItemOver, CallType
    <2>2. calls' \in [Calls -> CallType] /\ calls'[c] = l
      BY <1>1, <2>1
    <2>3. Tool(c) \in Gated /\ holder = c
      BY <1>1 DEF InPlace, Placed, Turned, Under
    <2>4. calls[c].item + 1 \in DOMAIN Task(c).items
      BY <1>1, <1>2, <2>3, Whereabouts
    <2>5. Placed(c)'
      BY <1>1, <2>2, <2>3, <2>4 DEF InPlace, CallType, Placed, Tool, Task, Under
    <2>6. Ruling(c)'
      <3>1. /\ calls'[c].gated = calls[c].gated /\ calls'[c].req = calls[c].req
            /\ calls'[c].task = calls[c].task
        BY <1>1, <2>2 DEF CallType
      <3>2. calls[c].at \in Under \ {"gating"}
        BY DEF Under
      <3>3. QED
        BY <1>1, <3>1, <3>2, RulingStays DEF InPlace
    <2>7. Asked(c)' /\ Turned(c)'
      BY <1>1, <2>1, <2>2, <2>3 DEF InPlace, CallType, Asked, Turned
    <2>8. QED
      BY <1>1, <2>1, <2>2, <2>5, <2>6, <2>7 DEF Moves, InPlace, IInv, TypeOK, CallType
  <1>3. CASE ~(calls[c].item < Len(Task(c).items))
    BY <1>1, <1>3, TaskOverMoves DEF ItemOver
  <1>4. QED
    BY <1>2, <1>3

(* And one that goes on after the user was asked about its group in vain.  *)
LEMMA FailedGroupMoves ==
    ASSUME IInv, NEW c \in Calls, calls[c].at = "asking", policy' = policy, holder' = holder,
           ~calls[c].yes, calls[c].item < Len(Task(c).items),
           calls' = [[calls EXCEPT ![c].group = GroupAnswer(c)]
                       EXCEPT ![c].at = "on", ![c].item = @ + 1]
    PROVE  Moves(c)
  <1> DEFINE l == [calls[c] EXCEPT !.group = "failed", !.at = "on", !.item = @ + 1]
  <1>1. /\ calls \in [Calls -> CallType] /\ InPlace(c) /\ calls[c] \in CallType
        /\ calls[c].at \in Under \ {"gating"} /\ holder \in Calls \cup {NoCall}
    BY DEF IInv, TypeOK, Under
  <1>2. calls' = [calls EXCEPT ![c] = l]
    BY <1>1 DEF GroupAnswer, CallType
  <1>3. l \in CallType
    BY <1>1 DEF CallType
  <1>4. calls' \in [Calls -> CallType] /\ calls'[c] = l
    BY ZenonT(40), <1>1, <1>2, <1>3
  <1>5. /\ calls'[c].at = "on" /\ calls'[c].gated = calls[c].gated
        /\ calls'[c].req = calls[c].req /\ calls'[c].task = calls[c].task
        /\ calls'[c].item = calls[c].item + 1 /\ calls'[c].group = "failed"
        /\ calls'[c].yes = calls[c].yes
    BY <1>1, <1>4 DEF CallType
  <1>6. Tool(c) \in Gated /\ holder = c
    BY <1>1 DEF InPlace, Placed, Turned, Under
  <1>7. calls[c].item + 1 \in DOMAIN Task(c).items
    BY <1>1, <1>6, Whereabouts
  <1>8. Placed(c)'
    BY <1>1, <1>5, <1>6, <1>7 DEF InPlace, Placed, Tool, Task, Under
  <1>9. Ruling(c)'
    BY <1>1, <1>5, RulingStays DEF InPlace
  <1>10. Asked(c)' /\ Turned(c)'
    BY <1>5, <1>6 DEF Asked, Turned
  <1>11. QED
    BY <1>1, <1>2, <1>4, <1>5, <1>8, <1>9, <1>10 DEF Moves, InPlace

(* And one whose command fails.                                            *)
LEMMA ItemFailsMoves ==
    ASSUME IInv, NEW c \in Calls, calls[c].at \in Under, policy' = policy,
           calls[c].at \in {"on", "asking", "running"} \/ Tool(c) # "batch", ItemFails(c)
    PROVE  Moves(c)
BY ItemOverMoves, TaskOverMoves, CallOverMoves DEF ItemFails

(* What is typed is what the rules, the judge or the user let through, and   *)
(* where it was meant to.                                                  *)
LEMMA TypesMoves ==
    ASSUME IInv, NEW c \in Calls, policy' = policy, shell' = shell,
           \/ Types(c, calls)
           \/ calls[c].yes /\ Types(c, [calls EXCEPT ![c].group = "approved"]),
           \/ calls[c].at = "queued" /\ Tool(c) = "exec" /\ holder = NoCall
           \/ calls[c].at = "asking",
           How(c) # "blocked", How(c) = "ask" => calls[c].yes
    PROVE  /\ Moves(c) /\ runs' \subseteq RunType
           /\ \A run \in runs' \ runs : Rightful(run)'
  <1>1. /\ calls \in [Calls -> CallType] /\ InPlace(c) /\ calls[c].at \in Under \ {"gating"}
        /\ runs \subseteq RunType /\ shell.target \in Targets \cup {NoTarget}
    BY DEF IInv, TypeOK, Under
  <1>2. CASE ~shell.up
    <2>1. ItemFails(c) /\ runs' = runs
      BY <1>2 DEF Types
    <2>2. QED
      BY <1>1, <2>1, ItemFailsMoves
  <1>3. CASE shell.up
    <2> DEFINE l(g) == [calls[c] EXCEPT !.at = "running", !.group = g]
               new == [call |-> c, task |-> calls[c].task, cmd |-> Item(c), how |-> How(c),
                       verdict |-> calls[c].gated[calls[c].item].verdict,
                       target |-> shell.target, listed |-> Item(c) \in shown[calls[c].req]]
    <2>1. Tool(c) \in Gated
      BY <1>1 DEF InPlace, Placed, Under, Gated
    <2>2. PICK g \in {calls[c].group, "approved"} :
            (g = "approved" => calls[c].yes) /\ calls' = [calls EXCEPT ![c] = l(g)]
      <3>1. CASE Types(c, calls)
        <4>1. calls' = [calls EXCEPT ![c] = l(calls[c].group)]
          BY <1>1, <1>3, <3>1 DEF Types, CallType
        <4>2. QED
          BY <1>1, <4>1 DEF InPlace, Asked
      <3>2. CASE calls[c].yes /\ Types(c, [calls EXCEPT ![c].group = "approved"])
        <4>1. calls' = [calls EXCEPT ![c] = l("approved")]
          BY ZenonT(40), <1>1, <1>3, <3>2 DEF Types, CallType
        <4>2. QED
          BY <3>2, <4>1
      <3>3. QED
        BY <3>1, <3>2
    <2>3. l(g) \in CallType
      BY ZenonT(40), <1>1, <2>2 DEF CallType
    <2>4. /\ calls' \in [Calls -> CallType] /\ calls'[c] = l(g)
          /\ \A d \in Calls \ {c} : calls'[d] = calls[d]
      BY <1>1, <2>2, <2>3
    <2>5. /\ calls'[c].gated = calls[c].gated /\ calls'[c].req = calls[c].req
          /\ calls'[c].task = calls[c].task /\ calls'[c].item = calls[c].item
          /\ calls'[c].yes = calls[c].yes /\ calls'[c].at = "running"
          /\ calls'[c].group = "approved" => calls[c].yes
      BY <1>1, <2>2, <2>4 DEF CallType
    <2> HIDE DEF l
    <2>6. holder' = c /\ runs' = runs \cup {new}
      BY <1>3 DEF Types
    <2>7. Moves(c)
      <3>1. Placed(c)'
        BY <1>1, <2>1, <2>5 DEF InPlace, Placed, Tool, Task, Under
      <3>2. Ruling(c)'
        BY <1>1, <2>5, RulingStays DEF InPlace
      <3>3. Asked(c)' /\ Turned(c)'
        BY <2>5, <2>6 DEF Asked, Turned
      <3>4. \A d \in Calls \ {c} : holder # d
        BY <1>1, CallAssumption DEF InPlace, Turned
      <3>5. QED
        BY <2>4, <2>5, <2>6, <3>1, <3>2, <3>3, <3>4 DEF Moves, InPlace
    <2>8. /\ calls[c].item \in DOMAIN Task(c).items /\ Item(c) \in Commands
          /\ DOMAIN calls[c].gated = DOMAIN Task(c).items
          /\ Backed(Item(c), calls[c].gated[calls[c].item])
      BY <1>1, <2>1, Whereabouts DEF InPlace, Ruling, Item
    <2>9. calls[c].gated[calls[c].item] \in Rulings /\ calls[c].task \in Nat
      BY <1>1, <2>8 DEF CallType
    <2>10. new \in RunType
      BY <1>1, <2>8, <2>9 DEF RunType, Rulings, How
    <2>11. ASSUME NEW run, run = new PROVE Rightful(run)'
      <3>1. Backed(run.cmd, run)
        BY <2>8, <2>11 DEF Backed, How
      <3>2. /\ run.target = shell.target /\ run.call = c /\ run.task = calls[c].task
            /\ run.how = How(c)
        BY <2>11
      <3>3. Tool(c) # "exec" => shell.target = Task(c).target
        BY <1>1, <1>3 DEF InPlace, Turned
      <3>4. TargetAllowed(shell.target)
        BY DEF IInv
      <3> HIDE DEF new
      <3>5. Backed(run.cmd, run)'
        BY <3>1 DEF Backed, Decision, AutoAllowed
      <3>6. TargetAllowed(run.target)'
        BY <3>2, <3>4 DEF TargetAllowed
      <3>7. QED
        BY <2>5, <3>2, <3>3, <3>5, <3>6 DEF Rightful, Tool, Task
    <2> HIDE DEF new
    <2>12. QED
      BY <1>1, <2>6, <2>7, <2>10, <2>11
  <1>4. QED
    BY <1>2, <1>3
-----------------------------------------------------------------------------
(* The actions.                                                            *)

(* What the user was shown are commands of requests.                       *)
LEMMA ShowsTyped ==
    ASSUME IInv, NEW c \in Calls, NEW cmds \in SUBSET Commands, Shows(c, cmds)
    PROVE  shown' \in [Requests -> SUBSET Commands]
BY DEF Shows, IInv, TypeOK

(* A handler is entered.                                                   *)
LEMMA CallKeeps ==
    ASSUME IInv, NEW c \in Calls, NEW r \in Requests, NEW yes \in BOOLEAN, Call(c, r, yes)
    PROVE  IInv'
  <1>1. /\ calls \in [Calls -> CallType] /\ calls[c] = Idle
        /\ calls[c].at = "idle" /\ calls[c] \in CallType
    BY DEF IInv, TypeOK, Call, InPlace, Placed
  <1>2. PICK l \in CallType :
          /\ calls' = [calls EXCEPT ![c] = l]
          /\ l.at \in {"gating", "queued", "done"} /\ l.req = r
          /\ l.task = 1 /\ l.item = 1 /\ l.group = "none"
          /\ l.at = "gating" => r.tool \in Gated
          /\ l.at = "queued" => r.tool \notin Gated
    <2>1. CASE r.tool = "disarm" \/ Ready
      <3> DEFINE a == IF r.tool \in Gated THEN "gating" ELSE "queued"
                 l == [Idle EXCEPT !.at = a, !.req = r, !.yes = yes]
      <3>1. calls' = [calls EXCEPT ![c] = l] /\ l \in CallType
        BY <1>1, <2>1 DEF Call, Gated, CallType
      <3>2. QED
        BY <3>1 DEF Idle
    <2>2. CASE ~(r.tool = "disarm" \/ Ready)
      <3> DEFINE l == [Idle EXCEPT !.at = "done", !.req = r]
      <3>1. calls' = [calls EXCEPT ![c] = l] /\ l \in CallType
        BY <1>1, <2>2 DEF Call, CallType
      <3>2. QED
        BY <3>1 DEF Idle
    <2>3. QED
      BY <2>1, <2>2
  <1>3. calls' \in [Calls -> CallType] /\ calls'[c] = l
    BY <1>1, <1>2
  <1>4. \A d \in Calls \ {c} : calls'[d] = calls[d]
    BY <1>1, <1>2
  <1>5. /\ calls'[c].at \in {"gating", "queued", "done"} /\ calls'[c].req = r
        /\ calls'[c].task = 1 /\ calls'[c].item = 1 /\ calls'[c].group = "none"
        /\ calls'[c].at = "gating" => r.tool \in Gated
        /\ calls'[c].at = "queued" => r.tool \notin Gated
    BY <1>2, <1>3
  <1>6. Placed(c)'
    <2>1. 1 \in DOMAIN r.tasks
      BY RequestAssumption
    <2>2. ASSUME r.tool \in Gated PROVE 1 \in DOMAIN r.tasks[1].items
      BY <2>1, <2>2, FirstItem
    <2>3. QED
      BY <1>5, <2>1, <2>2 DEF Placed, Tool, Task, Gated, Under
  <1>7. Ruling(c)' /\ Asked(c)' /\ Turned(c)'
    BY <1>5 DEF Ruling, Asked, Turned, Tool, Under, Gated
  <1>8. Moves(c)
    BY <1>1, <1>3, <1>4, <1>5, <1>6, <1>7 DEF Moves, InPlace, IInv, TypeOK, Call
  <1>9. grant' \in BOOLEAN
    BY DEF Call, IInv, TypeOK
  <1>10. TypeOK'
    BY <1>8, <1>9 DEF Call, IInv, TypeOK, Moves
  <1>11. QED
    BY <1>8, <1>10, StepKeeps DEF Call, IInv, TargetAllowed

(* A refused entry ends the call.                                          *)
LEMMA OutOfScopeKeeps ==
    ASSUME IInv, NEW c \in Calls, OutOfScope(c)
    PROVE  IInv'
  <1>1. Moves(c)
    BY CallOverMoves DEF OutOfScope, Under
  <1>2. TypeOK'
    BY <1>1 DEF OutOfScope, IInv, TypeOK, Moves
  <1>3. QED
    BY <1>1, <1>2, StepKeeps DEF OutOfScope, IInv, TargetAllowed

(* The rules are applied to every command of the task.                     *)
LEMMA GateKeeps ==
    ASSUME IInv, NEW c \in Calls, Gate(c)
    PROVE  IInv'
  <1> DEFINE items == Task(c).items
             gated == [k \in DOMAIN items |-> Ruled(items[k])]
             seen == IF Tool(c) = "exec" THEN shell.target ELSE NoTarget
             l == [calls[c] EXCEPT !.at = "judging", !.gated = gated, !.seen = seen]
  <1>1. /\ TypeOK /\ calls \in [Calls -> CallType] /\ InPlace(c) /\ calls[c].at = "gating"
        /\ calls[c].at \in Under /\ calls[c] \in CallType
    BY DEF IInv, TypeOK, Gate, Under
  <1>2. Moves(c)
    <2>1. CASE TaskOver(c)
      BY <1>1, <2>1, TaskOverMoves
    <2>2. CASE /\ calls' = [calls EXCEPT ![c].at = "judging", ![c].gated = gated, ![c].seen = seen]
               /\ UNCHANGED holder
               /\ Tool(c) # "batch" => gated[1].how # "blocked"
      <3>1. items \in Seq(Commands) /\ Tool(c) \in Gated
        BY <1>1, Whereabouts DEF InPlace, Placed, Under
      <3>2. \A k \in DOMAIN items : Ruled(items[k]) \in Rulings /\ Backed(items[k], Ruled(items[k]))
        BY <1>1, <3>1, RuledTyped
      <3>3. gated \in Seq(Rulings) /\ DOMAIN gated = DOMAIN items
        BY <3>1, <3>2
      <3>4. seen \in Targets \cup {NoTarget}
        BY <1>1 DEF TypeOK
      <3>5. \A k \in DOMAIN items : Backed(items[k], gated[k])
        BY <3>2
      <3> HIDE DEF gated, seen, items
      <3>6. l \in CallType /\ calls' = [calls EXCEPT ![c] = l]
        BY <1>1, <2>2, <3>3, <3>4 DEF CallType
      <3>7. calls' \in [Calls -> CallType] /\ calls'[c] = l
        BY <1>1, <3>6
      <3>8. /\ calls'[c].at = "judging" /\ calls'[c].gated = gated
            /\ calls'[c].req = calls[c].req /\ calls'[c].task = calls[c].task
            /\ calls'[c].item = calls[c].item /\ calls'[c].group = calls[c].group
            /\ calls'[c].yes = calls[c].yes
        BY <1>1, <3>7 DEF CallType
      <3>9. Placed(c)'
        BY <1>1, <3>8 DEF InPlace, Placed, Tool, Task, Under
      <3>10. Ruling(c)'
        <4>1. Task(c)' = Task(c) /\ Tool(c)' = Tool(c)
          BY <3>8 DEF Task, Tool
        <4>2. \A k \in DOMAIN Task(c)'.items : Backed(Task(c)'.items[k], calls'[c].gated[k])
          BY <3>5, <3>8, <4>1 DEF items
        <4>3. /\ DOMAIN calls'[c].gated = DOMAIN Task(c)'.items
              /\ Tool(c)' # "batch" => calls'[c].gated[1].how # "blocked"
          BY <2>2, <3>3, <3>8, <4>1 DEF items
        <4>4. QED
          BY <4>2, <4>3, RulingAnew DEF Gate
      <3>11. Asked(c)' /\ Turned(c)'
        BY <1>1, <3>8 DEF InPlace, Asked, Turned
      <3>12. QED
        BY <1>1, <2>2, <3>6, <3>7, <3>8, <3>9, <3>10, <3>11 DEF Moves, InPlace, TypeOK
    <2>3. QED
      BY <2>1, <2>2 DEF Gate
  <1>3. TypeOK'
    BY <1>1, <1>2 DEF Gate, TypeOK, Moves
  <1>4. QED
    BY <1>2, <1>3, StepKeeps DEF Gate, IInv, TargetAllowed

(* The judge's answer about one command, or its failure.                   *)
LEMMA VerdictMoves ==
    ASSUME IInv, NEW c \in Calls, NEW k \in DOMAIN calls[c].gated, NEW v \in Verdicts,
           calls[c].at = "judging", calls[c].gated[k].verdict = Asking,
           calls' = [calls EXCEPT ![c].gated[k].verdict = v],
           holder' = holder, shell' = shell, policy' = policy
    PROVE  Moves(c)
  <1> DEFINE g == calls[c].gated
             h == [g EXCEPT ![k] = [@ EXCEPT !.verdict = v]]
             l == [calls[c] EXCEPT !.gated = h]
  <1>1. /\ TypeOK /\ calls \in [Calls -> CallType] /\ InPlace(c)
        /\ calls[c].at \in Under \ {"gating"} /\ calls[c] \in CallType /\ g \in Seq(Rulings)
    BY DEF IInv, TypeOK, Under, CallType
  <1>2. Tool(c) \in Gated /\ Ruling(c)
    BY <1>1 DEF InPlace, Placed, Under
  <1>3. /\ DOMAIN g = DOMAIN Task(c).items
        /\ \A j \in DOMAIN g : g[j] \in Rulings /\ Backed(Task(c).items[j], g[j])
        /\ Tool(c) # "batch" => g[1].how # "blocked"
    BY <1>1, <1>2 DEF Ruling
  <1>4. /\ [g[k] EXCEPT !.verdict = v] \in Rulings
        /\ Backed(Task(c).items[k], [g[k] EXCEPT !.verdict = v])
        /\ [g[k] EXCEPT !.verdict = v].how = g[k].how
    BY <1>3, AnsweredTyped
  <1>5. /\ h \in Seq(Rulings) /\ DOMAIN h = DOMAIN g
        /\ \A j \in DOMAIN g : h[j] = IF j = k THEN [g[k] EXCEPT !.verdict = v] ELSE g[j]
    BY <1>1, <1>4
  <1>6. /\ \A j \in DOMAIN g : Backed(Task(c).items[j], h[j])
        /\ Tool(c) # "batch" => h[1].how # "blocked"
    <2>1. \A j \in DOMAIN g : Backed(Task(c).items[j], h[j]) /\ h[j].how = g[j].how
      BY <1>3, <1>4, <1>5
    <2>2. 1 \in DOMAIN g
      BY <1>1, <1>2, <1>3, Whereabouts
    <2>3. QED
      BY <1>3, <2>1, <2>2
  <1>7. calls' = [calls EXCEPT ![c] = l]
    BY <1>1
  <1> HIDE DEF h
  <1>8. l \in CallType
    BY <1>1, <1>5 DEF CallType
  <1>9. calls' \in [Calls -> CallType] /\ calls'[c] = l
    BY <1>1, <1>7, <1>8
  <1>10. /\ calls'[c].at = "judging" /\ calls'[c].gated = h
         /\ calls'[c].req = calls[c].req /\ calls'[c].task = calls[c].task
         /\ calls'[c].item = calls[c].item /\ calls'[c].group = calls[c].group
         /\ calls'[c].yes = calls[c].yes
    BY <1>1, <1>9 DEF CallType
  <1>11. Placed(c)'
    BY <1>1, <1>10 DEF InPlace, Placed, Tool, Task, Under
  <1>12. Ruling(c)'
    <2>1. Task(c)' = Task(c) /\ Tool(c)' = Tool(c)
      BY <1>10 DEF Task, Tool
    <2>2. QED
      BY <1>3, <1>5, <1>6, <1>10, <2>1, RulingAnew
  <1>13. Asked(c)' /\ Turned(c)'
    BY <1>1, <1>10 DEF InPlace, Asked, Turned
  <1>14. QED
    BY <1>1, <1>7, <1>9, <1>10, <1>11, <1>12, <1>13 DEF Moves, InPlace, TypeOK

(* The service answers.                                                    *)
LEMMA AnswerKeeps ==
    ASSUME IInv, NEW c \in Calls, NEW k \in DOMAIN calls[c].gated, NEW resp, Answer(c, k, resp)
    PROVE  IInv'
  <1>1. Parse(resp) \in Verdicts
    BY VerdictTyped
  <1>2. Moves(c)
    BY <1>1, VerdictMoves DEF Answer
  <1>3. cache' \in [Keys -> Verdicts]
    BY <1>1 DEF Answer, IInv, TypeOK
  <1>4. TypeOK'
    BY <1>2, <1>3 DEF Answer, IInv, TypeOK, Moves
  <1>5. QED
    BY <1>2, <1>4, StepKeeps DEF Answer, IInv, TargetAllowed

(* It does not.                                                            *)
LEMMA NoAnswerKeeps ==
    ASSUME IInv, NEW c \in Calls, NEW k \in DOMAIN calls[c].gated, NoAnswer(c, k)
    PROVE  IInv'
  <1>1. Moves(c)
    BY VerdictTyped, VerdictMoves DEF NoAnswer
  <1>2. TypeOK'
    BY <1>1 DEF NoAnswer, IInv, TypeOK, Moves
  <1>3. QED
    BY <1>1, <1>2, StepKeeps DEF NoAnswer, IInv, TargetAllowed

(* Every opinion is in: what is left of the questions is for the user.     *)
LEMMA SettleKeeps ==
    ASSUME IInv, NEW c \in Calls, Settle(c)
    PROVE  IInv'
  <1> DEFINE items == Task(c).items
             g == calls[c].gated
             gated == [k \in DOMAIN items |-> IF g[k].how # "ask" THEN g[k]
                         ELSE [g[k] EXCEPT !.how = Judged(items[k], g[k].verdict)]]
  <1>1. /\ TypeOK /\ calls \in [Calls -> CallType] /\ InPlace(c) /\ calls[c].at = "judging"
        /\ calls[c].at \in Under \ {"gating"} /\ calls[c] \in CallType /\ g \in Seq(Rulings)
    BY DEF IInv, TypeOK, Under, CallType, Settle
  <1>2. Tool(c) \in Gated /\ Ruling(c)
    BY <1>1 DEF InPlace, Placed, Under
  <1>3. /\ DOMAIN g = DOMAIN items
        /\ \A j \in DOMAIN items : g[j] \in Rulings /\ Backed(items[j], g[j])
        /\ Tool(c) # "batch" => g[1].how # "blocked"
        /\ items \in Seq(Commands) /\ 1 \in DOMAIN items
        /\ Tool(c) = "exec" => calls[c].item = 1
    BY <1>1, <1>2, Whereabouts DEF Ruling
  <1>4. \A j \in DOMAIN items : /\ gated[j] \in Rulings /\ Backed(items[j], gated[j])
                                /\ g[j].how # "blocked" => gated[j].how # "blocked"
    <2>1. ASSUME NEW j \in DOMAIN items, g[j].how = "ask"
          PROVE  /\ gated[j] \in Rulings /\ Backed(items[j], gated[j])
                 /\ gated[j].how # "blocked"
      <3>1. gated[j] = [g[j] EXCEPT !.how = Judged(items[j], g[j].verdict)]
        BY <2>1
      <3>2. g[j] \in Rulings /\ Backed(items[j], g[j])
        BY <1>3
      <3> HIDE DEF gated
      <3>3. QED
        BY <2>1, <3>1, <3>2, JudgedTyped
    <2>2. QED
      BY <1>3, <2>1
  <1>5. gated \in Seq(Rulings) /\ DOMAIN gated = DOMAIN items
    <2>1. DOMAIN gated = DOMAIN items /\ gated = [k \in DOMAIN items |-> gated[k]]
      OBVIOUS
    <2> HIDE DEF gated, items
    <2>2. DOMAIN items = 1 .. Len(items) /\ Len(items) \in Nat
      BY <1>3
    <2>3. gated \in [1 .. Len(items) -> Rulings]
      BY <1>4, <2>1, <2>2
    <2>4. QED
      BY <2>1, <2>2, <2>3
  <1>6. PICK place \in {"queued", "scoping", "done"}, group \in {"pending", "none"} :
          /\ calls' = [calls EXCEPT ![c].at = place, ![c].gated = gated, ![c].group = group]
          /\ place = "queued" => Tool(c) # "exec"
          /\ place = "scoping" => gated[1].how # "ask" \/ calls[c].yes
          /\ UNCHANGED shown \/ Shows(c, {Item(c)})
    BY DEF Settle
  <1> HIDE DEF gated
  <1> DEFINE l == [calls[c] EXCEPT !.at = place, !.gated = gated, !.group = group]
  <1>7. calls' = [calls EXCEPT ![c] = l] /\ l \in CallType
    BY <1>1, <1>5, <1>6 DEF CallType
  <1>8. calls' \in [Calls -> CallType] /\ calls'[c] = l
    BY <1>1, <1>7
  <1>9. /\ calls'[c].at = place /\ calls'[c].gated = gated
        /\ calls'[c].req = calls[c].req /\ calls'[c].task = calls[c].task
        /\ calls'[c].item = calls[c].item /\ calls'[c].group = group
        /\ calls'[c].yes = calls[c].yes
    BY <1>1, <1>8 DEF CallType
  <1>10. Task(c)' = Task(c) /\ Tool(c)' = Tool(c)
    BY <1>9 DEF Task, Tool
  <1>11. Placed(c)'
    BY <1>1, <1>2, <1>9, <1>10 DEF InPlace, Placed, Under
  <1>12. Ruling(c)'
    BY <1>3, <1>4, <1>5, <1>9, <1>10, RulingAnew DEF Settle
  <1>13. Asked(c)' /\ Turned(c)'
    BY <1>3, <1>6, <1>9, <1>10 DEF Asked, Turned, How
  <1>14. Moves(c)
    BY <1>1, <1>7, <1>8, <1>9, <1>11, <1>12, <1>13 DEF Moves, InPlace, TypeOK, Settle
  <1>15. shown' \in [Requests -> SUBSET Commands]
    BY <1>1, <1>2, <1>6, Whereabouts, ShowsTyped DEF TypeOK
  <1>16. TypeOK'
    BY <1>1, <1>14, <1>15 DEF Settle, TypeOK, Moves
  <1>17. QED
    BY <1>14, <1>16, StepKeeps DEF Settle, IInv, TargetAllowed

(* A call moves on without another change to its locals.                   *)
LEMMA GoesMoves ==
    ASSUME IInv, NEW c \in Calls, calls[c].at \in Under, policy' = policy,
           NEW place \in {"queued", "on", "asking", "done"}, Goes(c, place),
           holder' \in {holder, c}, holder # holder' => holder = NoCall,
           place = "queued" => calls[c].at = "scoping",
           place \in {"on", "asking"} => /\ calls[c].at # "gating" /\ holder' = c
                                        /\ Tool(c) \in Gated,
           place = "asking" => /\ How(c) # "blocked"
                               /\ shell'.up => shell'.target = Task(c).target
    PROVE  Moves(c)
  <1> DEFINE l == [calls[c] EXCEPT !.at = place]
  <1>1. calls \in [Calls -> CallType] /\ InPlace(c) /\ calls[c] \in CallType /\ holder \in Calls \cup {NoCall}
    BY DEF IInv, TypeOK
  <1>2. calls' = [calls EXCEPT ![c] = l] /\ l \in CallType
    BY <1>1 DEF Goes, CallType
  <1>3. calls' \in [Calls -> CallType] /\ calls'[c] = l
    BY <1>1, <1>2
  <1>4. /\ calls'[c].at = place /\ calls'[c].gated = calls[c].gated
        /\ calls'[c].req = calls[c].req /\ calls'[c].task = calls[c].task
        /\ calls'[c].item = calls[c].item /\ calls'[c].group = calls[c].group
        /\ calls'[c].yes = calls[c].yes
    BY <1>1, <1>3 DEF CallType
  <1>5. Placed(c)'
    BY <1>1, <1>4 DEF InPlace, Placed, Tool, Task, Under
  <1>6. Ruling(c)'
    <2>1. CASE place = "done"
      BY <1>4, <2>1 DEF Ruling, Under
    <2>2. CASE place # "done"
      BY <1>1, <1>4, <2>2, RulingStays DEF InPlace
    <2>3. QED
      BY <2>1, <2>2
  <1>7. Asked(c)' /\ Turned(c)'
    BY <1>1, <1>4 DEF InPlace, Asked, Turned, Tool, Task, How
  <1>8. \A d \in Calls \ {c} : calls'[d] = calls[d] /\ (holder = d => holder' = d)
    BY <1>1, <1>2, CallAssumption
  <1>9. QED
    BY <1>1, <1>3, <1>4, <1>5, <1>6, <1>7, <1>8 DEF Moves, InPlace, Under

(* exec checks the asset it is on.                                         *)
LEMMA ScopeKeeps ==
    ASSUME IInv, NEW c \in Calls, Scope(c)
    PROVE  IInv'
  <1>1. Moves(c)
    BY GoesMoves DEF Scope, Under
  <1>2. TypeOK'
    BY <1>1 DEF Scope, IInv, TypeOK, Moves
  <1>3. QED
    BY <1>1, <1>2, StepKeeps DEF Scope, IInv, TargetAllowed

(* No asset is out of scope where the session is on none.                  *)
LEMMA NowhereIsAllowed ==
    /\ Gone \in [target : Targets \cup {NoTarget}, up : BOOLEAN] /\ ~Gone.up
    /\ TargetAllowed(Gone.target)
BY DEF Gone, TargetAllowed

(* A turn that leaves the asset.                                           *)
LEMMA TurnAwayKeeps ==
    ASSUME IInv, NEW c \in Calls, TurnAway(c)
    PROVE  IInv'
  <1>1. Moves(c)
    BY GoesMoves DEF TurnAway, Under
  <1>2. TypeOK'
    BY <1>1, NowhereIsAllowed DEF TurnAway, IInv, TypeOK, Moves
  <1>3. TargetAllowed(shell.target)'
    BY DEF TurnAway, Gone, TargetAllowed
  <1>4. QED
    BY <1>1, <1>2, <1>3, StepKeeps, NowhereIsAllowed DEF TurnAway

(* exec's turn.                                                            *)
LEMMA TurnExecKeeps ==
    ASSUME IInv, NEW c \in Calls, TurnExec(c)
    PROVE  IInv'
  <1>1. How(c) # "blocked" /\ (How(c) = "ask" => calls[c].yes)
    <2>1. InPlace(c) /\ calls[c].at \in Under \ {"gating"} /\ Tool(c) = "exec"
      BY DEF IInv, TurnExec, Under
    <2>2. calls[c].item = 1
      <3>1. calls[c].item \in 1 .. Len(Task(c).items) /\ Len(Task(c).items) = 1
        BY <2>1, Whereabouts DEF Gated
      <3>2. QED
        BY <3>1
    <2>3. QED
      BY <2>1, <2>2 DEF InPlace, Ruling, Asked, How, Gated, TurnExec
  <1>2. /\ Moves(c) /\ runs' \subseteq RunType
        /\ \A run \in runs' \ runs : Rightful(run)'
    BY <1>1, TypesMoves DEF TurnExec
  <1>3. TypeOK'
    BY <1>2 DEF TurnExec, IInv, TypeOK, Moves
  <1>4. QED
    BY <1>2, <1>3, StepKeeps DEF TurnExec, IInv, TargetAllowed

(* A turn that goes to an asset.                                           *)
LEMMA TurnNavigateKeeps ==
    ASSUME IInv, NEW c \in Calls, TurnNavigate(c)
    PROVE  IInv'
  <1>1. Moves(c)
    BY GoesMoves DEF TurnNavigate, Under, Gated
  <1>2. Task(c).target \in Targets \cup {NoTarget}
    BY Whereabouts DEF TurnNavigate, Under
  <1>3. /\ shell' \in [target : Targets \cup {NoTarget}, up : BOOLEAN]
        /\ shell'.target = Task(c).target
    <2>1. shell' \in Arrivals(Task(c).target)
      BY DEF TurnNavigate
    <2>2. shell \in [target : Targets \cup {NoTarget}, up : BOOLEAN]
      BY DEF IInv, TypeOK
    <2>3. CASE shell' = shell /\ shell.target = Task(c).target
      BY <2>2, <2>3
    <2>4. CASE shell' = [target |-> Task(c).target, up |-> TRUE]
      BY <1>2, <2>4
    <2>5. QED
      BY <2>1, <2>3, <2>4 DEF Arrivals
  <1>4. TypeOK'
    BY <1>1, <1>3 DEF TurnNavigate, IInv, TypeOK, Moves
  <1>5. TargetAllowed(shell.target)'
    BY <1>3 DEF TurnNavigate, TargetAllowed
  <1>6. QED
    BY <1>1, <1>4, <1>5, StepKeeps DEF TurnNavigate

(* A turn that ends before it got there.                                   *)
LEMMA TurnFailsKeeps ==
    ASSUME IInv, NEW c \in Calls, TurnFails(c)
    PROVE  IInv'
  <1>1. Moves(c)
    BY TaskOverMoves DEF TurnFails, Under
  <1>2. TypeOK'
    BY <1>1, NowhereIsAllowed DEF TurnFails, IInv, TypeOK, Moves
  <1>3. TargetAllowed(shell.target)'
    BY DEF TurnFails, Gone, TargetAllowed
  <1>4. QED
    BY <1>1, <1>2, <1>3, StepKeeps, NowhereIsAllowed DEF TurnFails

(* The check of the target before a command.                               *)
LEMMA BindingKeeps ==
    ASSUME IInv, NEW c \in Calls, Binding(c)
    PROVE  IInv'
  <1>1. /\ InPlace(c) /\ calls[c].at = "on" /\ calls[c].at \in Under \ {"queued"}
        /\ policy' = policy /\ shell' = shell
    BY DEF IInv, Binding, Under
  <1>2. Moves(c)
    <2>1. CASE TaskOver(c)
      BY <1>1, <2>1, TaskOverMoves
    <2>2. CASE ItemOver(c)
      BY <1>1, <2>2, ItemOverMoves
    <2>3. CASE /\ shell.target = Task(c).target /\ How(c) # "blocked"
               /\ Goes(c, "asking") /\ UNCHANGED holder
      <3>1. holder' = c /\ Tool(c) \in Gated
        BY <1>1, <2>3 DEF InPlace, Placed, Turned
      <3>2. QED
        BY <1>1, <2>3, <3>1, GoesMoves
    <2>4. QED
      BY <2>1, <2>2, <2>3 DEF Binding
  <1>3. TypeOK'
    BY <1>2 DEF Binding, IInv, TypeOK, Moves
  <1>4. QED
    BY <1>2, <1>3, StepKeeps DEF Binding, IInv, TargetAllowed

(* The probe finds no such command.                                        *)
LEMMA MissingKeeps ==
    ASSUME IInv, NEW c \in Calls, Missing(c)
    PROVE  IInv'
  <1>1. Moves(c)
    BY ItemOverMoves DEF Missing
  <1>2. TypeOK'
    BY <1>1 DEF Missing, IInv, TypeOK, Moves
  <1>3. QED
    BY <1>1, <1>2, StepKeeps DEF Missing, IInv, TargetAllowed

(* A command that is not typed after all.                                  *)
LEMMA AskingFails ==
    ASSUME IInv, NEW c \in Calls, calls[c].at = "asking", policy' = policy, ItemFails(c)
    PROVE  Moves(c)
BY ItemFailsMoves DEF Under

(* The step that follows from typing or failing.                           *)
LEMMA AskingKeeps ==
    ASSUME IInv, NEW c \in Calls, calls[c].at = "asking",
           UNCHANGED <<policy, grant, shell, cache>>,
           shown' \in [Requests -> SUBSET Commands],
           \/ Moves(c) /\ runs' = runs
           \/ How(c) # "blocked" /\ (How(c) = "ask" => calls[c].yes) /\ Types(c, calls)
           \/ calls[c].yes /\ How(c) # "blocked" /\ Types(c, [calls EXCEPT ![c].group = "approved"])
    PROVE  IInv'
  <1>1. /\ Moves(c) /\ runs' \subseteq RunType
        /\ \A run \in runs' \ runs : Rightful(run)'
    <2>1. CASE Moves(c) /\ runs' = runs
      BY <2>1 DEF IInv, TypeOK
    <2>2. CASE How(c) # "blocked" /\ (How(c) = "ask" => calls[c].yes) /\ Types(c, calls)
      BY <2>2, TypesMoves
    <2>3. CASE calls[c].yes /\ How(c) # "blocked" /\ Types(c, [calls EXCEPT ![c].group = "approved"])
      BY <2>3, TypesMoves
    <2>4. QED
      BY <2>1, <2>2, <2>3
  <1>2. TypeOK'
    BY <1>1 DEF IInv, TypeOK, Moves
  <1>3. QED
    BY <1>1, <1>2, StepKeeps DEF IInv, TargetAllowed

(* A command without a prompt.                                             *)
LEMMA UnaskedKeeps ==
    ASSUME IInv, NEW c \in Calls, Unasked(c)
    PROVE  IInv'
BY AskingKeeps, AskingFails DEF Unasked, IInv, TypeOK

(* A command with a prompt of its own.                                     *)
LEMMA AskOneKeeps ==
    ASSUME IInv, NEW c \in Calls, AskOne(c)
    PROVE  IInv'
  <1>1. Item(c) \in Commands
    BY Whereabouts DEF AskOne, IInv, InPlace, Placed, Under
  <1>2. shown' \in [Requests -> SUBSET Commands]
    BY <1>1, ShowsTyped DEF AskOne, IInv, TypeOK
  <1>3. QED
    BY <1>2, AskingKeeps, AskingFails DEF AskOne

(* A command that shares one.                                              *)
LEMMA AskGroupKeeps ==
    ASSUME IInv, NEW c \in Calls, AskGroup(c)
    PROVE  IInv'
  <1> DEFINE listed == {Task(c).items[k] : k \in Pending(calls[c].gated)}
             answered == [calls EXCEPT ![c].group = GroupAnswer(c)]
  <1>1. /\ InPlace(c) /\ calls[c].at = "asking" /\ calls[c].at \in Under \ {"gating", "queued"}
        /\ How(c) = "ask" /\ UNCHANGED <<policy, grant, shell, cache>>
    BY DEF IInv, AskGroup, Under
  <1>2. CASE ~Verified /\ ItemFails(c) /\ UNCHANGED <<shown, runs>>
    BY <1>1, <1>2, AskingFails, AskingKeeps DEF IInv, TypeOK
  <1>3. CASE calls[c].yes /\ Types(c, answered) /\ UNCHANGED shown
    <2>1. answered = [calls EXCEPT ![c].group = "approved"]
      BY <1>3 DEF GroupAnswer
    <2> HIDE DEF answered
    <2>2. QED
      BY <1>1, <1>3, <2>1, AskingKeeps DEF IInv, TypeOK
  <1>4. CASE /\ ~calls[c].yes /\ Shows(c, listed) /\ UNCHANGED runs
             /\ IF calls[c].item < Len(Task(c).items)
                THEN /\ calls' = [answered EXCEPT ![c].at = "on", ![c].item = @ + 1]
                     /\ UNCHANGED holder
                ELSE TaskOver(c)
    <2>1. Tool(c) \in Gated /\ Ruling(c)
      BY <1>1 DEF InPlace, Placed
    <2>2. listed \in SUBSET Commands
      <3>1. Task(c).items \in Seq(Commands) /\ DOMAIN calls[c].gated = DOMAIN Task(c).items
        BY <1>1, <2>1, Whereabouts DEF Ruling
      <3>2. \A k \in DOMAIN calls[c].gated : Task(c).items[k] \in Commands
        BY <3>1
      <3>3. QED
        BY <3>2 DEF Pending
    <2>3. shown' \in [Requests -> SUBSET Commands]
      BY <1>4, <2>2, ShowsTyped
    <2>4. Moves(c)
      <3>1. CASE calls[c].item < Len(Task(c).items)
        BY <1>1, <1>4, <2>1, <3>1, FailedGroupMoves
      <3>2. CASE ~(calls[c].item < Len(Task(c).items))
        BY <1>1, <1>4, <3>2, TaskOverMoves
      <3>3. QED
        BY <3>1, <3>2
    <2>5. QED
      BY <1>1, <1>4, <2>3, <2>4, AskingKeeps
  <1>5. QED
    BY <1>2, <1>3, <1>4 DEF AskGroup

(* A command whose group has been answered about.                          *)
LEMMA AskAgainKeeps ==
    ASSUME IInv, NEW c \in Calls, AskAgain(c)
    PROVE  IInv'
  <1>1. calls[c].group = "approved" => calls[c].yes
    BY DEF IInv, InPlace, Asked
  <1>2. QED
    BY <1>1, AskingKeeps, AskingFails DEF AskAgain, IInv, TypeOK

(* A command returns.                                                      *)
LEMMA ReturnKeeps ==
    ASSUME IInv, NEW c \in Calls, Return(c)
    PROVE  IInv'
  <1>1. Moves(c)
    BY ItemOverMoves DEF Return
  <1>2. /\ shell' \in [target : Targets \cup {NoTarget}, up : BOOLEAN]
        /\ shell'.target \in {shell.target, NoTarget}
    <2>1. shell \in [target : Targets \cup {NoTarget}, up : BOOLEAN]
      BY DEF IInv, TypeOK
    <2>2. CASE shell' = shell
      BY <2>1, <2>2
    <2>3. CASE shell' = [shell EXCEPT !.up = FALSE]
      BY <2>1, <2>3
    <2>4. CASE shell' = Gone
      BY <2>4 DEF Gone
    <2>5. QED
      BY <2>2, <2>3, <2>4 DEF Return
  <1>3. TypeOK'
    BY <1>1, <1>2 DEF Return, IInv, TypeOK, Moves
  <1>4. TargetAllowed(shell.target)'
    BY <1>2 DEF Return, IInv, TargetAllowed
  <1>5. holder = c
    BY DEF Return, IInv, InPlace, Turned
  <1>6. QED
    BY <1>1, <1>3, <1>4, <1>5, StepKeeps DEF Return

(* A call is cancelled.                                                    *)
LEMMA CancelKeeps ==
    ASSUME IInv, NEW c \in Calls, Cancel(c)
    PROVE  IInv'
  <1>1. Moves(c)
    BY CallOverMoves DEF Cancel, Under
  <1>2. TypeOK'
    BY <1>1 DEF Cancel, IInv, TypeOK, Moves
  <1>3. QED
    BY <1>1, <1>2, StepKeeps DEF Cancel, IInv, TargetAllowed

(* A step of no call: at most the shell is lost.                           *)
LEMMA NoCallKeeps ==
    ASSUME IInv, UNCHANGED <<policy, holder, calls, shown, runs>>,
           shell' = shell \/ shell' = Gone,
           grant' \in BOOLEAN, cache' \in [Keys -> Verdicts]
    PROVE  IInv'
  <1>1. TypeOK'
    BY NowhereIsAllowed DEF IInv, TypeOK
  <1>2. ASSUME NEW c \in Calls PROVE InPlace(c)'
    <2>1. InPlace(c) /\ Task(c)' = Task(c) /\ Tool(c)' = Tool(c) /\ How(c)' = How(c)
      BY DEF IInv, Task, Tool, How
    <2>2. Placed(c)'
      BY <2>1 DEF InPlace, Placed
    <2>3. Ruling(c)'
      BY <2>1 DEF InPlace, Ruling, Backed, Decision, AutoAllowed
    <2>4. Asked(c)'
      BY <2>1 DEF InPlace, Asked
    <2>5. Turned(c)'
      BY <2>1, NowhereIsAllowed DEF InPlace, Turned
    <2>6. QED
      BY <2>2, <2>3, <2>4, <2>5 DEF InPlace
  <1>3. ASSUME NEW run \in runs PROVE Rightful(run)'
    BY DEF IInv, Rightful, Backed, Decision, AutoAllowed, TargetAllowed
  <1>4. TargetAllowed(shell.target)'
    BY NowhereIsAllowed DEF IInv, TargetAllowed, Gone
  <1>5. QED
    BY <1>1, <1>2, <1>3, <1>4 DEF IInv

(* Such are what the user, the clock and the transport do.                 *)
LEMMA OutsideKeeps ==
    ASSUME IInv, Arm \/ Revoke \/ Drop \/ (\E k \in Keys : Forget(k))
    PROVE  IInv'
BY NoCallKeeps, VerdictTyped DEF Arm, Revoke, Drop, Forget, IInv, TypeOK

(* No call has been made, and nothing has run.                             *)
LEMMA InitKeeps == ASSUME Init PROVE IInv
  <1>1. Idle \in CallType
    BY DEF Idle, CallType
  <1>2. TypeOK
    BY <1>1, VerdictTyped DEF Init, TypeOK
  <1>3. ASSUME NEW c \in Calls PROVE InPlace(c)
    BY DEF Init, Idle, InPlace, Placed, Ruling, Asked, Turned, Under
  <1>4. QED
    BY <1>2, <1>3 DEF Init, IInv, TargetAllowed

(* Every step keeps the invariant.                                         *)
LEMMA NextKeeps == ASSUME IInv, [Next]_vars PROVE IInv'
  <1>1. ASSUME NEW c \in Calls, NEW r \in Requests, NEW yes \in BOOLEAN, Call(c, r, yes)
        PROVE  IInv'
    BY <1>1, CallKeeps
  <1>2. ASSUME NEW c \in Calls, Handler(c) PROVE IInv'
    BY <1>2, OutOfScopeKeeps, GateKeeps, SettleKeeps, ScopeKeeps, TurnAwayKeeps, TurnExecKeeps,
       TurnNavigateKeeps, TurnFailsKeeps, BindingKeeps, UnaskedKeeps, AskOneKeeps, AskGroupKeeps,
       AskAgainKeeps, MissingKeeps, ReturnKeeps DEF Handler
  <1>3. ASSUME NEW c \in Calls, Opinion(c) PROVE IInv'
    BY <1>3, AnswerKeeps, NoAnswerKeeps DEF Opinion
  <1>4. CASE UNCHANGED vars
    BY <1>4, NoCallKeeps DEF vars, IInv, TypeOK
  <1>5. QED
    BY <1>1, <1>2, <1>3, <1>4, CancelKeeps, OutsideKeeps DEF Next

(* The invariant holds in every behaviour.                                 *)
THEOREM Invariance == Spec => []IInv
BY InitKeeps, NextKeeps, PTL DEF Spec

(* The variables of the gate keep their types: no index leaves its task,    *)
(* and what is remembered of a run is of a command somebody asked for.     *)
THEOREM TypeCorrect == Spec => []TypeOK
  <1>1. IInv => TypeOK
    BY DEF IInv
  <1>2. QED
    BY <1>1, Invariance, PTL

(* Whatever is typed into a shell had a right to be, however the calls, the  *)
(* judge's answers, the prompts and the losses of the transport interleave  *)
(* (permission-gate.ts, permission.ts:30).                                 *)
THEOREM MatrixHolds == Spec => []WithinTheMatrix
  <1>1. IInv => WithinTheMatrix
    <2>1. ASSUME IInv, NEW run \in runs
          PROVE  \/ Decision(run.cmd.risk) = "allow"
                 \/ /\ Decision(run.cmd.risk) = "COMMAND_APPROVAL_REQUIRED"
                    /\ \/ run.how = "ask" /\ calls[run.call].yes
                       \/ run.how = "auto" /\ run.cmd.risk = "UNKNOWN"
      <3>1. Rightful(run) /\ run.how \in {"free", "blocked", "ask", "auto"}
        BY <2>1 DEF IInv, TypeOK, RunType
      <3>2. QED
        BY <3>1 DEF Rightful, Backed
    <2>2. QED
      BY <2>1 DEF WithinTheMatrix
  <1>2. QED
    BY <1>1, Invariance, PTL

(* A command that ran unattended was backed by a verdict that met every     *)
(* threshold (risk-judge.ts:17-28).                                        *)
THEOREM UnattendedHolds == Spec => []UnattendedIsBacked
  <1>1. IInv => UnattendedIsBacked
    BY DEF IInv, UnattendedIsBacked, Rightful, Backed, AutoAllowed
  <1>2. QED
    BY <1>1, Invariance, PTL

(* Nothing runs on another asset than the one asked for, nor on a denied    *)
(* one (session-manager.ts assertTargetBinding, target-scope.ts).          *)
THEOREM TargetHolds == Spec => []OnItsOwnTarget
  <1>1. IInv => OnItsOwnTarget
    <2>1. ASSUME IInv, NEW run \in runs
          PROVE  LET req == calls[run.call].req IN
                 /\ req.tool # "exec" => run.target = req.tasks[run.task].target
                 /\ \A entry \in policy.denied : run.target \notin entry
      <3>1. Rightful(run) /\ policy \in Policies
        BY <2>1 DEF IInv, TypeOK
      <3>2. ASSUME NEW entry \in policy.denied PROVE run.target \notin entry
        BY <3>1, PolicyAssumption, TargetAssumption DEF Rightful, TargetAllowed, Covered
      <3>3. QED
        BY <3>1, <3>2 DEF Rightful
    <2>2. QED
      BY <2>1 DEF OnItsOwnTarget
  <1>2. QED
    BY <1>1, Invariance, PTL
=============================================================================
