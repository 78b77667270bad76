-------------------------------- MODULE Survey --------------------------------
(***************************************************************************)
(* The multi-target tools on top of mapWithConcurrency (BoundedMap):       *)
(* jumpserver_compare (compare.ts), jumpserver_profile_run (runbook.ts)    *)
(* and jumpserver_baseline_compare (inspector.ts, baseline-store.ts).      *)
(* Each worker asks one target a list of commands in one runTargetBatch    *)
(* and turns the rows that come back into a report.                        *)
(*                                                                         *)
(* A batch ends early when the shell is lost: it then has fewer rows than  *)
(* it had commands (session-manager.ts:1046, 1139).                        *)
(***************************************************************************)
EXTENDS BoundedMap, Sequences, SequencesExt

CONSTANT Plans   \* the surveys that may be asked for

\* A scope of 0 is none; `before` is what a baseline recorded of each probe.
Steps == [cmds : Seq({"read", "write"}), scope : Nat,
          expect : {"none", "present", "absent", "exit0"}]
ASSUME PlansAssumption ==
    \A p \in Plans : p.tool \in {"compare", "runbook", "drift"} /\ p.steps \in Seq(Steps)

VARIABLES plan,      \* the survey of this call
          requests,  \* its flat list of commands, as <<step, probe>>
          denied,    \* targets outside the configured scope
          batch      \* target -> what its batch returned, or Unasked

surveyVars == <<vars, plan, requests, denied, batch>>

Unasked == <<"unasked">>

\* batch.error is set: the target was not entered, and no command has a row.
Unreachable == <<>>

(***************************************************************************)
(* What one command comes back with: an output with exit code 0 (the one   *)
(* that is looked for, or another); a time-out or a non-zero exit, which   *)
(* has no error either, after it printed what is looked for, or nothing; a *)
(* row with an error, and one that also ends the batch.                    *)
(***************************************************************************)
Healthy == {"same", "other"}
Broken == {"partial", "bad"}
Failed == {"refused", "lost"}
Rows == Healthy \cup Broken \cup Failed

\* cmd.output
Printed(row) == CASE row \in Healthy  -> row
                  [] row = "partial"  -> "same"
                  [] OTHER            -> "nothing"
Outputs(seen) == {Printed(row) : row \in seen}

Batches(n) ==
    {Unreachable} \cup
    {rows \in SeqOf(Rows, n) :
        /\ rows # Unreachable
        /\ \A k \in 1 .. Len(rows) : rows[k] = "lost" => k = Len(rows)
        /\ Len(rows) < n => Last(rows) = "lost"}

-----------------------------------------------------------------------------
(***************************************************************************)
(* Planning.  A step is a profile (a list of probes) or one command; only  *)
(* READ commands are asked, and a step that is left with none, or whose    *)
(* assertion names a probe it does not ask, is skipped.  A step that is    *)
(* invalid has no commands at all.                                         *)
(***************************************************************************)
IsRead(c) == c = "read"
Probes(step) == {p \in DOMAIN step.cmds : IsRead(step.cmds[p])}
Skipped(step) ==
    \/ Probes(step) = {}
    \/ step.scope # 0 /\ step.scope \notin Probes(step)

\* The commands of one target's batch, step by step: indexToStep and indexToProbe.
Asked(steps) ==
    UNION {{s} \X Probes(steps[s]) : s \in {t \in DOMAIN steps : ~Skipped(steps[t])}}
Before(a, b) == a[1] < b[1] \/ (a[1] = b[1] /\ a[2] < b[2])
Flattened(steps) ==
    {list \in [1 .. Cardinality(Asked(steps)) -> Asked(steps)] :
        \A i, j \in DOMAIN list : i < j => Before(list[i], list[j])}

\* A comparison is refused as a whole for one command that is not READ.
AllRead(p) == \A s \in DOMAIN p.steps : \A c \in Range(p.steps[s].cmds) : IsRead(c)

\* A runbook without a runnable step, or a profile without a probe, is refused.
Runnable(p) == \E s \in DOMAIN p.steps : ~Skipped(p.steps[s])

Admitted(p) == IF p.tool = "compare" THEN AllRead(p) ELSE Runnable(p)

SurveyInit ==
    /\ Init
    /\ plan \in {p \in Plans : Admitted(p)}
    /\ requests \in Flattened(plan.steps)
    /\ denied \in SUBSET Indices
    /\ batch = [i \in Indices |-> Unasked]

\* requireTargetAllowed, in the worker: the only thing that throws, but for
\* a batch that was cancelled.
InScope(i) == i \notin denied

Answer(w) ==
    /\ Settle(w)
    /\ InScope(at[w])
    /\ batch' \in {[batch EXCEPT ![at[w]] = b] : b \in Batches(Len(requests))}
    /\ UNCHANGED <<plan, requests, denied>>

Fail(w) ==
    /\ Throw(w)
    /\ signal \/ ~InScope(at[w])
    /\ UNCHANGED <<plan, requests, denied, batch>>

Calls == (Fire \/ AllDone) /\ UNCHANGED <<plan, requests, denied, batch>>

SurveyNext == Calls \/ \E w \in Workers : Answer(w) \/ Fail(w)

SurveySpec == SurveyInit /\ [][SurveyNext]_surveyVars

\* The batch that the entry for target i was made from.
Entry(i) == batch[results[i]]

-----------------------------------------------------------------------------
(* Runbooks. *)

\* The rows of a step, and those its assertion looks at.
Members(rows, s) == {k \in DOMAIN rows : requests[k][1] = s}
JudgedRows(rows, s) ==
    {rows[k] : k \in {m \in Members(rows, s) :
                          plan.steps[s].scope \in {0, requests[m][2]}}}

\* Mutant: an error row is judged by its empty output.
MutEvaluate(expect, seen) ==
    CASE expect = "present" -> "same" \in Outputs(seen)
      [] expect = "absent"  -> "other" \notin Outputs(seen)
      [] expect = "exit0"   -> seen \subseteq Healthy

\* An assertion on the joined outputs and the aggregate exit code.
EvaluateExpect(expect, seen) ==
    /\ seen \cap Failed = {}
    /\ CASE expect = "present" -> "same" \in Outputs(seen)
         [] expect = "absent"  -> "other" \notin Outputs(seen)
         [] expect = "exit0"   -> seen \subseteq Healthy

Asserted == {s \in DOMAIN plan.steps :
                ~Skipped(plan.steps[s]) /\ plan.steps[s].expect # "none"}

\* A step without a row is left out of the target's steps.
FoldVerdict(checked, held) ==
    IF checked = {} THEN "none" ELSE IF checked \subseteq held THEN "pass" ELSE "fail"

TargetVerdict(rows) ==
    IF rows = Unreachable THEN IF Asserted = {} THEN "none" ELSE "fail"
    ELSE LET checked == {s \in Asserted : Members(rows, s) # {}}
         IN  FoldVerdict(checked,
                {s \in checked : EvaluateExpect(plan.steps[s].expect,
                                                JudgedRows(rows, s))})

\* The verdict of the whole runbook.
Verdict ==
    LET verdicts == {TargetVerdict(Entry(i)) : i \in Indices} \ {"none"}
    IN  IF verdicts = {} THEN "none"
        ELSE IF "fail" \in verdicts THEN "fail" ELSE "pass"

-----------------------------------------------------------------------------
(* Comparisons. *)

\* Mutant: only rows with an error fail the target (as before V0.4.4).
MutComparable(row) == row \notin Failed

\* commandStatus SUCCESS and no error.
Comparable(row) == row \in Healthy

Ok(i) == Entry(i) # Unreachable /\ \A row \in Range(Entry(i)) : Comparable(row)

\* The multiset of lines that a batch printed.
LineCounts(rows) == [o \in Healthy |-> Cardinality({k \in DOMAIN rows : rows[k] = o})]

Buckets ==
    {{j \in Indices : Ok(j) /\ LineCounts(Entry(j)) = LineCounts(Entry(i))} :
        i \in {i \in Indices : Ok(i)}}

\* The largest bucket, the one met first among equals.
Majority ==
    CHOOSE g \in Buckets : \A h \in Buckets :
        \/ Cardinality(g) > Cardinality(h)
        \/ Cardinality(g) = Cardinality(h) /\ Min(g) <= Min(h)
Outliers == {i \in UNION Buckets : i \notin Majority}

-----------------------------------------------------------------------------
(* Inspections and baselines. *)

\* resolveProfile; a name it does not know stands for basic.
BasicProfile == <<"read">>
FullProfile == <<"read", "read">>
ResolveProfile(name) == IF name = "full" THEN FullProfile ELSE BasicProfile

\* profiles.join(',') of the profiles that were used.
Recorded(name) == IF name = "full" THEN "basic,network" ELSE name

\* applyProbe fills in a field from an output, also from that of a command that
\* failed; an error, a failure that printed nothing and an empty output leave
\* it as in an empty inventory.
Fills(row) == Printed(row) # "nothing"

\* What the inventory of a target knows of each probe.
Facts(rows) ==
    [p \in DOMAIN FullProfile |->
        LET told == {k \in DOMAIN rows : requests[k][2] = p /\ Fills(rows[k])}
        IN  IF told = {} THEN "nothing" ELSE Printed(rows[CHOOSE k \in told : TRUE])]

\* diffHost: one host of the baseline against the inventory of now.
HostDrift(i) ==
    IF Entry(i) = Unreachable THEN "unreachable"
    ELSE IF Facts(Entry(i)) = plan.before THEN "unchanged" ELSE "changed"

-----------------------------------------------------------------------------
(* The target answered every command, each of them with success.            *)
Whole(rows) ==
    rows # Unreachable /\ Len(rows) = Len(requests) /\ Range(rows) \subseteq Healthy

(* A group of a comparison holds exactly the targets that answered every    *)
(* command with success, and holds together those that printed the same: a  *)
(* target that timed out, failed or was lost half-way is never "identical"  *)
(* to the others (compare.ts:14-15), whatever order the answers came in.    *)
GroupsAreWhole ==
    call = "resolved" /\ plan.tool = "compare" =>
        /\ \A i \in Indices : (\E g \in Buckets : i \in g) <=> Whole(batch[i])
        /\ \A g \in Buckets : \A i, j \in g :
               LineCounts(batch[i]) = LineCounts(batch[j])
        /\ \A i \in Outliers : \A j \in Majority :
               LineCounts(batch[i]) # LineCounts(batch[j])

\* The answers of target i that a step's assertion is about.
InView(i, s) == {batch[i][k] : k \in {m \in DOMAIN batch[i] :
                    /\ requests[m][1] = s
                    /\ plan.steps[s].scope \in {0, requests[m][2]}}}

(* Good news is backed by what the targets said.  A target passes only if   *)
(* it was entered, none of the asserted answers was an error or against the *)
(* assertion, and what had to be present was seen; a runbook passes only if *)
(* nothing failed; and a host is unchanged only if each fact of its         *)
(* baseline was seen again now (baseline-store.ts:128, runbook.ts:150,      *)
(* README.md:74).                                                           *)
NothingPassesUnseen ==
    call = "resolved" =>
        /\ plan.tool = "runbook" =>
              \A i \in Indices :
                  Verdict = "pass" \/ TargetVerdict(Entry(i)) = "pass" =>
                  \/ Asserted = {}
                  \/ /\ batch[i] # Unreachable
                     /\ \A s \in Asserted :
                          /\ InView(i, s) \cap Failed = {}
                          /\ plan.steps[s].expect = "present" /\ InView(i, s) # {} =>
                                "same" \in Outputs(InView(i, s))
                          /\ plan.steps[s].expect = "absent" =>
                                "other" \notin Outputs(InView(i, s))
                          /\ plan.steps[s].expect = "exit0" => InView(i, s) \subseteq Healthy
        /\ plan.tool = "drift" =>
              \A i \in Indices : HostDrift(i) = "unchanged" =>
                  /\ batch[i] # Unreachable
                  /\ \A p \in DOMAIN plan.before : plan.before[p] # "nothing" =>
                        \E k \in DOMAIN batch[i] :
                            requests[k][2] = p /\ Printed(batch[i][k]) = plan.before[p]

(* Known not to hold: 'pass' means that every assertion held                *)
(* (runbook.ts:114).  The steps after the one that lost the shell have no   *)
(* row, hence no check, and the target passes on those that ran.            *)
PassMeansAsked ==
    call = "resolved" /\ plan.tool = "runbook" =>
        \A i \in Indices : TargetVerdict(Entry(i)) = "pass" =>
            \A s \in Asserted : Members(batch[i], s) # {}

(* Known not to hold: a host on which nothing changed is not reported as    *)
(* changed (baseline-store.ts:128, "only REAL differences are reported").   *)
(* The profile a full baseline records is no profile's name, so that it is  *)
(* compared with the answers of the basic probes alone.                     *)
DriftIsReal ==
    call = "resolved" /\ plan.tool = "drift" =>
        \A i \in Indices :
            /\ batch[i] # Unreachable
            /\ \A k \in DOMAIN batch[i] : Printed(batch[i][k]) = plan.before[requests[k][2]]
            => HostDrift(i) = "unchanged"
=============================================================================
