------------------------- MODULE CommandClassifier -------------------------
(***************************************************************************)
(* What a shell command may do, as security/command-classifier.ts and      *)
(* security/sql-command-classifier.ts judge it from its text.  A command   *)
(* is kept as the tree its author meant: runs of a tool, wrapped, quoted,  *)
(* substituted and joined.  The classifier sees text, so what it can see   *)
(* of a tree (Visible, Everything, Segments) is part of the model.         *)
(***************************************************************************)
EXTENDS Integers, Sequences, FiniteSets

CONSTANTS Runs,       \* the runs of a tool commands are built from
          Partners,   \* those that are joined to a command
          MaxNodes,   \* bound on the nodes of a command
          DepthLimit  \* how deep classifyInnerFully looks

VARIABLE cmd

Levels == [READ |-> 0, PRIVILEGED_READ |-> 1, UNKNOWN |-> 2, MODIFY |-> 3, DANGEROUS |-> 4]
Risks == DOMAIN Levels
None == "none"
Worst(S) == CHOOSE r \in S : \A q \in S : Levels[q] <= Levels[r]
Readable(r) == r \in {"READ", "PRIVILEGED_READ"}

-----------------------------------------------------------------------------
(* The rules.  A run is a tool with the form of its arguments: "query" is *)
(* one the tables know to read, "change" one they know to change, "other" *)
(* one they do not know, and "masked" one they do not know with a word of *)
(* a reading form somewhere behind it.                                    *)

\* semanticV21, in the order of the source: how a tool's forms are judged.
HostTools == [hostname |-> "writer", date |-> "writer", journalctl |-> "writer", dmesg |-> "writer"]
EstateTools == [sapcontrol |-> "verb", HDB |-> "verb", lsnrctl |-> "verb", showmount |-> "lister",
                jstack |-> "verb"]
TextTools == [sysctl |-> "writer", sort |-> "writer", uniq |-> "writer", sed |-> "writer",
              awk |-> "doubtful", systemctl |-> "lister"]
ClusterTools == [ip |-> "verb", kubectl |-> "verb", bash |-> "lister", openssl |-> "verb",
                 crontab |-> "reader", ulimit |-> "writer"]
DataTools == [redis |-> "redis"]
HardwareTools == [ipmitool |-> "verb", crm_mon |-> "pure", crm |-> "lister", tmpfiles |-> "verb",
                  ufw |-> "verb", auditctl |-> "verb", mdadm |-> "verb", exportfs |-> "reader"]
ServiceTools == [php |-> "verb", mysqld |-> "reader", stty |-> "reader", hdbuserstore |-> "verb",
                 hdbnsutil |-> "lister", saphostexec |-> "verb", saposcol |-> "reader",
                 command |-> "lister", jq |-> "pure"]

\* What each way of judging says; None leaves the run to the reader rules.
Judged ==
  [writer   |-> [query |-> "READ", change |-> "MODIFY", other |-> "READ"],
   verb     |-> [query |-> "READ", change |-> "MODIFY", other |-> None],
   lister   |-> [query |-> "READ", change |-> None,     other |-> None],
   reader   |-> [query |-> "READ", change |-> "MODIFY", other |-> "MODIFY"],
   pure     |-> [query |-> "READ", change |-> "READ",   other |-> "READ"],
   doubtful |-> [query |-> "READ", change |-> "MODIFY", other |-> "UNKNOWN"],
   redis    |-> [query |-> "READ", change |-> "MODIFY", other |-> "UNKNOWN", wipe |-> "DANGEROUS"]]

SemanticTables == {HostTools, EstateTools, TextTools, ClusterTools, DataTools, HardwareTools, ServiceTools}
Semantic(r) ==
  LET known == {T \in SemanticTables : r.tool \in DOMAIN T}
      way   == Judged[(CHOOSE T \in known : TRUE)[r.tool]]
  IN IF known # {} /\ r.form \in DOMAIN way THEN way[r.form] ELSE None

\* READ_RULES: readers with any arguments, with a verb, and with a rule of their own.
AnyReaders == {"cat", "find", "curl", "hostnamectl"}
VerbReaders == {"nginx", "podman", "supervisorctl"}
RuledReaders == {"docker", "kubectl", "mount", "nmcli", "yum", "tar", "service", "strace", "tcpdump"}
KnownModifiers == {"wget"}

DockerRule(f) == CASE f = "query" -> "READ" [] f = "change" -> "MODIFY" [] OTHER -> None
KubectlRule(f) == CASE f = "query" -> "READ" [] f = "change" -> "MODIFY" [] OTHER -> None
TraceRules(f) == CASE f = "query" -> "READ" [] f = "change" -> "MODIFY" [] OTHER -> None
ServiceRules(t, f) ==
  CASE f = "query" -> "READ"
    [] f = "change" /\ t # "tar" -> "MODIFY"
    [] t = "mount" -> "MODIFY"
    [] OTHER -> None
Special(r) == CASE r.tool = "docker"  -> DockerRule(r.form)
                [] r.tool = "kubectl" -> KubectlRule(r.form)
                [] r.tool \in {"strace", "tcpdump"} -> TraceRules(r.form)
                [] r.tool \in RuledReaders -> ServiceRules(r.tool, r.form)
                [] OTHER -> None

\* find -delete, curl -o, ...: what even a reader with any arguments may not do.
Forbidden(r) == r.tool \in {"find", "curl"} /\ r.form = "change"
\* Some word of the command is in the tool's verb list, wherever it stands.
HasReaderVerb(r) ==
  /\ r.tool \in VerbReaders \cup {"docker", "kubectl", "yum", "nmcli", "systemctl"}
  /\ r.form \in {"query", "masked"}

\* classifyPlainSegment
Plain(r) ==
  CASE Semantic(r) # None -> Semantic(r)
    [] r.tool \in KnownModifiers -> "MODIFY"
    [] Special(r) # None -> Special(r)
    [] r.tool \in AnyReaders -> IF Forbidden(r) THEN "MODIFY" ELSE "READ"
    [] HasReaderVerb(r) -> "READ"
    [] OTHER -> "UNKNOWN"

-----------------------------------------------------------------------------
(* The text of a command.                                                  *)

\* `sudo c`, `env c`, `do c`, `nohup c`, `watch c` and `kubectl exec p -- c` take one segment;
\* `su - u -c 'c'` and `sh -c 'c'` quote a command; `X=$(c)` and `tool $(c)` substitute one;
\* `env -i c` is "flagged": its option takes no argument, and `rest` tells what follows the first
\* word of c; "lines" is a command under another one, "proc" is `tool <(c)`.
Wrappers == {"sudo", "env", "do", "nohup", "watch", "exec"}
Quoting == {"su", "sh"}
Substituting == {"assign", "arg"}
Trailing == {"lines", "proc"}
Tool(t, f) == [op |-> "run", tool |-> t, form |-> f]

RECURSIVE Nodes(_), Visible(_), Everything(_), Segments(_), Substitutions(_, _)
Nodes(c) == CASE c.op = "run" -> 1
              [] c.op = "list" -> 1 + Nodes(c.first) + Nodes(c.second)
              [] OTHER -> 1 + Nodes(c.of)
Inner(c) == CASE c.op = "run"  -> {}
              [] c.op = "list" -> {c.first, c.second}
              [] c.op \in Trailing \cup {"arg"} -> {c.host, c.of}
              [] OTHER -> {c.of}

\* maskQuoted: the words that are not inside quotes.
Visible(c) == {c} \cup IF c.op \in Quoting THEN {} ELSE UNION {Visible(d) : d \in Inner(c)}
Everything(c) == {c} \cup UNION {Everything(d) : d \in Inner(c)}

\* splitSegments: separators inside quotes and substitutions stay where they are, and neither a
\* newline nor `<(` is one.
Segments(c) == IF c.op = "list" THEN Segments(c.first) \cup Segments(c.second) ELSE {c}

Substitutions(c, quoted) ==
  CASE c.op \in Substituting -> {c.of}
    [] c.op \in Quoting -> IF quoted THEN Substitutions(c.of, quoted) ELSE {}
    [] OTHER -> UNION {Substitutions(d, quoted) : d \in Inner(c)}
AllSubstitutions(c) == Substitutions(c, TRUE)
\* extractActiveSubstitutions: in single quotes `$(` is text.
ActiveSubstitutions(c) == Substitutions(c, FALSE)

\* The run a segment starts with, past the keywords and wrappers that are peeled off.
RECURSIVE Past(_, _)
Past(c, ops) == IF c.op \in ops THEN Past(c.of, ops) ELSE c
\* segmentExecutable
CommandPosition(c) == LET h == Past(c, {"write", "do", "env", "sudo"})
                      IN CASE h.op = "run" -> h
                           [] h.op \in Trailing \cup {"arg"} -> h.host
                           [] OTHER -> Tool(None, "query")
Starts(c, op) == Past(c, {"write"}).op = op
Body(c) == Past(c, {"write"}).of

-----------------------------------------------------------------------------
(* The scans over the whole text.                                          *)

PatternRun(c) == c.op = "run" /\ (c.tool = "mkfs" \/ (c.tool \in {"mysql", "hdbsql"} /\ "drop" \in c.form))
DestructiveRun(r) == r.tool = "reboot" \/ (r.tool = "systemctl" /\ r.form = "wipe")
OpaqueNode(c) == c.op = "sh" \/ (c.op = "run" /\ c.tool = "python")
ScopedVerbs == {Tool(t, "change") : t \in {"systemctl", "service", "yum", "tar", "sed", "nmcli", "hostnamectl"}}
WritesFile(c) == c.op = "write"
MutatingNode(c) == WritesFile(c) \/ c \in ScopedVerbs \/ (c.op = "run" /\ c.tool = "rm")

RECURSIVE DetectDangerous(_, _)
DetectDangerous(c, depth) ==
  /\ depth <= 3
  /\ \/ \E n \in Everything(c) : PatternRun(n)
     \/ \E s \in Segments(c) : DestructiveRun(CommandPosition(s))
     \/ \E s \in Segments(c) : (Starts(s, "sh") \/ Starts(s, "exec")) /\ DetectDangerous(Body(s), depth + 1)
     \/ \E d \in AllSubstitutions(c) : DetectDangerous(d, depth + 1)

ScanWholeCommand(c) ==
  CASE DetectDangerous(c, 0) -> "DANGEROUS"
    [] \E s \in Segments(c) : ~Starts(s, "exec") /\ \E n \in Visible(s) : OpaqueNode(n) -> "UNKNOWN"
    [] \E n \in Visible(c) : MutatingNode(n) -> "MODIFY"
    [] OTHER -> None

-----------------------------------------------------------------------------
(* The pipeline.                                                           *)

SudoRisk(inner) == IF inner = "READ" THEN "PRIVILEGED_READ" ELSE inner
NohupRisk(inner) == IF inner = "PRIVILEGED_READ" THEN "UNKNOWN" ELSE inner

RECURSIVE ClassifySegment(_), Behind(_, _), Full(_, _)
SubstitutionFloor(c, depth) == Worst({"READ"} \cup {Full(d, depth + 1) : d \in ActiveSubstitutions(c)})
\* classifyExecInner: the script of an inner `sh -c` is taken out of its quotes.
ExecRisk(c) == Full(IF c.op = "sh" THEN c.of ELSE c, 0)

ClassifySegment(c) ==
  CASE c.op = "run" -> Plain(c)
    [] c.op = "assign" -> "READ"
    [] c.op \in Trailing \cup {"arg"} -> Plain(c.host)
    [] c.op = "flagged" -> Behind(c.of, c.rest)
    [] c.op \in {"do", "env", "write"} -> ClassifySegment(c.of)
    [] c.op \in {"sudo", "su"} -> SudoRisk(Full(c.of, 0))
    [] c.op = "nohup" -> NohupRisk(Full(c.of, 0))
    [] c.op = "watch" -> Full(c.of, 0)
    [] c.op = "exec" -> ExecRisk(c.of)
    [] OTHER -> "UNKNOWN"

\* stripWrapper: the word behind an option is taken for its argument and dropped, and what is
\* left is judged; nothing left is a wrapper that only lists its environment.
Behind(c, rest) ==
  CASE c.op = "run" -> IF rest = "other" THEN "UNKNOWN" ELSE "READ"
    [] c.op = "flagged" -> Behind(c.of, c.rest)
    [] c.op \in {"sudo", "env", "nohup", "watch"} -> ClassifySegment(c.of)
    [] OTHER -> "UNKNOWN"

\* classifyInnerFully
Full(c, depth) ==
  CASE depth > DepthLimit -> "UNKNOWN"
    [] ScanWholeCommand(c) # None -> ScanWholeCommand(c)
    [] SubstitutionFloor(c, depth) # "READ" -> SubstitutionFloor(c, depth)
    [] OTHER -> Worst({"READ"} \cup {ClassifySegment(s) : s \in Segments(c)})
BaseCommand(c) == Full(c, 0)

-----------------------------------------------------------------------------
(* The clients of databases, judged before the shell rules when the whole *)
(* command is one call of theirs.  Their form is a set of statements.     *)

MysqlStatement ==
  [select |-> "READ", show |-> "READ", explain |-> "READ", explainOther |-> "UNKNOWN", lock |-> "UNKNOWN",
   outfile |-> "MODIFY", maintain |-> "MODIFY", dml |-> "MODIFY", drop |-> "DANGEROUS", call |-> "UNKNOWN"]
HanaStatement ==
  [select |-> "READ", show |-> "UNKNOWN", explain |-> "READ", explainOther |-> "UNKNOWN", lock |-> "UNKNOWN",
   meta |-> "READ", dml |-> "MODIFY", drop |-> "DANGEROUS", call |-> "UNKNOWN"]

\* shellTokens knows no separator, no substitution and no file: anything else is no client call.
ClientCall(c) == Past(c, {"env", "sudo"})
\* splitSqlStatements: an open quote or comment leaves nothing to judge.
Statements(r) == IF "open" \in r.form THEN {} ELSE r.form
MysqlCli(r) == IF Statements(r) = {} THEN "UNKNOWN" ELSE Worst({MysqlStatement[s] : s \in Statements(r)})
\* hdbsql -o and its like read or write a file, whatever is asked.
HanaCli(r) == IF Statements(r) = {} \/ "file" \in r.form THEN "UNKNOWN"
              ELSE Worst({HanaStatement[s] : s \in Statements(r)})

\* permission.ts, the classifier the gates use.
ClassifyCommand(c) ==
  LET r == ClientCall(c)
  IN CASE r.op = "run" /\ r.tool = "mysql" -> MysqlCli(r)
       [] r.op = "run" /\ r.tool = "hdbsql" -> HanaCli(r)
       [] OTHER -> BaseCommand(c)

-----------------------------------------------------------------------------
(* Every command of at most MaxNodes nodes is built step by step.          *)

Init == cmd \in Runs

Prefixable(c) == c.op \notin {"do", "list", "assign", "lines"}
Wrap == \E w \in Wrappers : Prefixable(cmd) /\ cmd' = [op |-> w, of |-> cmd]
\* What follows the first word of c: nothing but options, a run the tables read, or other words.
Rests(c) == {"other"} \cup IF c.op # "run" \/ c.tool \in {"mysql", "hdbsql"} THEN {}
                           ELSE {"nothing"} \cup IF c.form \in {"other", "masked"} THEN {"reader"} ELSE {}
Flag == \E rest \in Rests(cmd) : Prefixable(cmd) /\ cmd' = [op |-> "flagged", of |-> cmd, rest |-> rest]
Introduce == cmd.op = "assign" /\ cmd' = [op |-> "do", of |-> cmd]
Redirect == Prefixable(cmd) /\ cmd' = [op |-> "write", of |-> cmd]
Quote == \E q \in Quoting : cmd' = [op |-> q, of |-> cmd]
Assign == cmd' = [op |-> "assign", of |-> cmd]
Substitute == \E p \in Partners : cmd' = [op |-> "arg", host |-> p, of |-> cmd]
\* Only behind a reader of any arguments are the words of another command surely no others.
Trail == \E p \in Partners, t \in Trailing :
  /\ p.tool \in AnyReaders
  /\ IF t = "proc" THEN Prefixable(cmd) ELSE cmd.op # "list"
  /\ cmd' = [op |-> t, host |-> p, of |-> cmd]
Join == \E p \in Partners : \/ cmd' = [op |-> "list", first |-> cmd, second |-> p]
                            \/ cmd' = [op |-> "list", first |-> p, second |-> cmd]

Next == Nodes(cmd) < MaxNodes /\ (Wrap \/ Flag \/ Introduce \/ Redirect \/ Quote \/ Assign \/ Substitute \/ Trail \/ Join)
Spec == Init /\ [][Next]_cmd

-----------------------------------------------------------------------------
\* The nodes of a command that the classifier sees where the shell runs them: not the word behind
\* a wrapper's option, nor what stands on a later line or in `<( )`.
RECURSIVE Shown(_)
Shown(c) ==
  {c} \cup CASE c.op = "flagged" -> IF c.of.op = "flagged" THEN Shown(c.of)
                                     ELSE UNION {Shown(d) : d \in Inner(c.of)}
             [] c.op \in Trailing -> Shown(c.host)
             [] OTHER -> UNION {Shown(d) : d \in Inner(c)}

(* A command that is called READ consists, as far as the classifier sees  *)
(* it, of runs that are each confirmed to read, writes no file and, but   *)
(* for a client's call, runs nothing as somebody else: no wrapping,       *)
(* quoting, substitution or joining hides a run from the pipeline         *)
(* (command-classifier.ts:23-24). What it does not see is exempt: see     *)
(* NothingEscapes.                                                        *)
RunRisk(r) == ClassifyCommand(r)
Proved(n) ==
  /\ n.op # "write"
  /\ n.op = "run" => RunRisk(n) = "READ"
  /\ n.op \in {"sudo", "su"} => ClientCall(cmd).op = "run"

(* Nothing that is put around a command, or next to it, turns one that    *)
(* asks in AUTO into one that does not, but for a wrapper's option, a     *)
(* newline and `<( )` (WrappingNeverDowngrades). An exec may, which opens *)
(* the quotes of the script it runs, and so does a substitution that      *)
(* needs sudo: WorstWins below.                                           *)
PrivilegedFloor(c) == \E n \in Everything(c) : SubstitutionFloor(n, 0) = "PRIVILEGED_READ"

(* Known not to hold: READ is "CONFIRMED read-only"                       *)
(* (command-classifier.ts:7), of the whole command. The run behind the    *)
(* option of a wrapper, a later line and a process substitution are never *)
(* looked at as commands.                                                 *)
NothingEscapes == ClassifyCommand(cmd) = "READ" => \A n \in Everything(cmd) : Proved(n)

(* Known not to hold: "Wrapping (env/timeout/nice, any depth) and sudo    *)
(* NEVER downgrade the inner command's risk" (command-classifier.ts:23).  *)
(* An option of the wrapper takes the inner command's first word with it, *)
(* and any of them keeps the danger scan out of the script of a `sh -c`   *)
(* (:1842-1848), which then is UNKNOWN and no longer DANGEROUS.           *)
WrappingNeverDowngrades ==
  cmd.op \in {"env", "sudo", "flagged"} =>
    Levels[ClassifyCommand(cmd)] >= Levels[ClassifyCommand(cmd.of)]

(* Known not to hold: "every segment must classify; take the worst result *)
(* (never downgrade)" (command-classifier.ts:1988), a list is no more     *)
(* readable than its parts. A substitution that needs sudo ends the       *)
(* judgement before the segments are looked at, and a newline ends no     *)
(* segment.                                                               *)
WorstWins ==
  /\ cmd.op = "list" /\ Readable(ClassifyCommand(cmd)) =>
       Readable(ClassifyCommand(cmd.first)) /\ Readable(ClassifyCommand(cmd.second))
  /\ cmd.op = "lines" /\ Readable(ClassifyCommand(cmd)) => Readable(ClassifyCommand(cmd.of))
=============================================================================
