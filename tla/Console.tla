------------------------------- MODULE Console -------------------------------
(***************************************************************************)
(* The ops console of a workspace (runtime/audit-viewer.ts,                *)
(* runtime/console-address.ts): every connector process serves a page;     *)
(* one of them holds the stable address, the others a private port, and    *)
(* each keeps a discovery file that the others read, prune and hand a page *)
(* over by.                                                                *)
(*                                                                         *)
(* A process does one synchronous piece of work at a time; writing its     *)
(* file is the one that others can see half done.  Times are what they are *)
(* compared with: a file is fresh, or older than the 20 seconds no living  *)
(* process lets pass.  The stable address is meant (stableUrl, the         *)
(* default).                                                               *)
(***************************************************************************)
EXTENDS Naturals, FiniteSets

CONSTANTS Procs,
          Nobody,    \* no process
          Stranger,  \* a program of somebody else's that may hold the address
          DeadAfter, \* DEAD_AFTER_FAILURES
          Rotations  \* bound: tokens a process mints

ASSUME ConsoleAssumption ==
  /\ Nobody \notin Procs /\ Stranger \notin Procs
  /\ DeadAfter \in Nat \ {0} /\ Rotations \in Nat

VARIABLES life,     \* process -> "new", "up" or "over"
          holder,   \* who listens at the stable address
          main,     \* process -> its consoleServer: "off", "trying", "idle" or "bound"
          role,     \* process -> consoleRole
          private,  \* process -> its follower listener: "none", "asked", "on" or "failed"
          file,     \* process -> its discovery file
          busy,     \* process -> what it is in the middle of: "no", "write" or "beat"
          token,    \* process -> the number of its token, and whether that has expired
          page      \* the page

vars == <<life, holder, main, role, private, file, busy, token, page>>

Address == "stable"  \* the port the configuration names
ASSUME AddressAssumption == Address \notin Procs \cup {Nobody}

NoFile == [is |-> "none"]
NoPage == [is |-> "none"]
Idle(p) == life[p] = "up" /\ busy[p] = "no"
-----------------------------------------------------------------------------
(* What a process publishes, and what the others make of it.               *)

\* Mutant: everybody publishes the address they were given.
MutPort(p) == IF role[p] = "none" THEN Nobody ELSE Address

\* publishedPort; Nobody stands for 0, a process for the private port of its own.
Port(p) == IF role[p] = "owner" THEN Address ELSE IF private[p] = "on" THEN p ELSE Nobody

\* listConsoleInstances
Listed == {p \in Procs : file[p].is = "fresh"}

\* Who answers at a port.
Server(port) ==
  IF port = Address THEN holder
  ELSE IF port \in Procs /\ life[port] = "up" /\ private[port] = "on" THEN port ELSE Nobody

\* writeConsoleFile: cuts the file off, and ends in Written.  No port, no file.
Writes(p, then) ==
  /\ busy' = [busy EXCEPT ![p] = then]
  /\ file' = IF Port(p)' = Nobody THEN file ELSE [file EXCEPT ![p] = [is |-> "torn"]]

\* pruneStale: also what it cannot read, because it is being written.
Pruned(p, files) == [q \in Procs |-> IF files[q].is = "fresh" THEN files[q] ELSE NoFile]

\* Mutant: only a process without a page of its own looks for the address.
MutTakeover(p) == IF main[p] = "idle" /\ private[p] # "on" THEN "trying" ELSE main[p]

\* attemptConsoleTakeover
Takeover(p) == IF main[p] = "idle" THEN "trying" ELSE main[p]

\* The file is written, unless somebody has pruned it; then the rest of a beat.
Written(p) ==
  /\ life[p] = "up" /\ busy[p] # "no"
  /\ LET files == IF file[p].is # "torn" THEN file
                  ELSE [file EXCEPT ![p] = [is |-> "fresh", port |-> Port(p), role |-> role[p]]]
     IN IF busy[p] = "beat"
        THEN file' = Pruned(p, files) /\ main' = [main EXCEPT ![p] = Takeover(p)]
        ELSE file' = files /\ UNCHANGED main
  /\ busy' = [busy EXCEPT ![p] = "no"]
  /\ UNCHANGED <<life, holder, role, private, token, page>>

\* The timer of startHeartbeat, every five seconds.
Beat(p) ==
  /\ Idle(p)
  /\ UNCHANGED <<life, holder, main, role, private, token, page>>
  /\ Writes(p, "beat")
-----------------------------------------------------------------------------
(* The listeners.                                                          *)

\* startAuditViewer
Start(p) ==
  /\ life[p] = "new"
  /\ life' = [life EXCEPT ![p] = "up"] /\ main' = [main EXCEPT ![p] = "trying"]
  /\ UNCHANGED <<holder, role, private, file, busy, token, page>>

\* 'listening'
Bind(p) ==
  /\ Idle(p) /\ main[p] = "trying" /\ holder = Nobody
  /\ holder' = p
  /\ main' = [main EXCEPT ![p] = "bound"] /\ role' = [role EXCEPT ![p] = "owner"]
  /\ UNCHANGED <<life, private, token, page>>
  /\ Writes(p, "write")

\* 'error' EADDRINUSE: the address is adopted, and a private listener asked for, once.
Adopt(p) ==
  /\ Idle(p) /\ main[p] = "trying" /\ holder # Nobody
  /\ main' = [main EXCEPT ![p] = "idle"]
  /\ private' = [private EXCEPT ![p] = IF @ = "none" THEN "asked" ELSE @]
  /\ UNCHANGED <<life, holder, role, file, busy, token, page>>

\* Mutant: the late listener takes the role back.
MutAfterwards(p) == "follower"

\* A later takeover flips the role to owner; never back.
Afterwards(p) == IF role[p] = "owner" THEN "owner" ELSE "follower"

Listening(p) ==
  /\ Idle(p) /\ private[p] = "asked"
  /\ private' = [private EXCEPT ![p] = "on"]
  /\ role' = [role EXCEPT ![p] = Afterwards(p)]
  /\ UNCHANGED <<life, holder, main, token, page>>
  /\ Writes(p, "write")

NotListening(p) ==
  /\ Idle(p) /\ private[p] = "asked"
  /\ private' = [private EXCEPT ![p] = "failed"]
  /\ UNCHANGED <<life, holder, main, role, file, busy, token, page>>

\* The process ends.  Killed, it leaves its file, whole or torn; onProcessExit
\* removes it.
Ends(p, leaves) ==
  /\ life[p] = "up" /\ (leaves \/ busy[p] = "no")
  /\ life' = [life EXCEPT ![p] = "over"]
  /\ holder' = IF holder = p THEN Nobody ELSE holder
  /\ main' = [main EXCEPT ![p] = "off"] /\ private' = [private EXCEPT ![p] = "none"]
  /\ role' = [role EXCEPT ![p] = "none"] /\ busy' = [busy EXCEPT ![p] = "no"]
  /\ file' = IF leaves THEN file ELSE [file EXCEPT ![p] = NoFile]
  /\ UNCHANGED <<token, page>>

\* Twenty seconds after a process was killed.
Stale(p) ==
  /\ life[p] = "over" /\ file[p].is = "fresh"
  /\ file' = [file EXCEPT ![p] = [is |-> "stale"]]
  /\ UNCHANGED <<life, holder, main, role, private, busy, token, page>>

StrangerLeaves ==
  /\ holder = Stranger /\ holder' = Nobody
  /\ UNCHANGED <<life, main, role, private, file, busy, token, page>>
-----------------------------------------------------------------------------
(* Tokens, and the page.                                                   *)

\* rotateConsoleAccessToken
Rotate(p) ==
  /\ Idle(p) /\ token[p].no < Rotations
  /\ token' = [token EXCEPT ![p] = [no |-> @.no + 1, expired |-> FALSE]]
  /\ UNCHANGED <<life, holder, main, role, private, page>>
  /\ Writes(p, "write")

Expire(p) ==
  /\ life[p] = "up" /\ ~token[p].expired
  /\ token' = [token EXCEPT ![p].expired = TRUE]
  /\ UNCHANGED <<life, holder, main, role, private, file, busy, page>>

\* GET /, served by s at a port, for the instance home: the token is in the page.
Loaded(s, port, home) ==
  [is |-> "open", at |-> port, from |-> s, no |-> token[s].no, home |-> home,
   claims |-> s, shows |-> s, fails |-> 0, overlay |-> FALSE, last |-> "none"]

\* resolveConsoleHandover, isPinLive, stalePinFallback, and the probe of maybeHandover.
Handed(s, port, home) ==
  IF home = Nobody \/ home = s THEN Loaded(s, port, home)
  ELSE IF home \notin Listed THEN Loaded(s, port, Nobody)
  ELSE IF file[home].port # Port(s) /\ Server(file[home].port) \in Procs
       THEN Loaded(Server(file[home].port), file[home].port, home)
  ELSE Loaded(s, port, home)

\* The operator opens what the connector published, or a bookmark.
Open(home) ==
  /\ holder \in Procs /\ Idle(holder)
  /\ page' = Handed(holder, Address, home)
  /\ UNCHANGED <<life, holder, main, role, private, file, busy, token>>

\* The handler's answer to a page's request: the token is of the process and of now.
Granted(s) == page.from = s /\ page.no = token[s].no /\ ~token[s].expired

\* F: any answer clears the overlay, an expired token reloads the page, ...
Answered ==
  /\ page.is = "open"
  /\ LET s == Server(page.at) IN
     /\ s \in Procs /\ Idle(s)
     /\ page' = IF token[s].expired THEN Loaded(s, page.at, page.home)
                ELSE [page EXCEPT !.fails = 0, !.overlay = FALSE,
                        !.last = IF Granted(s) THEN "answered" ELSE "refused"]
  /\ UNCHANGED <<life, holder, main, role, private, file, busy, token>>

\* ... and so many failures in a row show it.
Missed ==
  /\ page.is = "open" /\ Server(page.at) = Nobody /\ page.fails < DeadAfter
  /\ page' = [page EXCEPT !.fails = @ + 1, !.overlay = (page.fails + 1 = DeadAfter), !.last = "missed"]
  /\ UNCHANGED <<life, holder, main, role, private, file, busy, token>>

\* pollInstances, applyInstance: the page moves to the instance it was opened for, or
\* puts that one's page into its own under its name, or says that it is gone.
Look ==
  /\ page.is = "open" /\ page.home # Nobody /\ page.home # page.from
  /\ LET s == page.from IN
     /\ Server(page.at) = s /\ Idle(s) /\ Granted(s)
     /\ LET moved == Handed(s, page.at, page.home) IN
        page' = IF page.home \notin Listed THEN [page EXCEPT !.claims = s, !.shows = s]
                ELSE IF moved.from # s THEN moved
                ELSE IF Server(file[page.home].port) \notin Procs THEN page
                ELSE [page EXCEPT !.claims = page.home, !.shows = Server(file[page.home].port)]
  /\ UNCHANGED <<life, holder, main, role, private, file, busy, token>>

Close ==
  /\ page.is = "open" /\ page' = NoPage
  /\ UNCHANGED <<life, holder, main, role, private, file, busy, token>>
-----------------------------------------------------------------------------
Init ==
  /\ life = [p \in Procs |-> "new"] /\ holder \in {Nobody, Stranger}
  /\ main = [p \in Procs |-> "off"] /\ role = [p \in Procs |-> "none"]
  /\ private = [p \in Procs |-> "none"] /\ file = [p \in Procs |-> NoFile]
  /\ busy = [p \in Procs |-> "no"]
  /\ token = [p \in Procs |-> [no |-> 1, expired |-> FALSE]]
  /\ page = NoPage

Turn(p) == Written(p) \/ Beat(p) \/ Bind(p) \/ Adopt(p) \/ Listening(p) \/ NotListening(p)
Browser == (\E home \in Procs \cup {Nobody} : Open(home)) \/ Answered \/ Missed \/ Look \/ Close

Next ==
  \/ \E p \in Procs : \/ Start(p) \/ Turn(p) \/ Rotate(p) \/ Expire(p) \/ Stale(p)
                      \/ \E leaves \in BOOLEAN : Ends(p, leaves)
  \/ StrangerLeaves \/ Browser

\* The timer of a living process goes on, and its event loop comes round to an
\* attempt to listen, whatever it does in between.
Fairness == \A p \in Procs : /\ WF_vars(Beat(p)) /\ WF_vars(Written(p))
                            /\ SF_vars(Bind(p)) /\ SF_vars(Adopt(p))

Spec == Init /\ [][Next]_vars /\ Fairness
-----------------------------------------------------------------------------
Roles == {"none", "owner", "follower"}
FileType == {NoFile, [is |-> "torn"], [is |-> "stale"]}
              \cup [is : {"fresh"}, port : Procs \cup {Address}, role : Roles]
PageType == {NoPage} \cup
  [is : {"open"}, at : Procs \cup {Address}, from : Procs, no : Nat, home : Procs \cup {Nobody},
   claims : Procs, shows : Procs, fails : 0 .. DeadAfter, overlay : BOOLEAN,
   last : {"none", "answered", "refused", "missed"}]

TypeOK ==
  /\ life \in [Procs -> {"new", "up", "over"}]
  /\ holder \in Procs \cup {Nobody, Stranger}
  /\ main \in [Procs -> {"off", "trying", "idle", "bound"}]
  /\ role \in [Procs -> Roles]
  /\ private \in [Procs -> {"none", "asked", "on", "failed"}]
  /\ file \in [Procs -> FileType]
  /\ busy \in [Procs -> {"no", "write", "beat"}]
  /\ token \in [Procs -> [no : Nat, expired : BOOLEAN]]
  /\ page \in PageType

\* The process that holds the address says so, and no other living one does:
\* whenever its file can be read, it is of an owner and names the address, however
\* late the private listener it had asked for comes up
\* (audit-viewer.ts:2475-2481, 2194-2209).
HolderSaysSo ==
  \A p \in Procs : life[p] = "up" /\ file[p].is = "fresh" /\ busy[p] = "no" =>
    (holder = p) = (file[p].role = "owner" /\ file[p].port = Address)

\* A page that stands under the name of a process shows that process, as long as
\* it lives, and never another conversation's console
\* (audit-viewer.ts:2420-2458, 650-715).
UnderItsOwnName ==
  page.is = "open" /\ page.claims \in Procs /\ life[page.claims] = "up" => page.shows = page.claims

\* The address does not stay empty while a process of the workspace lives: the next
\* one takes it over (audit-viewer.ts:2509-2524).
AddressIsServed == []<>(holder # Nobody \/ \A p \in Procs : life[p] # "up")

\* Known not to hold: an open page resumes by itself when another process has
\* taken the address over (audit-viewer.ts:757-758). What clears its overlay is
\* any answer, and the new owner refuses its token.
PageResumes == page.is = "open" /\ ~page.overlay => page.last # "refused"

\* Known not to hold: no page stands under the name of a process that has ended
\* (audit-viewer.ts:702-704). A file tells of a dead process for twenty
\* seconds, and the port of one may be served by another.
NotForTheDead ==
  page.is = "open" /\ page.claims # page.from => page.shows = page.claims
=============================================================================
