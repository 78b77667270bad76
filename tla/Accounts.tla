------------------------------- MODULE Accounts -------------------------------
(***************************************************************************)
(* Which account a connector logs in as: the profiles file and the vault   *)
(* key it is sealed with (runtime/profile-store.ts, security/credential-   *)
(* vault.ts), the accounts' operations and the effective connection        *)
(* (runtime/runtime.ts), and the conversation's session, grant and asset   *)
(* listing that have to follow a switch (session-registry.ts, grant.ts,    *)
(* session-manager.ts connectLocked, dispose).                             *)
(*                                                                         *)
(* A host starts one connector process per conversation, and all of them   *)
(* share the two files.  A process is single-threaded and its file         *)
(* operations are synchronous: one that is busy in them does nothing else, *)
(* the others do.                                                          *)
(***************************************************************************)
EXTENDS Naturals, FiniteSets

CONSTANTS Procs,     \* the connector processes
          Talking,   \* bound: those whose conversation connects
          Ids, NoId, \* the profiles' ids
          Hosts,     \* the gateways a profile may name
          Form,      \* the gateway the connector form names
          Edits,     \* bound: account operations in a behaviour
          Kills      \* bound: processes killed

ASSUME AccountAssumption ==
  NoId \notin Ids /\ Form \notin Hosts /\ Talking \subseteq Procs /\ {Edits, Kills} \subseteq Nat

VARIABLES file,   \* profiles.json
          tmp,    \* profiles.json.tmp
          disk,   \* vault.key: the process that generated it, "empty" or "none"
          key,    \* process -> its cached key, or how far it is in loading one
          io,     \* process -> the account operation it is in
          call,   \* process -> the connect of its conversation
          pty,    \* process -> the login of its live session, or NoLogin
          cut,    \* process -> logins whose dial a dispose has overtaken
          ghosts, \* process -> logins of live PTYs nobody refers to any more
          held,   \* process -> the gateway its grant and its asset listing are for
          edits, kills, choice, acked, overlap, mintRace \* history

vars == <<file, tmp, disk, key, io, call, pty, cut, ghosts, held,
          edits, kills, choice, acked, overlap, mintRace>>
disks == <<file, tmp, disk, key>>
sessions == <<call, pty, cut, ghosts, held>>
history == <<edits, kills, choice, acked, overlap, mintRace>>

None == "none"
Unsealed == "unsealed"  \* kind: 'none'
Env == "env"            \* JUMPSERVER_PASSWORD or what stands behind it
NoLogin == [host |-> None, password |-> None]
Idle == [at |-> "idle"]

\* What a cached key or a token may be that is no process's key.
ASSUME ProcAssumption == Procs \cap {None, Unsealed, "unread", "minting", "filling", "empty", "unusable"} = {}
ASSUME FormAssumption == None \notin Hosts \cup {Form}
-----------------------------------------------------------------------------
(* The file, as a process reads it.                                        *)

\* What a file may be: json with the active id and the profiles, or worse.
File(is) == [is |-> is, active |-> NoId, profiles |-> <<>>]

\* Mutant: what cannot be parsed counts as empty for a writer as well.
MutWritable == TRUE

\* requireWritable
Writable == file.is # "corrupt"

\* parseFile: missing, blank and corrupt all read as empty.
Content == IF file.is = "json" THEN file ELSE File("json")

\* effectiveConfig: the gateway of the active profile, or the form's.
Gateway == IF Content.active = NoId THEN Form ELSE Content.profiles[Content.active].host

\* decrypt, with the key the process has.
Opens(p, token) == token # Unsealed /\ token = key[p]

Ready(p) == io[p].at = "idle" /\ call[p].at \in {"idle", "dialing"}
-----------------------------------------------------------------------------
(* The vault key.                                                          *)

NeedsKey(p) ==
  \/ io[p].at = "sealing"
  \/ /\ call[p].at = "opening" /\ call[p].id \in DOMAIN Content.profiles
     /\ Content.profiles[call[p].id].token # Unsealed

\* Mutant: a process generates a key of its own whatever is there.
MutFound == "minting"

\* loadKey: what the file holds, if that is a whole key, or a key has to be
\* generated.
Found == CASE disk = None    -> "minting"
           [] disk = "empty" -> "unusable"
           [] OTHER          -> disk
Loaded(p) == key[p] \notin {"unread", "minting", "filling"}

LoadKey(p) ==
  /\ NeedsKey(p) /\ key[p] = "unread"
  /\ key' = [key EXCEPT ![p] = Found]
  /\ mintRace' = (mintRace \/ (Found = "minting" /\ \E q \in Procs \ {p} : key[q] = "minting"))
  /\ UNCHANGED <<file, tmp, disk, io, sessions, edits, kills, choice, acked, overlap>>

\* The file of a fresh key is created or cut off, ...
OpenKey(p) ==
  /\ key[p] = "minting"
  /\ disk' = "empty"
  /\ key' = [key EXCEPT ![p] = "filling"]
  /\ UNCHANGED <<file, tmp, io, sessions, history>>

\* ... and filled.
FillKey(p) ==
  /\ key[p] = "filling"
  /\ disk' = p
  /\ key' = [key EXCEPT ![p] = p]
  /\ UNCHANGED <<file, tmp, io, sessions, history>>

\* Where there can be no key, encrypt throws: nothing is stored.
NoKey(p) ==
  /\ key[p] \in {"minting", "filling"}
  /\ key' = [key EXCEPT ![p] = "unusable"]
  /\ UNCHANGED <<file, tmp, disk, io, sessions, history>>
-----------------------------------------------------------------------------
(* switchAccount, saveAccount, removeAccount.                              *)

With(f, id, profile) == [i \in DOMAIN f \cup {id} |-> IF i = id THEN profile ELSE f[i]]
Without(f, id) == [i \in DOMAIN f \ {id} |-> f[i]]

Starts(p, kind, id, next, at) ==
  /\ Ready(p) /\ edits < Edits
  /\ Writable
  /\ io' = [io EXCEPT ![p] = [at |-> at, kind |-> kind, id |-> id, new |-> next, fd |-> None]]
  /\ edits' = edits + 1
  /\ overlap' = (overlap \/ \E q \in Procs \ {p} : io[q].at # "idle")
  /\ UNCHANGED <<disks, sessions, kills, choice, acked, mintRace>>

\* setActive
Switch(p, id) ==
  /\ id \in DOMAIN Content.profiles \cup {NoId}
  /\ Starts(p, "switch", id, [Content EXCEPT !.active = id], "writing")

\* upsert with a password: a new profile or an update, sealed before it is written.
Save(p, id, host) ==
  Starts(p, "save", id, [Content EXCEPT !.profiles = With(@, id, [host |-> host, token |-> Unsealed])], "sealing")

\* upsert that has no password to seal: it is forgotten, or left as it is.
SaveBare(p, id, host) ==
  \E token \in {Unsealed} \cup {Content.profiles[i].token : i \in DOMAIN Content.profiles \cap {id}} :
    Starts(p, "save", id, [Content EXCEPT !.profiles = With(@, id, [host |-> host, token |-> token])], "writing")

\* remove: the pointer goes with the active profile.
Remove(p, id) ==
  /\ id \in DOMAIN Content.profiles
  /\ Starts(p, "remove", id, [is |-> "json", active |-> IF Content.active = id THEN NoId ELSE Content.active,
                              profiles |-> Without(Content.profiles, id)], "writing")

Seal(p) ==
  /\ io[p].at = "sealing" /\ Loaded(p)
  /\ IF key[p] = "unusable" THEN io' = [io EXCEPT ![p] = Idle]
     ELSE io' = [io EXCEPT ![p].at = "writing", ![p].new.profiles[io[p].id].token = key[p]]
  /\ UNCHANGED <<disks, sessions, history>>

\* writeFile: the temporary file is created or cut off, ...
Open(p) ==
  /\ io[p].at = "writing"
  /\ tmp' = File("blank")
  /\ io' = [io EXCEPT ![p].at = "open", ![p].fd = "tmp"]
  /\ UNCHANGED <<file, disk, key, sessions, history>>

\* Nobody's own choice stands once the file holds anything else.
Overtaken == choice' = [q \in Procs |-> "unknown"]

\* ... filled, through whatever name the opened file has by now, ...
Fill(p) ==
  /\ io[p].at = "open"
  /\ io' = [io EXCEPT ![p].at = "filled"]
  /\ tmp' = IF io[p].fd = "tmp" THEN io[p].new ELSE tmp
  /\ file' = IF io[p].fd = "file" THEN io[p].new ELSE file
  /\ IF io[p].fd = "file" THEN Overtaken ELSE UNCHANGED choice
  /\ UNCHANGED <<disk, key, sessions, edits, kills, acked, overlap, mintRace>>

\* Mutant: the PTYs, and the dials on their way, are left alone.
MutDisposed(p) == UNCHANGED <<call, pty, cut, ghosts>>

\* registry.dispose: the session is closed; a dial under way is not stopped.
Disposed(p) ==
  /\ call' = [call EXCEPT ![p] = Idle]
  /\ pty' = [pty EXCEPT ![p] = NoLogin]
  /\ cut' = [cut EXCEPT ![p] = IF call[p].at = "dialing" THEN @ \cup {call[p].login} ELSE @]
  /\ UNCHANGED ghosts

\* What follows a write that succeeded.
Applied(p) ==
  IF io[p].kind = "switch"
  THEN /\ Disposed(p)
       /\ held' = [held EXCEPT ![p] = None]
  ELSE UNCHANGED sessions

\* ... and renamed over the other.
Rename(p) ==
  /\ io[p].at = "filled" /\ tmp.is # "none"
  /\ file' = tmp /\ tmp' = File("none")
  /\ io' = [q \in Procs |-> CASE q = p -> Idle
              [] q # p /\ io[q].at = "open" /\ io[q].fd = "tmp" -> [io[q] EXCEPT !.fd = "file"]
              [] q # p /\ io[q].at = "open" /\ io[q].fd = "file" -> [io[q] EXCEPT !.fd = "gone"]
              [] OTHER -> io[q]]
  /\ choice' = [q \in Procs |-> IF q = p /\ io[p].kind = "switch" /\ tmp = io[p].new THEN "own" ELSE "unknown"]
  /\ acked' = CASE io[p].kind = "save" -> acked \cup {io[p].id}
                [] io[p].kind = "remove" -> acked \ {io[p].id}
                [] OTHER -> acked
  /\ Applied(p)
  /\ UNCHANGED <<disk, key, edits, kills, overlap, mintRace>>

\* Somebody else has renamed it: ENOENT.
RenameFails(p) ==
  /\ io[p].at = "filled" /\ tmp.is = "none"
  /\ io' = [io EXCEPT ![p].at = "cleaning"]
  /\ UNCHANGED <<disks, sessions, history>>

\* The failed write removes the temporary file, whoever's it is.
CleanUp(p) ==
  /\ io[p].at = "cleaning"
  /\ tmp' = File("none")
  /\ io' = [q \in Procs |-> CASE q = p -> Idle
              [] q # p /\ io[q].at = "open" /\ io[q].fd = "tmp" -> [io[q] EXCEPT !.fd = "gone"]
              [] OTHER -> io[q]]
  /\ UNCHANGED <<file, disk, key, sessions, history>>
-----------------------------------------------------------------------------
(* connectLocked, asked for by a call that holds a grant or by the         *)
(* reconnect timer, which holds none.                                      *)

\* getConfig
Configure(p) ==
  /\ Ready(p) /\ call[p].at = "idle" /\ pty[p] = NoLogin
  /\ call' = [call EXCEPT ![p] = [at |-> "choosing", host |-> Gateway]]
  /\ UNCHANGED <<disks, io, pty, cut, ghosts, held, history>>

\* resolvePassword: the active profile, read again, ...
Choose(p) ==
  /\ call[p].at = "choosing"
  /\ call' = [call EXCEPT ![p] = [at |-> "opening", host |-> call[p].host, id |-> Content.active]]
  /\ UNCHANGED <<disks, io, pty, cut, ghosts, held, history>>

\* ... and its secret, read once more; whatever is missing is passed over.
Credential(p, id) ==
  IF id \in DOMAIN Content.profiles /\ Opens(p, Content.profiles[id].token) THEN id ELSE Env

Dial(p) ==
  /\ call[p].at = "opening"
  /\ NeedsKey(p) => Loaded(p)
  /\ call' = [call EXCEPT ![p] = [at |-> "dialing",
                login |-> [host |-> call[p].host, password |-> Credential(p, call[p].id)]]]
  /\ UNCHANGED <<disks, io, pty, cut, ghosts, held, history>>

\* session.connect reaches the menu, ...
Reach(p) ==
  /\ Ready(p) /\ call[p].at = "dialing"
  /\ pty' = [pty EXCEPT ![p] = call[p].login]
  /\ call' = [call EXCEPT ![p] = Idle]
  /\ UNCHANGED <<disks, io, cut, ghosts, held, history>>

\* ... or does not.
Miss(p) ==
  /\ Ready(p) /\ call[p].at = "dialing"
  /\ call' = [call EXCEPT ![p] = Idle]
  /\ UNCHANGED <<disks, io, pty, cut, ghosts, held, history>>

\* The same for a dial whose session was closed meanwhile: connect attaches the
\* wire it gets.
CutReach(p, login) ==
  /\ Ready(p) /\ login \in cut[p]
  /\ cut' = [cut EXCEPT ![p] = @ \ {login}]
  /\ ghosts' = [ghosts EXCEPT ![p] = @ \cup {login}]
  /\ UNCHANGED <<disks, io, call, pty, held, history>>

CutMiss(p, login) ==
  /\ Ready(p) /\ login \in cut[p]
  /\ cut' = [cut EXCEPT ![p] = @ \ {login}]
  /\ UNCHANGED <<disks, io, call, pty, ghosts, held, history>>

\* The session ends: closed, idle for too long, or lost.
Ended(p) ==
  /\ Ready(p) /\ pty[p] # NoLogin
  /\ pty' = [pty EXCEPT ![p] = NoLogin]
  /\ UNCHANGED <<disks, io, call, cut, ghosts, held, history>>

\* The conversation is armed, under the account then selected, or
\* jumpserver_assets leaves its listing for the console.
Obtain(p) ==
  /\ Ready(p) /\ held[p] = None
  /\ \E host \in {Gateway, pty[p].host} \ {None} : held' = [held EXCEPT ![p] = host]
  /\ UNCHANGED <<disks, io, call, pty, cut, ghosts, history>>
-----------------------------------------------------------------------------
\* Processes are killed, at any point of a write, and started again.
Restart(p) ==
  /\ kills < Kills /\ kills' = kills + 1
  /\ io' = [io EXCEPT ![p] = Idle] /\ key' = [key EXCEPT ![p] = "unread"]
  /\ call' = [call EXCEPT ![p] = Idle] /\ pty' = [pty EXCEPT ![p] = NoLogin]
  /\ cut' = [cut EXCEPT ![p] = {}] /\ ghosts' = [ghosts EXCEPT ![p] = {}]
  /\ held' = [held EXCEPT ![p] = None]
  /\ choice' = [choice EXCEPT ![p] = "unknown"]
  /\ UNCHANGED <<file, tmp, disk, edits, acked, overlap, mintRace>>

\* The operator edits the file by hand, and gets it wrong.
Damage ==
  /\ file.is # "corrupt"
  /\ file' = File("corrupt")
  /\ Overtaken
  /\ UNCHANGED <<tmp, disk, key, io, sessions, edits, kills, acked, overlap, mintRace>>

Init ==
  /\ file = File("missing") /\ tmp = File("none") /\ disk = None
  /\ key = [p \in Procs |-> "unread"]
  /\ io = [p \in Procs |-> Idle] /\ call = [p \in Procs |-> Idle]
  /\ pty = [p \in Procs |-> NoLogin]
  /\ cut = [p \in Procs |-> {}] /\ ghosts = [p \in Procs |-> {}]
  /\ held = [p \in Procs |-> None] /\ kills = 0
  /\ edits = 0 /\ choice = [p \in Procs |-> "unknown"]
  /\ acked = {} /\ overlap = FALSE /\ mintRace = FALSE

Account(p) ==
  \/ \E id \in Ids \cup {NoId} : Switch(p, id)
  \/ \E id \in Ids : Remove(p, id) \/ \E host \in Hosts : Save(p, id, host) \/ SaveBare(p, id, host)
  \/ LoadKey(p) \/ OpenKey(p) \/ FillKey(p) \/ NoKey(p)
  \/ Seal(p) \/ Open(p) \/ Fill(p) \/ Rename(p) \/ RenameFails(p) \/ CleanUp(p)
Connection(p) ==
  \/ Configure(p) \/ Choose(p) \/ Dial(p) \/ Reach(p) \/ Miss(p)
  \/ \E login \in cut[p] : CutReach(p, login) \/ CutMiss(p, login)
  \/ Ended(p) \/ Obtain(p)

Next == \/ \E p \in Procs : Account(p) \/ Restart(p)
        \/ \E p \in Talking : Connection(p)
        \/ Damage

Spec == Init /\ [][Next]_vars
-----------------------------------------------------------------------------
Tokens == Procs \cup {Unsealed}
Books == UNION {[D -> [host : Hosts, token : Tokens]] : D \in SUBSET Ids}
FileType == [is : {"none", "missing", "blank", "corrupt", "json"},
             active : Ids \cup {NoId}, profiles : Books]
LoginType == [host : Hosts \cup {Form, None}, password : Ids \cup {Env, None}]
OperationType == {Idle} \cup
  [at : {"sealing", "writing", "open", "filled", "cleaning"}, kind : {"switch", "save", "remove"},
   id : Ids \cup {NoId}, new : FileType, fd : {None, "tmp", "file", "gone"}]
ConnectType == {Idle}
  \cup [at : {"choosing"}, host : Hosts \cup {Form}]
  \cup [at : {"opening"}, host : Hosts \cup {Form}, id : Ids \cup {NoId}]
  \cup [at : {"dialing"}, login : LoginType]

TypeOK ==
  /\ file \in FileType /\ tmp \in FileType /\ disk \in Procs \cup {None, "empty"}
  /\ key \in [Procs -> Procs \cup {"unread", "minting", "filling", "unusable"}]
  /\ io \in [Procs -> OperationType]
  /\ call \in [Procs -> ConnectType]
  /\ pty \in [Procs -> LoginType]
  /\ cut \in [Procs -> SUBSET LoginType] /\ ghosts \in [Procs -> SUBSET LoginType]
  /\ held \in [Procs -> Hosts \cup {Form, None}]
  /\ edits \in Nat /\ kills \in Nat
  /\ choice \in [Procs -> {"own", "unknown"}] /\ acked \subseteq Ids
  /\ overlap \in BOOLEAN /\ mintRace \in BOOLEAN

\* What a process selected itself, and no other wrote over, is what its session,
\* its grant and its listing belong to, and what it logs in with: nothing of the
\* previous account is left, not even a connect that was on its way
\* (runtime.ts:478-502 switchAccount).
OwnChoiceHolds ==
  \A p \in Procs : choice[p] = "own" =>
    /\ {pty[p].host, held[p]} \subseteq {None, Gateway}
    /\ Content.active # NoId /\ Opens(p, Content.profiles[Content.active].token)
         => pty[p].password \in {None, Content.active}

\* A profile whose saving was reported is in the file until it is removed, through
\* every crash in the middle of a write, also when the operator broke the file: it
\* stays broken, and is not written over by what it no longer says.  Only where
\* two processes' writes overlapped is there no such promise
\* (profile-store.ts:16-23).
SavedUnlessOverlapped ==
  ~overlap /\ file.is # "corrupt" => acked \subseteq DOMAIN Content.profiles

\* The key on disk opens every stored secret, whichever process sealed it and
\* however often they were killed, also while the key was being written, unless
\* two of them generated it at once (credential-vault.ts:106-139 loadKey).
SecretsStayReadable ==
  ~mintRace => \A id \in DOMAIN Content.profiles : Content.profiles[id].token \in {Unsealed, disk}

\* Known not to hold: a profile whose saving was reported is in the file,
\* node's single thread serialises the calls and the value is durable by the
\* time a method returns (profile-store.ts:20-23). The file belongs to several
\* processes, and the slower of two writers wins.
SavedStaysSaved == file.is # "corrupt" => acked \subseteq DOMAIN Content.profiles

\* Known not to hold: a key file is whole, or its writer is at it
\* (credential-vault.ts:107, "generating it on first use"). One that was
\* killed in between leaves an empty file, which no process ever replaces.
KeyIsWhole == disk = "empty" => \E p \in Procs : key[p] = "filling"

\* Known not to hold: after a switch of its own process no PTY is left that was
\* dialled before (runtime.ts:479-480). A session that is closed while it dials
\* attaches the wire it gets.
NoPtyOutlivesTheSwitch == \A p \in Procs : choice[p] = "own" => ghosts[p] = {}
=============================================================================
