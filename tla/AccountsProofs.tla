---------------------------- MODULE AccountsProofs ----------------------------
(***************************************************************************)
(* For any number of processes, profiles and edits: a process that made its *)
(* own choice keeps nothing of the account before, a profile whose saving   *)
(* was reported is not lost without an overlap, and no secret is without    *)
(* two keys generated at once.                                             *)
(*                                                                         *)
(* The properties look at the file; what they need is in the hands of the   *)
(* writers.  A profile that is being written is saved already when another  *)
(* process would lose it, so OneWriter follows the one operation there is   *)
(* and what it carries, through the temporary file (Carries); a token that  *)
(* is sealed but not yet written must have been sealed with the key on      *)
(* disk, so OneKey speaks of the operations and of who is about to generate *)
(* a key as well.  Follows says of a connect on its way what the session it *)
(* becomes will have to satisfy, and that its key had been loaded by then.  *)
(* All three need only that files are whole (TInv), and are kept one by one.*)
(***************************************************************************)
EXTENDS Accounts, TLAPS

(* The active profile is one of the file's, in every file there is, and a   *)
(* profile that is being saved is one of the file that is to be written.    *)
Whole(f) == f.active \in DOMAIN f.profiles \cup {NoId}
Formed(o) ==
  /\ Whole(o.new)
  /\ o.kind = "save" => o.id \in DOMAIN o.new.profiles
  /\ o.at = "sealing" => o.kind = "save"
FilesAreWhole ==
  /\ Whole(file) /\ Whole(tmp)
  /\ \A p \in Procs : io[p].at # "idle" => Formed(io[p])

(* Without a race one process at most generates a key, while there is none   *)
(* or an empty file; every key and every token in use is the one on disk.   *)
Generating == {"minting", "filling"}
Sealed(f, k) == \A id \in DOMAIN f.profiles : f.profiles[id].token \in {Unsealed, k}
OneKey ==
  ~mintRace =>
    /\ \A p, q \in Procs : {key[p], key[q]} \subseteq Generating => p = q
    /\ \A p \in Procs : key[p] = "minting" => disk = None
    /\ \A p \in Procs : key[p] = "filling" => disk = "empty"
    /\ \A p \in Procs : key[p] \in Procs => key[p] = disk
    /\ Sealed(file, disk) /\ Sealed(tmp, disk)
    /\ \A p \in Procs : io[p].at # "idle" => Sealed(io[p].new, disk)

(* Without an overlap one process at most is writing, and what it writes    *)
(* holds all that was reported as saved.                                   *)
Carries(o, saved, beside) ==
  /\ o.at # "cleaning" /\ o.new.is = "json"
  /\ saved \subseteq DOMAIN o.new.profiles \cup (IF o.kind = "remove" THEN {o.id} ELSE {})
  /\ o.at \in {"open", "filled"} => o.fd = "tmp"
  /\ o.at = "filled" => beside = o.new
OneWriter ==
  ~overlap =>
    /\ \A p, q \in Procs : io[p].at # "idle" /\ io[q].at # "idle" => p = q
    /\ \A p \in Procs : io[p].at # "idle" => Carries(io[p], acked, tmp)
    /\ file.is # "corrupt" => acked \subseteq DOMAIN Content.profiles

(* A login is the selected account's: it has its gateway, and its secret    *)
(* where the key was there to open it.                                     *)
Faithful(p, login) ==
  /\ login.host = Gateway
  /\ Content.active # NoId /\ Content.profiles[Content.active].token # Unsealed =>
       /\ Loaded(p)
       /\ key[p] = Content.profiles[Content.active].token => login.password = Content.active

(* All of a process that made its own choice is on the way to that account. *)
Follows(p) ==
  choice[p] = "own" =>
    /\ held[p] \in {None, Gateway}
    /\ pty[p] # NoLogin => Faithful(p, pty[p])
    /\ call[p].at \in {"choosing", "opening"} => call[p].host = Gateway
    /\ call[p].at = "opening" => call[p].id = Content.active
    /\ call[p].at = "dialing" => Faithful(p, call[p].login)

IInv == TypeOK /\ FilesAreWhole /\ OneKey /\ OneWriter /\ \A p \in Procs : Follows(p)
-----------------------------------------------------------------------------
(* Helpers: files and what is made of them.                                *)

(* The profiles of a file, as a function on ids.                           *)
LEMMA BookTyped ==
    ASSUME NEW b
    PROVE  b \in Books <=> /\ b = [i \in DOMAIN b |-> b[i]] /\ DOMAIN b \subseteq Ids
                          /\ \A i \in DOMAIN b : b[i] \in [host : Hosts, token : Tokens]
BY DEF Books

(* A file without profiles is whole, and seals nothing.                    *)
LEMMA FileTyped ==
    ASSUME NEW is \in {"none", "missing", "blank", "corrupt", "json"}, NEW k
    PROVE  /\ File(is) \in FileType /\ DOMAIN File(is).profiles = {} /\ File(is).is = is
           /\ Whole(File(is)) /\ Sealed(File(is), k)
  <1>1. <<>> = [i \in {} |-> i] /\ DOMAIN <<>> = {}
    OBVIOUS
  <1>2. <<>> \in Books
    BY <1>1, BookTyped
  <1>3. QED
    BY <1>1, <1>2 DEF File, FileType, Whole, Sealed

(* What a process reads is a whole file, and seals what the file seals.    *)
LEMMA ContentTyped ==
    ASSUME file \in FileType, Whole(file)
    PROVE  /\ Content \in FileType /\ Content.is = "json" /\ Whole(Content)
           /\ Content.profiles \in Books
           /\ Sealed(file, disk) => Sealed(Content, disk)
  <1>1. (Content = file /\ file.is = "json") \/ Content = File("json")
    BY DEF Content
  <1>2. Content \in FileType /\ Content.is = "json" /\ Whole(Content)
    BY <1>1, FileTyped
  <1>3. QED
    BY <1>1, <1>2, FileTyped DEF FileType

(* The gateway is that of a profile or of the form.                        *)
LEMMA GatewayTyped ==
    ASSUME file \in FileType, Whole(file)
    PROVE  Gateway \in Hosts \cup {Form} /\ Gateway # None
  <1>1. CASE Content.active = NoId
    BY <1>1, FormAssumption DEF Gateway
  <1>2. CASE Content.active # NoId
    <2>1. Content.active \in DOMAIN Content.profiles
      BY <1>2, ContentTyped DEF Whole
    <2>2. Content.profiles[Content.active] \in [host : Hosts, token : Tokens]
      BY <2>1, ContentTyped, BookTyped
    <2>3. QED
      BY <1>2, <2>2, FormAssumption DEF Gateway
  <1>3. QED
    BY <1>1, <1>2

(* A profile is put in, or replaced.                                       *)
LEMMA WithTyped ==
    ASSUME NEW f \in Books, NEW id \in Ids, NEW r \in [host : Hosts, token : Tokens]
    PROVE  /\ With(f, id, r) \in Books /\ DOMAIN With(f, id, r) = DOMAIN f \cup {id}
           /\ With(f, id, r)[id] = r /\ \A i \in DOMAIN f \ {id} : With(f, id, r)[i] = f[i]
  <1> DEFINE w == With(f, id, r)
  <1>1. /\ w = [i \in DOMAIN w |-> w[i]] /\ DOMAIN w = DOMAIN f \cup {id}
        /\ \A i \in DOMAIN w : w[i] = IF i = id THEN r ELSE f[i]
    BY DEF With
  <1>2. DOMAIN f \subseteq Ids /\ \A i \in DOMAIN f : f[i] \in [host : Hosts, token : Tokens]
    BY BookTyped
  <1>3. DOMAIN w \subseteq Ids /\ \A i \in DOMAIN w : w[i] \in [host : Hosts, token : Tokens]
    BY <1>1, <1>2
  <1> HIDE DEF w
  <1>4. w \in Books
    BY <1>1, <1>3, BookTyped
  <1>5. QED
    BY <1>1, <1>4 DEF w

(* A profile is taken out.                                                 *)
LEMMA WithoutTyped ==
    ASSUME NEW f \in Books, NEW id \in Ids
    PROVE  /\ Without(f, id) \in Books /\ DOMAIN Without(f, id) = DOMAIN f \ {id}
           /\ \A i \in DOMAIN f \ {id} : Without(f, id)[i] = f[i]
  <1> DEFINE w == Without(f, id)
  <1>1. /\ w = [i \in DOMAIN w |-> w[i]] /\ DOMAIN w = DOMAIN f \ {id}
        /\ \A i \in DOMAIN w : w[i] = f[i]
    BY DEF Without
  <1>2. DOMAIN f \subseteq Ids /\ \A i \in DOMAIN f : f[i] \in [host : Hosts, token : Tokens]
    BY BookTyped
  <1>3. DOMAIN w \subseteq Ids /\ \A i \in DOMAIN w : w[i] \in [host : Hosts, token : Tokens]
    BY <1>1, <1>2
  <1> HIDE DEF w
  <1>4. w \in Books
    BY <1>1, <1>3, BookTyped
  <1>5. QED
    BY <1>1, <1>4 DEF w

TInv == TypeOK /\ FilesAreWhole

(* An operation as it begins: nothing is lost but what it removes, and every *)
(* token in it is one the file had.                                        *)
Begins(p, o) ==
  /\ o \in OperationType /\ o.at \in {"sealing", "writing"} /\ o.new.is = "json"
  /\ Formed(o)
  /\ DOMAIN Content.profiles
       \subseteq DOMAIN o.new.profiles \cup (IF o.kind = "remove" THEN {o.id} ELSE {})
  /\ Sealed(file, disk) => Sealed(o.new, disk)

(* Every account operation begins like that.                               *)
LEMMA StartsTyped ==
    ASSUME TInv, NEW p \in Procs,
           \/ \E id \in Ids \cup {NoId} : Switch(p, id)
           \/ \E id \in Ids : Remove(p, id) \/ \E host \in Hosts : Save(p, id, host) \/ SaveBare(p, id, host)
    PROVE  /\ Ready(p) /\ Writable /\ \E o : Begins(p, o) /\ io' = [io EXCEPT ![p] = o]
           /\ overlap' = (overlap \/ \E q \in Procs \ {p} : io[q].at # "idle")
           /\ edits' = edits + 1
           /\ UNCHANGED <<disks, sessions, kills, choice, acked, mintRace>>
  <1> DEFINE c == Content
             Op(at, kind, id, new) == [at |-> at, kind |-> kind, id |-> id, new |-> new, fd |-> None]
  <1>1. /\ c \in FileType /\ c.is = "json" /\ Whole(c) /\ c.profiles \in Books
        /\ Sealed(file, disk) => Sealed(c, disk)
    BY ContentTyped DEF TInv, TypeOK, FilesAreWhole
  <1> HIDE DEF c
  <1>2. ASSUME NEW id \in Ids \cup {NoId}, id \in DOMAIN c.profiles \cup {NoId}
        PROVE  Begins(p, Op("writing", "switch", id, [c EXCEPT !.active = id]))
    BY <1>1, <1>2 DEF Begins, Formed, OperationType, FileType, Whole, Sealed, c
  <1>3. ASSUME NEW id \in Ids, NEW host \in Hosts, NEW token \in Tokens,
               NEW at \in {"sealing", "writing"},
               token = Unsealed \/ (id \in DOMAIN c.profiles /\ token = c.profiles[id].token)
        PROVE  Begins(p, Op(at, "save", id,
                 [c EXCEPT !.profiles = With(@, id, [host |-> host, token |-> token])]))
    <2> DEFINE entry == [host |-> host, token |-> token]
               w == With(c.profiles, id, entry)
               new == [c EXCEPT !.profiles = w]
    <2>0. entry \in [host : Hosts, token : Tokens]
      OBVIOUS
    <2> HIDE DEF entry
    <2>1. /\ w \in Books /\ DOMAIN w = DOMAIN c.profiles \cup {id}
          /\ w[id] = entry /\ \A i \in DOMAIN c.profiles \ {id} : w[i] = c.profiles[i]
      <3>1. \A e \in [host : Hosts, token : Tokens] :
              LET v == With(c.profiles, id, e)
              IN  /\ v \in Books /\ DOMAIN v = DOMAIN c.profiles \cup {id}
                  /\ v[id] = e /\ \A i \in DOMAIN c.profiles \ {id} : v[i] = c.profiles[i]
        BY <1>1, WithTyped
      <3>2. QED
        BY <2>0, <3>1
    <2> HIDE DEF w
    <2>2. /\ new \in FileType /\ new.is = "json" /\ new.profiles = w /\ new.active = c.active
      BY <1>1, <2>1 DEF FileType
    <2>3. Whole(new)
      BY <1>1, <2>1, <2>2 DEF Whole
    <2>4. Sealed(file, disk) => Sealed(new, disk)
      BY <1>1, <1>3, <2>1, <2>2 DEF Sealed, entry
    <2> HIDE DEF new
    <2>5. Begins(p, Op(at, "save", id, new))
      BY <2>1, <2>2, <2>3, <2>4 DEF Begins, Formed, OperationType, c
    <2>6. QED
      BY <2>5 DEF new, w, entry
  <1>4. ASSUME NEW id \in Ids, id \in DOMAIN c.profiles
        PROVE  Begins(p, Op("writing", "remove", id,
                 [is |-> "json", active |-> IF c.active = id THEN NoId ELSE c.active,
                  profiles |-> Without(c.profiles, id)]))
    <2> DEFINE w == Without(c.profiles, id)
               new == [is |-> "json", active |-> IF c.active = id THEN NoId ELSE c.active, profiles |-> w]
    <2>1. /\ w \in Books /\ DOMAIN w = DOMAIN c.profiles \ {id}
          /\ \A i \in DOMAIN w : w[i] = c.profiles[i]
      BY <1>1, WithoutTyped
    <2> HIDE DEF w
    <2>2. /\ new \in FileType /\ new.is = "json" /\ new.profiles = w
          /\ new.active = IF c.active = id THEN NoId ELSE c.active
      BY <1>1, <2>1 DEF FileType
    <2>3. Whole(new) /\ (Sealed(file, disk) => Sealed(new, disk))
      BY <1>1, <2>1, <2>2 DEF Whole, Sealed
    <2> HIDE DEF new
    <2>4. Begins(p, Op("writing", "remove", id, new))
      BY <2>1, <2>2, <2>3 DEF Begins, Formed, OperationType, c
    <2>5. QED
      BY <2>4 DEF new, w
  <1>5. \A i \in DOMAIN c.profiles : c.profiles[i].token \in Tokens
    BY <1>1, BookTyped
  <1>6. CASE \E id \in Ids \cup {NoId} : Switch(p, id)
    BY <1>2, <1>6 DEF Switch, Starts, c
  <1>7. CASE \E id \in Ids : Remove(p, id)
    <2>1. PICK id \in Ids : Remove(p, id)
      BY <1>7
    <2>2. id \in DOMAIN c.profiles
      BY <2>1 DEF Remove, c
    <2>3. QED
      BY <1>4, <2>1, <2>2 DEF Remove, Starts, c
  <1>8. CASE \E id \in Ids, host \in Hosts : Save(p, id, host)
    BY <1>3, <1>8 DEF Save, Starts, c, Tokens
  <1>9. CASE \E id \in Ids, host \in Hosts : SaveBare(p, id, host)
    <2>1. PICK id \in Ids, host \in Hosts : SaveBare(p, id, host)
      BY <1>9
    <2>2. PICK token \in {Unsealed} \cup {c.profiles[i].token : i \in DOMAIN c.profiles \cap {id}} :
            Starts(p, "save", id, [c EXCEPT !.profiles = With(@, id, [host |-> host, token |-> token])], "writing")
      BY <2>1 DEF SaveBare, c
    <2>3. /\ token \in Tokens
          /\ token = Unsealed \/ (id \in DOMAIN c.profiles /\ token = c.profiles[id].token)
      BY <1>5, <2>2 DEF Tokens
    <2>4. Begins(p, Op("writing", "save", id,
            [c EXCEPT !.profiles = With(@, id, [host |-> host, token |-> token])]))
      BY <1>3, <2>3
    <2>5. QED
      BY <2>2, <2>4 DEF Starts
  <1>10. QED
    BY <1>6, <1>7, <1>8, <1>9

(* An operation that is under way has all its fields.                      *)
LEMMA OperationTyped ==
    ASSUME NEW o \in OperationType
    PROVE  /\ o.at = "idle" => o = Idle
           /\ o.at # "idle" =>
                /\ o \in [at : {"sealing", "writing", "open", "filled", "cleaning"},
                         kind : {"switch", "save", "remove"}, id : Ids \cup {NoId},
                         new : FileType, fd : {None, "tmp", "file", "gone"}]
                /\ o.at \in {"sealing", "writing", "open", "filled", "cleaning"}
                /\ o.kind \in {"switch", "save", "remove"} /\ o.id \in Ids \cup {NoId}
                /\ o.new \in FileType /\ o.fd \in {None, "tmp", "file", "gone"}
BY DEF OperationType, Idle

(* An operation at its next step: what it is to write stays what it is.     *)
Moved(o, n) ==
  /\ n \in OperationType
  /\ \/ n \in {Idle, o}
     \/ /\ o.at # "idle" /\ n.at \notin {"idle", "sealing"}
        /\ n.kind = o.kind /\ n.id = o.id /\ n.new = o.new

(* The two fields a write changes.                                         *)
Step(o, n, at, fd) ==
  Moved(o, n) /\ n.at = at /\ n.fd = fd /\ n.kind = o.kind /\ n.id = o.id /\ n.new = o.new
Fields == [at : {"sealing", "writing", "open", "filled", "cleaning"},
           kind : {"switch", "save", "remove"}, id : Ids \cup {NoId},
           new : FileType, fd : {None, "tmp", "file", "gone"}]
(* An operation that goes on is the one it was, at its next stage.          *)
LEMMA OperationMoved ==
    ASSUME NEW o \in OperationType, o.at # "idle",
           NEW at \in {"writing", "open", "filled", "cleaning"}
    PROVE  /\ Step(o, [o EXCEPT !.at = at], at, o.fd)
           /\ Step(o, [o EXCEPT !.at = at, !.fd = "tmp"], at, "tmp")
  <1>1. o \in Fields
    BY OperationTyped DEF Fields
  <1>2. ASSUME NEW n \in Fields, NEW d,
               n.at = at, n.fd = d, n.kind = o.kind, n.id = o.id, n.new = o.new
        PROVE  Step(o, n, at, d)
    BY <1>2 DEF Step, Moved, OperationType, Fields
  <1>3. Step(o, [o EXCEPT !.at = at, !.fd = "tmp"], at, "tmp")
    <2> DEFINE n == [o EXCEPT !.at = at, !.fd = "tmp"]
    <2>1. n \in Fields /\ n.at = at /\ n.fd = "tmp" /\ n.kind = o.kind /\ n.id = o.id /\ n.new = o.new
      BY <1>1 DEF Fields
    <2> HIDE DEF n
    <2>2. QED
      BY <1>2, <2>1 DEF n
  <1>4. Step(o, [o EXCEPT !.at = at], at, o.fd)
    <2> DEFINE n == [o EXCEPT !.at = at]
    <2>1. n \in Fields /\ n.at = at /\ n.fd = o.fd /\ n.kind = o.kind /\ n.id = o.id /\ n.new = o.new
      BY <1>1 DEF Fields
    <2> HIDE DEF n
    <2>2. QED
      BY <1>2, <2>1 DEF n
  <1>5. QED
    BY <1>3, <1>4

(* The opened file gets another name, or loses it.                         *)
LEMMA OperationRenamed ==
    ASSUME NEW o \in OperationType, o.at = "open", NEW fd \in {"file", "gone"}
    PROVE  Step(o, [o EXCEPT !.fd = fd], "open", fd)
  <1> DEFINE n == [o EXCEPT !.fd = fd]
  <1>1. o \in Fields
    BY OperationTyped DEF Fields
  <1>2. /\ n \in Fields /\ n.at = "open" /\ n.fd = fd /\ n.kind = o.kind /\ n.id = o.id /\ n.new = o.new
    BY <1>1 DEF Fields
  <1> HIDE DEF n
  <1>3. Step(o, n, "open", fd)
    BY <1>2 DEF Step, Moved, OperationType, Fields
  <1>4. QED
    BY <1>3 DEF n

(* One step of a write: the operations move on, and the files become what    *)
(* one of them, or the writer, holds.                                      *)
LEMMA WriteMoves ==
    ASSUME TInv, NEW p \in Procs,
           Open(p) \/ Fill(p) \/ Rename(p) \/ RenameFails(p) \/ CleanUp(p)
    PROVE  /\ io[p].at # "idle" /\ io' \in [Procs -> OperationType]
           /\ \A q \in Procs : Moved(io[q], io'[q])
           /\ file' \in {file, tmp, io[p].new}
           /\ tmp' \in {tmp, io[p].new, File("none"), File("blank")}
  <1>1. io \in [Procs -> OperationType] /\ \A q \in Procs : io[q] \in OperationType
    BY DEF TInv, TypeOK
  <1>2. ASSUME NEW n, Moved(io[p], n), io' = [io EXCEPT ![p] = n]
        PROVE  io' \in [Procs -> OperationType] /\ \A q \in Procs : Moved(io[q], io'[q])
    BY <1>1, <1>2 DEF Moved
  <1>3. CASE Open(p)
    <2>1. io[p].at # "idle" /\ io' = [io EXCEPT ![p] = [io[p] EXCEPT !.at = "open", !.fd = "tmp"]]
      BY <1>1, <1>3 DEF Open
    <2>2. Moved(io[p], [io[p] EXCEPT !.at = "open", !.fd = "tmp"])
      BY <1>1, <2>1, OperationMoved DEF Step
    <2>3. QED
      BY <1>2, <1>3, <2>1, <2>2 DEF Open
  <1>4. CASE Fill(p)
    <2>1. io[p].at # "idle" /\ io' = [io EXCEPT ![p] = [io[p] EXCEPT !.at = "filled"]]
      BY <1>1, <1>4 DEF Fill
    <2>2. Moved(io[p], [io[p] EXCEPT !.at = "filled"])
      BY <1>1, <2>1, OperationMoved DEF Step
    <2>3. QED
      BY <1>2, <1>4, <2>1, <2>2 DEF Fill
  <1>5. CASE RenameFails(p)
    <2>1. io[p].at # "idle" /\ io' = [io EXCEPT ![p] = [io[p] EXCEPT !.at = "cleaning"]]
      BY <1>1, <1>5 DEF RenameFails
    <2>2. Moved(io[p], [io[p] EXCEPT !.at = "cleaning"])
      BY <1>1, <2>1, OperationMoved DEF Step
    <2>3. QED
      BY <1>2, <1>5, <2>1, <2>2 DEF RenameFails, disks
  <1>6. ASSUME NEW q \in Procs, io[q].at = "open", NEW fd \in {"file", "gone"}
        PROVE  Moved(io[q], [io[q] EXCEPT !.fd = fd])
    BY <1>1, <1>6, OperationRenamed DEF Step
  <1>7. \A q \in Procs : Moved(io[q], Idle) /\ Moved(io[q], io[q])
    BY <1>1 DEF Moved, OperationType
  <1>8. ASSUME io' = [q \in Procs |-> io'[q]], \A q \in Procs : Moved(io[q], io'[q])
        PROVE  io' \in [Procs -> OperationType]
    BY <1>8 DEF Moved
  <1>9. CASE Rename(p)
    <2>1. ASSUME NEW q \in Procs
          PROVE  \/ io'[q] \in {Idle, io[q]}
                 \/ io[q].at = "open" /\ io'[q] \in {[io[q] EXCEPT !.fd = fd] : fd \in {"file", "gone"}}
      BY <1>9 DEF Rename
    <2>2. \A q \in Procs : Moved(io[q], io'[q])
      BY <1>6, <1>7, <2>1
    <2>3. io' = [q \in Procs |-> io'[q]]
      BY <1>9 DEF Rename
    <2>4. QED
      BY <1>8, <1>9, <2>2, <2>3 DEF Rename
  <1>10. CASE CleanUp(p)
    <2>1. ASSUME NEW q \in Procs
          PROVE  \/ io'[q] \in {Idle, io[q]}
                 \/ io[q].at = "open" /\ io'[q] = [io[q] EXCEPT !.fd = "gone"]
      BY <1>10 DEF CleanUp
    <2>2. \A q \in Procs : Moved(io[q], io'[q])
      BY <1>6, <1>7, <2>1
    <2>3. io' = [q \in Procs |-> io'[q]]
      BY <1>10 DEF CleanUp
    <2>4. QED
      BY <1>8, <1>10, <2>2, <2>3 DEF CleanUp
  <1>11. QED
    BY <1>3, <1>4, <1>5, <1>9, <1>10

(* The sealed operation: the token of the profile that is saved is the     *)
(* process' key, all others are what they were.                            *)
SealedStep(p, n) ==
  /\ n \in OperationType /\ n.at = "writing" /\ n.kind = "save" /\ n.id = io[p].id
  /\ Formed(n) /\ n.new.is = io[p].new.is /\ key[p] \in Procs
  /\ DOMAIN n.new.profiles = DOMAIN io[p].new.profiles
  /\ \A i \in DOMAIN n.new.profiles :
       n.new.profiles[i].token \in {key[p], io[p].new.profiles[i].token}

(* Sealing the secret ends the operation, or takes it on with a token.      *)
LEMMA SealMoves ==
    ASSUME TInv, NEW p \in Procs, Seal(p)
    PROVE  /\ io[p].at = "sealing" /\ UNCHANGED <<disks, sessions, history>>
           /\ \E n : (n = Idle \/ SealedStep(p, n)) /\ io' = [io EXCEPT ![p] = n]
  <1>1. CASE key[p] = "unusable"
    BY <1>1 DEF Seal
  <1>2. CASE key[p] # "unusable"
    <2> DEFINE o == io[p]
               id == o.id
               old == o.new.profiles
               profile == [old[id] EXCEPT !.token = key[p]]
               book == [old EXCEPT ![id] = profile]
               f == [o.new EXCEPT !.profiles = book]
               n == [o EXCEPT !.at = "writing", !.new = f]
    <2>1. /\ o \in Fields /\ o.at = "sealing" /\ o.kind = "save" /\ key[p] \in Procs
          /\ o.new \in FileType /\ id \in DOMAIN old /\ Whole(o.new) /\ id \in Ids \cup {NoId}
      BY <1>2, OperationTyped DEF TInv, TypeOK, FilesAreWhole, Formed, Seal, Loaded, Fields
    <2>2. old \in Books
      BY <2>1 DEF FileType
    <2>3. /\ old = [i \in DOMAIN old |-> old[i]] /\ DOMAIN old \subseteq Ids
          /\ \A i \in DOMAIN old : old[i] \in [host : Hosts, token : Tokens]
      BY <2>2, BookTyped
    <2>4. io' = [io EXCEPT ![p] = n]
      <3>1. io' = [io EXCEPT ![p].at = "writing", ![p].new.profiles[io[p].id].token = key[p]]
        BY <1>2 DEF Seal
      <3>2. io \in [Procs -> OperationType]
        BY DEF TInv, TypeOK
      <3> DEFINE g == [io EXCEPT ![p].at = "writing"]
      <3>3. io' = [g EXCEPT ![p].new.profiles[io[p].id].token = key[p]]
        BY <3>1
      <3>4. g[p] = [o EXCEPT !.at = "writing"] /\ g[p].new = o.new /\ DOMAIN g = DOMAIN io
        BY <2>1, <3>2 DEF Fields
      <3>5. io' = [g EXCEPT ![p] = [g[p] EXCEPT !.new = f]]
        BY <3>2, <3>3, <3>4
      <3>6. QED
        BY <3>2, <3>4, <3>5
    <2> HIDE DEF o, id
    <2>5. profile \in [host : Hosts, token : Tokens] /\ profile.token = key[p]
      BY <2>1, <2>3 DEF Tokens
    <2> HIDE DEF old, profile
    <2>6. /\ book = [i \in DOMAIN book |-> book[i]] /\ DOMAIN book = DOMAIN old
          /\ book[id] = profile /\ \A i \in DOMAIN old \ {id} : book[i] = old[i]
      BY <2>1, <2>3
    <2> HIDE DEF book
    <2>7. \A i \in DOMAIN book : book[i] \in [host : Hosts, token : Tokens]
      BY <2>3, <2>5, <2>6
    <2>8. book \in Books
      BY <2>3, <2>6, <2>7, BookTyped
    <2>9. f \in FileType /\ f.is = o.new.is /\ f.active = o.new.active /\ f.profiles = book
      BY <2>1, <2>8 DEF FileType
    <2> HIDE DEF f
    <2>10. /\ n \in Fields /\ n.at = "writing" /\ n.kind = "save" /\ n.id = id /\ n.new = f
      BY <2>1, <2>9 DEF Fields, id
    <2> HIDE DEF n
    <2>11. Formed(n)
      BY <2>1, <2>6, <2>9, <2>10 DEF Formed, Whole, old
    <2>12. \A i \in DOMAIN book : book[i].token \in {key[p], old[i].token}
      BY <2>5, <2>6
    <2>13. n \in OperationType
      BY <2>10 DEF OperationType, Fields
    <2>14. SealedStep(p, n)
      BY <2>1, <2>6, <2>9, <2>10, <2>11, <2>12, <2>13 DEF SealedStep, o, id, old
    <2>15. QED
      BY <2>4, <2>14 DEF Seal
  <1>3. QED
    BY <1>1, <1>2
-----------------------------------------------------------------------------
(* The types, and whole files.                                             *)

(* Nobody's login is a login, and an idle connect is a connect.             *)
LEMMA IdleTyped == NoLogin \in LoginType /\ Idle \in ConnectType /\ Idle \in OperationType
BY DEF NoLogin, LoginType, ConnectType, OperationType

(* What Next may do to the operations and the files, apart from beginning   *)
(* one: an operation that is under way stays formed.                       *)
LEMMA FormedKept ==
    ASSUME TInv, NEW o \in OperationType, o.at # "idle" => Formed(o), NEW n, Moved(o, n)
    PROVE  n.at # "idle" => Formed(n)
BY DEF Moved, Formed, Idle

(* The files a process has its hands on are typed and whole.                *)
LEMMA FilesTyped ==
    ASSUME TInv
    PROVE  /\ file \in FileType /\ Whole(file) /\ tmp \in FileType /\ Whole(tmp)
           /\ \A p \in Procs : io[p] \in OperationType
           /\ \A p \in Procs : io[p].at # "idle" =>
                /\ io[p].new \in FileType /\ Whole(io[p].new) /\ Formed(io[p])
                /\ io[p].kind = "save" => io[p].id \in Ids
  <1>1. file \in FileType /\ Whole(file) /\ tmp \in FileType /\ Whole(tmp)
    BY DEF TInv, TypeOK, FilesAreWhole
  <1>2. \A p \in Procs : io[p] \in OperationType /\ (io[p].at # "idle" => Formed(io[p]))
    BY DEF TInv, TypeOK, FilesAreWhole
  <1>3. ASSUME NEW p \in Procs, io[p].at # "idle"
        PROVE  /\ io[p].new \in FileType /\ Whole(io[p].new)
               /\ io[p].kind = "save" => io[p].id \in Ids
    <2>1. io[p].new \in FileType /\ Formed(io[p])
      BY <1>2, <1>3, OperationTyped
    <2>2. DOMAIN io[p].new.profiles \subseteq Ids
      BY <2>1, BookTyped DEF FileType
    <2>3. QED
      BY <2>1, <2>2 DEF Formed
  <1>4. QED
    BY <1>1, <1>2, <1>3

(* Of the connect: what it logs in with is an account of the file, or what  *)
(* stands behind all accounts.                                             *)
LEMMA ConnectTyped ==
    ASSUME TInv, NEW p \in Procs, Connection(p)
    PROVE  /\ call' \in [Procs -> ConnectType] /\ pty' \in [Procs -> LoginType]
           /\ cut' \in [Procs -> SUBSET LoginType] /\ ghosts' \in [Procs -> SUBSET LoginType]
           /\ held' \in [Procs -> Hosts \cup {Form, None}]
           /\ UNCHANGED <<disks, io, history>>
  <1>1. /\ call \in [Procs -> ConnectType] /\ pty \in [Procs -> LoginType]
        /\ cut \in [Procs -> SUBSET LoginType] /\ ghosts \in [Procs -> SUBSET LoginType]
        /\ held \in [Procs -> Hosts \cup {Form, None}]
    BY DEF TInv, TypeOK
  <1>2. Gateway \in Hosts \cup {Form} /\ Content \in FileType
    BY FilesTyped, GatewayTyped, ContentTyped
  <1>3. call[p] \in ConnectType /\ pty[p] \in LoginType
    BY <1>1
  <1>4. CASE Configure(p)
    <2>1. [at |-> "choosing", host |-> Gateway] \in ConnectType
      BY <1>2 DEF ConnectType
    <2>2. QED
      BY <1>1, <1>4, <2>1 DEF Configure
  <1>5. CASE Choose(p)
    <2>1. [at |-> "opening", host |-> call[p].host, id |-> Content.active] \in ConnectType
      BY <1>2, <1>3, <1>5 DEF Choose, ConnectType, FileType, Idle
    <2>2. QED
      BY <1>1, <1>5, <2>1 DEF Choose
  <1>6. CASE Dial(p)
    <2> DEFINE login == [host |-> call[p].host, password |-> Credential(p, call[p].id)]
    <2>1. call[p].host \in Hosts \cup {Form} /\ call[p].id \in Ids \cup {NoId}
      BY <1>3, <1>6 DEF Dial, ConnectType, Idle
    <2>2. DOMAIN Content.profiles \subseteq Ids
      BY <1>2, BookTyped DEF FileType
    <2>3. Credential(p, call[p].id) \in Ids \cup {Env, None}
      BY <2>2 DEF Credential
    <2>4. login \in LoginType
      BY <2>1, <2>3 DEF LoginType
    <2>5. [at |-> "dialing", login |-> login] \in ConnectType
      BY <2>4 DEF ConnectType
    <2> HIDE DEF login
    <2>6. call' = [call EXCEPT ![p] = [at |-> "dialing", login |-> login]]
      BY <1>6 DEF Dial, login
    <2>7. QED
      BY <1>1, <1>6, <2>5, <2>6 DEF Dial
  <1>7. CASE Reach(p)
    <2>1. call[p].login \in LoginType
      BY <1>3, <1>7 DEF Reach, ConnectType, Idle
    <2>2. QED
      BY <1>1, <1>7, <2>1, IdleTyped DEF Reach
  <1>8. CASE Miss(p) \/ Ended(p)
    BY <1>1, <1>8, IdleTyped DEF Miss, Ended
  <1>9. CASE \E login \in cut[p] : CutReach(p, login) \/ CutMiss(p, login)
    <2>1. cut[p] \subseteq LoginType /\ ghosts[p] \subseteq LoginType
      BY <1>1
    <2>2. PICK login \in cut[p] : CutReach(p, login) \/ CutMiss(p, login)
      BY <1>9
    <2>3. QED
      BY <1>1, <2>1, <2>2 DEF CutReach, CutMiss
  <1>10. CASE Obtain(p)
    <2>1. pty[p].host \in Hosts \cup {Form, None}
      BY <1>3 DEF LoginType
    <2>2. QED
      BY <1>1, <1>2, <1>10, <2>1 DEF Obtain
  <1>11. QED
    BY <1>4, <1>5, <1>6, <1>7, <1>8, <1>9, <1>10 DEF Connection

(* Before the first operation every file is whole.                         *)
LEMMA TInvInit == Init => TInv
  <1>1. SUFFICES ASSUME Init PROVE TInv
    OBVIOUS
  <1>2. \A p \in Procs : io[p].at = "idle"
    BY <1>1 DEF Init, Idle
  <1>3. TypeOK
    BY <1>1, FileTyped, IdleTyped DEF Init, TypeOK
  <1>4. QED
    BY <1>1, <1>2, <1>3, FileTyped DEF Init, TInv, FilesAreWhole

(* Every step keeps the types and the files whole.                         *)
LEMMA TInvKept == TInv /\ [Next]_vars => TInv'
  <1>1. SUFFICES ASSUME TInv, [Next]_vars PROVE TInv'
    OBVIOUS
  <1>2. /\ TypeOK /\ FilesAreWhole /\ io \in [Procs -> OperationType]
        /\ \A p \in Procs : io[p] \in OperationType /\ (io[p].at # "idle" => Formed(io[p]))
    BY <1>1 DEF TInv, TypeOK, FilesAreWhole
  <1>3. ASSUME NEW p \in Procs, NEW n \in OperationType, n.at # "idle" => Formed(n), io' = [io EXCEPT ![p] = n]
        PROVE  /\ io' \in [Procs -> OperationType]
               /\ \A q \in Procs : io'[q].at # "idle" => Formed(io'[q])
    BY <1>2, <1>3
  <1>4. ASSUME NEW p \in Procs,
               \/ \E id \in Ids \cup {NoId} : Switch(p, id)
               \/ \E id \in Ids : Remove(p, id) \/ \E host \in Hosts : Save(p, id, host) \/ SaveBare(p, id, host)
        PROVE  TInv'
    <2>1. /\ overlap' = (overlap \/ \E q \in Procs \ {p} : io[q].at # "idle")
          /\ edits' = edits + 1
          /\ UNCHANGED <<disks, sessions, kills, choice, acked, mintRace>>
      BY <1>1, <1>4, StartsTyped
    <2>2. PICK o : Begins(p, o) /\ io' = [io EXCEPT ![p] = o]
      BY <1>1, <1>4, StartsTyped
    <2>3. io' \in [Procs -> OperationType] /\ \A q \in Procs : io'[q].at # "idle" => Formed(io'[q])
      BY <1>3, <2>2 DEF Begins
    <2>4. FilesAreWhole'
      BY <1>2, <2>1, <2>3 DEF FilesAreWhole, disks
    <2>5. TypeOK'
      BY <1>2, <2>1, <2>3 DEF TypeOK, disks, sessions
    <2>6. QED
      BY <2>4, <2>5 DEF TInv
  <1>5. ASSUME NEW p \in Procs, LoadKey(p) \/ OpenKey(p) \/ FillKey(p) \/ NoKey(p)
        PROVE  TInv'
    <2>1. FilesAreWhole'
      BY <1>2, <1>5 DEF FilesAreWhole, LoadKey, OpenKey, FillKey, NoKey
    <2>2. Found \in Procs \cup {"minting", "unusable"}
      BY <1>2 DEF Found, TypeOK
    <2>3. TypeOK'
      BY ZenonT(40), <1>2, <1>5, <2>2 DEF TypeOK, LoadKey, OpenKey, FillKey, NoKey, sessions, history
    <2>4. QED
      BY <2>1, <2>3 DEF TInv
  <1>6. ASSUME NEW p \in Procs, Seal(p)
        PROVE  TInv'
    <2>1. UNCHANGED <<disks, sessions, history>>
      BY <1>1, <1>6, SealMoves
    <2>2. PICK n : (n = Idle \/ SealedStep(p, n)) /\ io' = [io EXCEPT ![p] = n]
      BY <1>1, <1>6, SealMoves
    <2>3. n \in OperationType /\ (n.at # "idle" => Formed(n))
      <3>1. CASE n = Idle
        BY <3>1, IdleTyped DEF Idle
      <3>2. CASE SealedStep(p, n)
        BY <3>2 DEF SealedStep
      <3>3. QED
        BY <2>2, <3>1, <3>2
    <2>4. io' \in [Procs -> OperationType] /\ \A q \in Procs : io'[q].at # "idle" => Formed(io'[q])
      BY <1>3, <2>2, <2>3
    <2>5. FilesAreWhole'
      BY <1>2, <2>1, <2>4 DEF FilesAreWhole, disks
    <2>6. TypeOK'
      BY <1>2, <2>1, <2>4 DEF TypeOK, disks, sessions, history
    <2>7. QED
      BY <2>5, <2>6 DEF TInv
  <1>7. ASSUME NEW p \in Procs, Open(p) \/ Fill(p) \/ Rename(p) \/ RenameFails(p) \/ CleanUp(p)
        PROVE  TInv'
    <2>1. /\ io[p].at # "idle" /\ io' \in [Procs -> OperationType]
          /\ \A q \in Procs : Moved(io[q], io'[q])
          /\ file' \in {file, tmp, io[p].new}
          /\ tmp' \in {tmp, io[p].new, File("none"), File("blank")}
      BY <1>1, <1>7, WriteMoves
    <2>2. \A q \in Procs : io'[q].at # "idle" => Formed(io'[q])
      BY <1>1, <1>2, <2>1, FormedKept
    <2>3. /\ file' \in FileType /\ Whole(file') /\ tmp' \in FileType /\ Whole(tmp')
      BY <1>1, <2>1, FilesTyped, FileTyped
    <2>4. FilesAreWhole'
      BY <2>2, <2>3 DEF FilesAreWhole
    <2>5. disk' = disk /\ key' = key /\ edits' = edits /\ kills' = kills /\ overlap' = overlap
          /\ mintRace' = mintRace
      BY <1>7 DEF Open, Fill, Rename, RenameFails, CleanUp, history, disks
    <2>6. acked' \subseteq Ids
      <3>1. acked \subseteq Ids /\ (io[p].kind = "save" => io[p].id \in Ids)
        BY <1>1, <1>2, <2>1, FilesTyped DEF TypeOK
      <3>2. QED
        BY <1>7, <3>1 DEF Open, Fill, Rename, RenameFails, CleanUp, history
    <2>7. choice' \in [Procs -> {"own", "unknown"}]
      BY <1>2, <1>7 DEF Open, Fill, Rename, RenameFails, CleanUp, history, Overtaken, TypeOK
    <2>8. /\ call' \in [Procs -> ConnectType] /\ pty' \in [Procs -> LoginType]
          /\ cut' \in [Procs -> SUBSET LoginType] /\ ghosts' \in [Procs -> SUBSET LoginType]
          /\ held' \in [Procs -> Hosts \cup {Form, None}]
      <3>1. CASE UNCHANGED sessions
        BY <1>2, <3>1 DEF sessions, TypeOK
      <3>2. CASE Disposed(p) /\ held' = [held EXCEPT ![p] = None]
        <4>1. call[p].at = "dialing" => call[p].login \in LoginType
          BY <1>2 DEF TypeOK, ConnectType, Idle
        <4>2. QED
          BY <1>2, <3>2, <4>1, IdleTyped DEF Disposed, TypeOK
      <3>3. QED
        BY <1>7, <3>1, <3>2 DEF Open, Fill, Rename, RenameFails, CleanUp, Applied, sessions
    <2>9. TypeOK'
      BY <1>2, <2>1, <2>3, <2>5, <2>6, <2>7, <2>8 DEF TypeOK
    <2>10. QED
      BY <2>4, <2>9 DEF TInv
  <1>8. ASSUME NEW p \in Procs, Connection(p)
        PROVE  TInv'
    <2>1. /\ call' \in [Procs -> ConnectType] /\ pty' \in [Procs -> LoginType]
          /\ cut' \in [Procs -> SUBSET LoginType] /\ ghosts' \in [Procs -> SUBSET LoginType]
          /\ held' \in [Procs -> Hosts \cup {Form, None}]
          /\ UNCHANGED <<disks, io, history>>
      BY <1>1, <1>8, ConnectTyped
    <2>2. FilesAreWhole'
      BY <1>2, <2>1 DEF FilesAreWhole, disks
    <2>3. TypeOK'
      BY <1>2, <2>1 DEF TypeOK, disks, history
    <2>4. QED
      BY <2>2, <2>3 DEF TInv
  <1>9. ASSUME NEW p \in Procs, Restart(p)
        PROVE  TInv'
    <2>1. io' \in [Procs -> OperationType] /\ \A q \in Procs : io'[q].at # "idle" => Formed(io'[q])
      BY <1>3, <1>9, IdleTyped DEF Restart, Idle
    <2>2. FilesAreWhole'
      BY <1>2, <1>9, <2>1 DEF FilesAreWhole, Restart
    <2>3. TypeOK'
      BY <1>2, <1>9, <2>1, IdleTyped DEF TypeOK, Restart
    <2>4. QED
      BY <2>2, <2>3 DEF TInv
  <1>10. CASE Damage
    <2>1. FilesAreWhole'
      BY <1>2, <1>10, FileTyped DEF FilesAreWhole, Damage
    <2>2. TypeOK'
      BY <1>2, <1>10, FileTyped DEF TypeOK, Damage, Overtaken, sessions
    <2>3. QED
      BY <2>1, <2>2 DEF TInv
  <1>11. CASE UNCHANGED vars
    BY <1>2, <1>11 DEF TInv, TypeOK, FilesAreWhole, vars, sessions, disks, history
  <1>12. QED
    BY <1>1, <1>4, <1>5, <1>6, <1>7, <1>8, <1>9, <1>10, <1>11, AccountAssumption DEF Next, Account
-----------------------------------------------------------------------------
(* One key.                                                                *)

(* Where there is no key on disk, or an empty file, what is sealed with it   *)
(* is not sealed.                                                          *)
LEMMA NothingSealed ==
    ASSUME NEW f \in FileType, NEW none \in {None, "empty"}, Sealed(f, none), NEW k
    PROVE  Sealed(f, k)
  <1>1. \A i \in DOMAIN f.profiles : f.profiles[i].token \in Tokens
    BY BookTyped DEF FileType
  <1>2. none \notin Procs /\ none # Unsealed
    BY ProcAssumption DEF None, Unsealed
  <1>3. QED
    BY <1>1, <1>2 DEF Sealed, Tokens

(* No key has been read, and none is being generated.                      *)
LEMMA OneKeyInit == Init => OneKey
  <1>1. SUFFICES ASSUME Init PROVE OneKey
    OBVIOUS
  <1>2. \A p \in Procs : io[p].at = "idle" /\ key[p] = "unread"
    BY <1>1 DEF Init, Idle
  <1>3. "unread" \notin Procs
    BY ProcAssumption
  <1>4. QED
    BY <1>1, <1>2, <1>3, FileTyped DEF Init, OneKey, Generating

(* No step brings a token without its key into the hands of a writer.      *)
LEMMA OneKeyKept == TInv /\ OneKey /\ [Next]_vars => OneKey'
  <1>1. SUFFICES ASSUME TInv, OneKey, [Next]_vars PROVE OneKey'
    OBVIOUS
  <1>2. key \in [Procs -> Procs \cup {"unread", "minting", "filling", "unusable"}] /\ io \in [Procs -> OperationType]
        /\ disk \in Procs \cup {None, "empty"}
    BY <1>1 DEF TInv, TypeOK
  <1>3. {"unread", "minting", "filling", "unusable", "empty", None} \cap Procs = {}
    BY ProcAssumption
  (* Nothing but the operations and the files has changed.                  *)
  <1>4. ASSUME key' = key, disk' = disk, mintRace' = mintRace,
               ~mintRace => /\ Sealed(file', disk) /\ Sealed(tmp', disk)
                            /\ \A q \in Procs : io'[q].at # "idle" => Sealed(io'[q].new, disk)
        PROVE  OneKey'
    BY <1>1, <1>4 DEF OneKey
  <1>5. ASSUME NEW p \in Procs,
               \/ \E id \in Ids \cup {NoId} : Switch(p, id)
               \/ \E id \in Ids : Remove(p, id) \/ \E host \in Hosts : Save(p, id, host) \/ SaveBare(p, id, host)
        PROVE  OneKey'
    <2>1. UNCHANGED <<disks, mintRace>>
      BY <1>1, <1>5, StartsTyped
    <2>2. PICK o : Begins(p, o) /\ io' = [io EXCEPT ![p] = o]
      BY <1>1, <1>5, StartsTyped
    <2>3. Sealed(file, disk) => Sealed(o.new, disk)
      BY <2>2 DEF Begins
    <2>4. \A q \in Procs : io'[q] = IF q = p THEN o ELSE io[q]
      BY <1>2, <2>2
    <2>5. QED
      BY <1>1, <1>4, <2>1, <2>3, <2>4 DEF disks, OneKey
  <1>6. ASSUME NEW p \in Procs, LoadKey(p)
        PROVE  OneKey'
    <2>1. /\ key' = [key EXCEPT ![p] = Found] /\ UNCHANGED <<file, tmp, disk, io>>
          /\ ~mintRace' => ~mintRace /\ ~(Found = "minting" /\ \E q \in Procs \ {p} : key[q] = "minting")
      BY <1>6 DEF LoadKey
    <2>2. \/ Found = "minting" /\ disk = None
          \/ Found = "unusable" /\ disk = "empty"
          \/ Found = disk /\ disk \in Procs
      BY <1>2 DEF Found, None
    <2>3. \A q \in Procs : key'[q] = IF q = p THEN Found ELSE key[q]
      BY <1>2, <2>1
    <2>4. SUFFICES ASSUME ~mintRace' PROVE OneKey'
      BY DEF OneKey
    <2>5. Found = "minting" => \A q \in Procs \ {p} : key[q] \notin Generating
      BY <1>1, <2>1, <2>2, <2>4, <1>3 DEF OneKey, Generating, None
    <2>6. \A q, r \in Procs : {key'[q], key'[r]} \subseteq Generating => q = r
      BY <1>1, <1>3, <2>1, <2>2, <2>3, <2>4, <2>5 DEF OneKey, Generating
    <2>7. QED
      BY <1>1, <1>3, <2>1, <2>2, <2>3, <2>4, <2>6 DEF OneKey, None
  <1>7. ASSUME NEW p \in Procs, OpenKey(p) \/ FillKey(p)
        PROVE  OneKey'
    <2> DEFINE now == IF key[p] = "minting" THEN "filling" ELSE p
    <2>1. /\ key[p] \in Generating /\ \A q \in Procs : key'[q] = IF q = p THEN now ELSE key[q]
          /\ disk' = IF key[p] = "minting" THEN "empty" ELSE p
          /\ UNCHANGED <<file, tmp, io, mintRace>>
      BY <1>2, <1>7 DEF OpenKey, FillKey, Generating, history
    <2>2. SUFFICES ASSUME ~mintRace PROVE OneKey'
      BY <2>1 DEF OneKey
    <2>3. disk \in {None, "empty"}
      BY <1>1, <2>1, <2>2 DEF OneKey, Generating
    <2>4. \A q \in Procs : key[q] \notin Procs /\ (key[q] \in Generating => q = p)
      BY <1>1, <1>3, <2>1, <2>2, <2>3 DEF OneKey
    <2>5. /\ Sealed(file, disk') /\ Sealed(tmp, disk')
          /\ \A q \in Procs : io[q].at # "idle" => Sealed(io[q].new, disk')
      BY <1>1, <2>2, <2>3, FilesTyped, NothingSealed DEF OneKey
    <2>6. \A q \in Procs : q # p => key'[q] \notin Procs \cup Generating
      BY <2>1, <2>4
    <2>7. /\ key'[p] = "filling" => disk' = "empty"
          /\ key'[p] \in Procs => key'[p] = disk'
          /\ key'[p] # "minting"
      BY <1>3, <2>1
    <2>8. QED
      BY <2>1, <2>5, <2>6, <2>7 DEF OneKey, Generating
  <1>8. ASSUME NEW p \in Procs, NoKey(p)
        PROVE  OneKey'
    <2>1. /\ \A q \in Procs : key'[q] = IF q = p THEN "unusable" ELSE key[q]
          /\ UNCHANGED <<file, tmp, disk, io, mintRace>>
      BY <1>2, <1>8 DEF NoKey, history
    <2>2. QED
      BY <1>1, <1>3, <2>1 DEF OneKey, Generating
  <1>9. ASSUME NEW p \in Procs, Seal(p)
        PROVE  OneKey'
    <2>1. UNCHANGED <<disks, history>>
      BY <1>1, <1>9, SealMoves
    <2>2. PICK n : (n = Idle \/ SealedStep(p, n)) /\ io' = [io EXCEPT ![p] = n]
      BY <1>1, <1>9, SealMoves
    <2>3. io[p].at = "sealing"
      BY <1>9 DEF Seal
    <2>4. ~mintRace /\ n.at # "idle" => Sealed(n.new, disk)
      <3>1. CASE n = Idle
        BY <3>1 DEF Idle
      <3>2. ASSUME SealedStep(p, n), ~mintRace
            PROVE  Sealed(n.new, disk)
        <4>1. key[p] = disk /\ Sealed(io[p].new, disk)
          BY <1>1, <2>3, <3>2 DEF OneKey, SealedStep
        <4>2. QED
          BY <3>2, <4>1 DEF SealedStep, Sealed
      <3>3. QED
        BY <2>2, <3>1, <3>2
    <2>5. \A q \in Procs : io'[q] = IF q = p THEN n ELSE io[q]
      BY <1>2, <2>2
    <2>6. QED
      BY <1>1, <1>4, <2>1, <2>4, <2>5 DEF disks, history, OneKey
  <1>10. ASSUME NEW p \in Procs, Open(p) \/ Fill(p) \/ Rename(p) \/ RenameFails(p) \/ CleanUp(p)
         PROVE  OneKey'
    <2>1. /\ io[p].at # "idle"
          /\ \A q \in Procs : Moved(io[q], io'[q])
          /\ file' \in {file, tmp, io[p].new}
          /\ tmp' \in {tmp, io[p].new, File("none"), File("blank")}
      BY <1>1, <1>10, WriteMoves
    <2>2. key' = key /\ disk' = disk /\ mintRace' = mintRace
      BY <1>10 DEF Open, Fill, Rename, RenameFails, CleanUp, disks, history
    <2>3. \A q \in Procs : io'[q].at # "idle" => io[q].at # "idle" /\ io'[q].new = io[q].new
      BY <2>1 DEF Moved, Idle
    <2>4. Sealed(File("none"), disk) /\ Sealed(File("blank"), disk)
      BY FileTyped
    <2>5. QED
      BY <1>1, <1>4, <2>1, <2>2, <2>3, <2>4 DEF OneKey
  <1>11. ASSUME NEW p \in Procs, Connection(p)
         PROVE  OneKey'
    <2>1. UNCHANGED <<disks, io, history>>
      BY <1>1, <1>11, ConnectTyped
    <2>2. QED
      BY <1>1, <2>1 DEF OneKey, disks, history
  <1>12. ASSUME NEW p \in Procs, Restart(p)
         PROVE  OneKey'
    <2>1. /\ \A q \in Procs : /\ key'[q] = IF q = p THEN "unread" ELSE key[q]
                              /\ io'[q] = IF q = p THEN Idle ELSE io[q]
          /\ UNCHANGED <<file, tmp, disk, mintRace>>
      BY <1>2, <1>12 DEF Restart
    <2>2. QED
      BY <1>1, <1>3, <2>1 DEF OneKey, Generating, Idle
  <1>13. CASE Damage
    BY <1>1, <1>13, FileTyped DEF OneKey, Damage
  <1>14. CASE UNCHANGED vars
    BY <1>1, <1>14 DEF OneKey, vars, history
  <1>15. QED
    BY <1>1, <1>5, <1>6, <1>7, <1>8, <1>9, <1>10, <1>11, <1>12, <1>13, <1>14, AccountAssumption
    DEF Next, Account
-----------------------------------------------------------------------------
(* One writer.                                                             *)

(* Nobody writes.                                                          *)
LEMMA OneWriterInit == Init => OneWriter
  <1>1. SUFFICES ASSUME Init PROVE OneWriter
    OBVIOUS
  <1>2. \A p \in Procs : io[p].at = "idle"
    BY <1>1 DEF Init, Idle
  <1>3. QED
    BY <1>1, <1>2 DEF Init, OneWriter

(* What the writer carries, as the states of its operation, of the file and *)
(* of the temporary file.                                                  *)
LEMMA WriterKept ==
    ASSUME TInv, OneWriter, NEW p \in Procs, io[p].at # "idle",
           Open(p) \/ Fill(p) \/ Rename(p) \/ RenameFails(p) \/ CleanUp(p)
    PROVE  OneWriter'
  <1>1. io \in [Procs -> OperationType] /\ io[p] \in OperationType
    BY DEF TInv, TypeOK
  <1>2. overlap' = overlap
    BY DEF Open, Fill, Rename, RenameFails, CleanUp, history
  <1>3. SUFFICES ASSUME ~overlap PROVE OneWriter'
    BY <1>2 DEF OneWriter
  <1>4. /\ Carries(io[p], acked, tmp) /\ \A q \in Procs \ {p} : io[q].at = "idle"
        /\ file.is # "corrupt" => acked \subseteq DOMAIN Content.profiles
    BY <1>3 DEF OneWriter
  <1>5. /\ io[p].new.is = "json" /\ Formed(io[p])
        /\ acked \subseteq DOMAIN io[p].new.profiles \cup (IF io[p].kind = "remove" THEN {io[p].id} ELSE {})
    BY <1>4, FilesTyped DEF Carries
  <1>6. ASSUME NEW n, Carries(n, acked', tmp'), UNCHANGED <<file, acked>>, io' = [io EXCEPT ![p] = n]
        PROVE  OneWriter'
    <2>1. \A q \in Procs : io'[q] = IF q = p THEN n ELSE io[q]
      BY <1>1, <1>6
    <2>2. Content' = Content
      BY <1>6 DEF Content
    <2>3. QED
      BY <1>4, <1>6, <2>1, <2>2 DEF OneWriter
  <1>7. CASE Open(p)
    <2> DEFINE n == [io[p] EXCEPT !.at = "open", !.fd = "tmp"]
    <2>1. io' = [io EXCEPT ![p] = n] /\ UNCHANGED <<file, acked>>
      BY <1>1, <1>7 DEF Open, history
    <2>2. Step(io[p], n, "open", "tmp")
      BY <1>1, OperationMoved
    <2> HIDE DEF n
    <2>3. Carries(n, acked', tmp')
      BY <1>5, <2>1, <2>2 DEF Carries, Step
    <2>4. QED
      BY <1>6, <2>1, <2>3
  <1>8. CASE Fill(p)
    <2> DEFINE n == [io[p] EXCEPT !.at = "filled"]
    <2>1. io[p].at = "open" /\ io[p].fd = "tmp"
      BY <1>4, <1>8 DEF Fill, Carries
    <2>2. io' = [io EXCEPT ![p] = n] /\ UNCHANGED <<file, acked>> /\ tmp' = io[p].new
      BY <1>1, <1>8, <2>1 DEF Fill
    <2>3. Step(io[p], n, "filled", io[p].fd)
      BY <1>1, OperationMoved
    <2> HIDE DEF n
    <2>4. Carries(n, acked', tmp')
      BY <1>5, <2>1, <2>2, <2>3 DEF Carries, Step
    <2>5. QED
      BY <1>6, <2>2, <2>4
  <1>9. CASE Rename(p)
    <2>1. io[p].at = "filled" /\ tmp = io[p].new /\ file' = tmp
      BY <1>4, <1>9 DEF Rename, Carries
    <2>2. \A q \in Procs : io'[q].at = "idle"
      BY <1>4, <1>9 DEF Rename, Idle
    <2>3. Content'.profiles = io[p].new.profiles
      BY <1>5, <2>1 DEF Content
    <2>4. acked' \subseteq DOMAIN io[p].new.profiles
      BY <1>1, <1>5, <1>9, OperationTyped DEF Rename, Formed
    <2>5. QED
      BY <2>2, <2>3, <2>4 DEF OneWriter
  <1>10. CASE RenameFails(p)
    BY <1>4, <1>5, <1>10 DEF RenameFails, Carries
  <1>11. CASE CleanUp(p)
    BY <1>4, <1>11 DEF CleanUp, Carries
  <1>12. QED
    BY <1>7, <1>8, <1>9, <1>10, <1>11

(* Without an overlap there is one writer, and it carries what was saved.  *)
LEMMA OneWriterKept == TInv /\ OneWriter /\ [Next]_vars => OneWriter'
  <1>1. SUFFICES ASSUME TInv, OneWriter, [Next]_vars PROVE OneWriter'
    OBVIOUS
  <1>2. io \in [Procs -> OperationType]
    BY <1>1 DEF TInv, TypeOK
  (* The files and what was reported are left alone, and one process is no     *)
  (* longer writing, or goes on with what it writes.                        *)
  <1>3. ASSUME UNCHANGED <<file, tmp, acked, overlap>>, \A q \in Procs : io'[q] = io[q] \/ io'[q] = Idle
        PROVE  OneWriter'
    <2>1. Content' = Content
      BY <1>3 DEF Content
    <2>2. SUFFICES ASSUME ~overlap PROVE OneWriter'
      BY <1>3 DEF OneWriter
    <2>3. \A q \in Procs : io'[q].at # "idle" => io'[q] = io[q] /\ io[q].at # "idle"
      BY <1>3 DEF Idle
    <2>4. ASSUME NEW q \in Procs, io'[q].at # "idle"
          PROVE  Carries(io'[q], acked', tmp')
      <3>1. Carries(io[q], acked, tmp) /\ io'[q] = io[q]
        BY <1>1, <2>2, <2>3, <2>4 DEF OneWriter
      <3>2. QED
        BY <1>3, <3>1 DEF Carries
    <2>5. QED
      BY <1>1, <1>3, <2>1, <2>2, <2>3, <2>4 DEF OneWriter
  <1>4. ASSUME NEW p \in Procs,
               \/ \E id \in Ids \cup {NoId} : Switch(p, id)
               \/ \E id \in Ids : Remove(p, id) \/ \E host \in Hosts : Save(p, id, host) \/ SaveBare(p, id, host)
        PROVE  OneWriter'
    <2>1. /\ overlap' = (overlap \/ \E q \in Procs \ {p} : io[q].at # "idle")
          /\ UNCHANGED <<disks, acked>> /\ Ready(p) /\ Writable
      BY <1>1, <1>4, StartsTyped
    <2>2. PICK o : Begins(p, o) /\ io' = [io EXCEPT ![p] = o]
      BY <1>1, <1>4, StartsTyped
    <2>3. SUFFICES ASSUME ~overlap' PROVE OneWriter'
      BY DEF OneWriter
    <2>4. ~overlap /\ \A q \in Procs \ {p} : io[q].at = "idle"
      BY <2>1, <2>3
    <2>5. acked \subseteq DOMAIN Content.profiles /\ Content' = Content
      BY <1>1, <2>1, <2>4 DEF OneWriter, Writable, disks, Content
    <2>6. Carries(o, acked', tmp')
      BY <2>1, <2>2, <2>5 DEF Carries, Begins
    <2>7. \A q \in Procs : io'[q] = IF q = p THEN o ELSE io[q]
      BY <1>2, <2>2
    <2>8. QED
      BY <2>1, <2>4, <2>5, <2>6, <2>7 DEF OneWriter, disks
  <1>5. ASSUME NEW p \in Procs, LoadKey(p) \/ OpenKey(p) \/ FillKey(p) \/ NoKey(p)
        PROVE  OneWriter'
    BY <1>3, <1>5 DEF LoadKey, OpenKey, FillKey, NoKey, history
  <1>6. ASSUME NEW p \in Procs, Seal(p)
        PROVE  OneWriter'
    <2>1. UNCHANGED <<disks, history>> /\ io[p].at = "sealing"
      BY <1>1, <1>6, SealMoves
    <2>2. PICK n : (n = Idle \/ SealedStep(p, n)) /\ io' = [io EXCEPT ![p] = n]
      BY <1>1, <1>6, SealMoves
    <2>3. \A q \in Procs : io'[q] = IF q = p THEN n ELSE io[q]
      BY <1>2, <2>2
    <2>4. CASE n = Idle
      BY <1>3, <2>1, <2>3, <2>4 DEF disks, history
    <2>5. CASE SealedStep(p, n)
      <3>1. SUFFICES ASSUME ~overlap PROVE OneWriter'
        BY <2>1 DEF OneWriter, history
      <3>2. Carries(io[p], acked, tmp) /\ \A q \in Procs \ {p} : io[q].at = "idle"
        BY <1>1, <2>1, <3>1 DEF OneWriter
      <3>3. io[p].kind = "save"
        BY <1>1, <2>1, FilesTyped DEF Formed
      <3>4. Carries(n, acked', tmp')
        BY <2>1, <2>5, <3>2, <3>3 DEF Carries, SealedStep, disks, history
      <3>5. Content' = Content
        BY <2>1 DEF Content, disks
      <3>6. QED
        BY <1>1, <2>1, <2>3, <3>1, <3>2, <3>4, <3>5 DEF OneWriter, disks, history
    <2>6. QED
      BY <2>2, <2>4, <2>5
  <1>7. ASSUME NEW p \in Procs, Open(p) \/ Fill(p) \/ Rename(p) \/ RenameFails(p) \/ CleanUp(p)
        PROVE  OneWriter'
    <2>1. io[p].at # "idle"
      BY <1>1, <1>7, WriteMoves
    <2>2. QED
      BY <1>1, <1>7, <2>1, WriterKept
  <1>8. ASSUME NEW p \in Procs, Connection(p)
        PROVE  OneWriter'
    <2>1. UNCHANGED <<disks, io, history>>
      BY <1>1, <1>8, ConnectTyped
    <2>2. QED
      BY <1>3, <2>1 DEF disks, history
  <1>9. ASSUME NEW p \in Procs, Restart(p)
        PROVE  OneWriter'
    BY <1>2, <1>3, <1>9 DEF Restart
  <1>10. CASE Damage
    <2>1. /\ file'.is = "corrupt" /\ UNCHANGED <<tmp, io, acked, overlap>>
      BY <1>10, FileTyped DEF Damage
    <2>2. \A q \in Procs : Carries(io[q], acked, tmp) => Carries(io'[q], acked', tmp')
      BY <2>1 DEF Carries
    <2>3. QED
      BY <1>1, <2>1, <2>2 DEF OneWriter
  <1>11. CASE UNCHANGED vars
    BY <1>3, <1>11 DEF vars, history
  <1>12. QED
    BY <1>1, <1>4, <1>5, <1>6, <1>7, <1>8, <1>9, <1>10, <1>11, AccountAssumption
    DEF Next, Account
-----------------------------------------------------------------------------
(* All follows the choice.                                                 *)

(* What stays, what is dropped, and what the account now selected gives      *)
(* follows the choice; a key that is loaded opens what is dialled from now.  *)
LEMMA FollowsStays ==
    ASSUME NEW p \in Procs, Follows(p), file' = file,
           choice'[p] = "own" => choice[p] = "own",
           key'[p] = key[p] \/ ~Loaded(p),
           held'[p] \in {held[p], None, Gateway}, pty'[p] \in {pty[p], NoLogin},
           call'[p] \in {call[p], Idle}
    PROVE  Follows(p)'
  <1>1. Content' = Content /\ Gateway' = Gateway
    BY DEF Content, Gateway
  <1>2. SUFFICES ASSUME choice[p] = "own" PROVE Follows(p)'
    BY DEF Follows
  <1>3. held'[p] \in {None, Gateway'}
    BY <1>1, <1>2 DEF Follows
  <1>4. ASSUME NEW login, Faithful(p, login)
        PROVE  /\ login.host = Gateway'
               /\ Content'.active # NoId /\ Content'.profiles[Content'.active].token # Unsealed =>
                    /\ Loaded(p)'
                    /\ key'[p] = Content'.profiles[Content'.active].token => login.password = Content'.active
    BY <1>1, <1>4 DEF Faithful, Loaded
  <1>5. pty'[p] # NoLogin => Faithful(p, pty[p]) /\ pty'[p] = pty[p]
    BY <1>2 DEF Follows
  <1>6. /\ call'[p].at \in {"choosing", "opening"} => call'[p].host = Gateway
        /\ call'[p].at = "opening" => call'[p].id = Content.active
        /\ call'[p].at = "dialing" => Faithful(p, call[p].login) /\ call'[p] = call[p]
    BY <1>2 DEF Follows, Idle
  <1>7. QED
    BY <1>1, <1>3, <1>4, <1>5, <1>6 DEF Follows, Faithful, Loaded

(* The connect of a process that made its own choice goes to that account.   *)
LEMMA ConnectFollows ==
    ASSUME TInv, NEW p \in Procs, Follows(p),
           Configure(p) \/ Choose(p) \/ Dial(p) \/ Reach(p)
    PROVE  Follows(p)'
  <1>1. UNCHANGED <<file, key, choice, held>> /\ Content' = Content /\ Gateway' = Gateway
    BY DEF Configure, Choose, Dial, Reach, disks, history, Content, Gateway
  <1>2. call \in [Procs -> ConnectType] /\ pty \in [Procs -> LoginType] /\ call[p] \in ConnectType
    BY DEF TInv, TypeOK
  <1>3. SUFFICES ASSUME choice[p] = "own" PROVE Follows(p)'
    BY <1>1 DEF Follows
  <1>4. /\ held[p] \in {None, Gateway}
        /\ pty[p] # NoLogin => Faithful(p, pty[p])
    BY <1>3 DEF Follows
  <1>5. CASE Configure(p)
    <2>1. call'[p] = [at |-> "choosing", host |-> Gateway] /\ pty' = pty
      BY <1>2, <1>5 DEF Configure
    <2>2. QED
      BY <1>1, <1>4, <2>1 DEF Follows, Faithful, Loaded
  <1>6. CASE Choose(p)
    <2>1. /\ call'[p] = [at |-> "opening", host |-> call[p].host, id |-> Content.active] /\ pty' = pty
          /\ call[p].host = Gateway
      BY <1>2, <1>3, <1>6 DEF Choose, Follows
    <2>2. QED
      BY <1>1, <1>4, <2>1 DEF Follows, Faithful, Loaded
  <1>7. CASE Dial(p)
    <2> DEFINE login == [host |-> call[p].host, password |-> Credential(p, call[p].id)]
               token == Content.profiles[Content.active].token
    <2>1. /\ call'[p] = [at |-> "dialing", login |-> login] /\ pty' = pty
          /\ call[p].at = "opening" /\ call[p].host = Gateway /\ call[p].id = Content.active
      BY <1>2, <1>3, <1>7 DEF Dial, Follows
    <2>2. ASSUME Content.active # NoId, token # Unsealed
          PROVE  /\ Loaded(p)
                 /\ key[p] = token => login.password = Content.active
      <3>1. Content.active \in DOMAIN Content.profiles
        BY <2>2, FilesTyped, ContentTyped DEF Whole
      <3>2. NeedsKey(p)
        BY <2>1, <2>2, <3>1 DEF NeedsKey
      <3>3. QED
        BY <1>7, <2>1, <2>2, <3>1, <3>2 DEF Dial, Credential, Opens
    <2>3. login.host = Gateway
      BY <2>1
    <2> HIDE DEF login
    <2>4. Faithful(p, login)
      BY <2>2, <2>3 DEF Faithful
    <2>5. call'[p].at = "dialing" /\ call'[p].login = login
      BY <2>1
    <2>6. QED
      BY <1>1, <1>4, <2>1, <2>4, <2>5 DEF Follows, Faithful, Loaded
  <1>8. CASE Reach(p)
    <2>1. /\ call'[p] = Idle /\ pty'[p] = call[p].login /\ Faithful(p, call[p].login)
      BY <1>2, <1>3, <1>8 DEF Reach, Follows
    <2>2. QED
      BY <1>1, <1>4, <2>1 DEF Follows, Faithful, Loaded, Idle
  <1>9. QED
    BY <1>5, <1>6, <1>7, <1>8

(* No process has chosen.                                                  *)
LEMMA FollowsInit == Init => \A p \in Procs : Follows(p)
BY DEF Init, Follows

(* Whoever steps, the choice of every process is followed.                 *)
LEMMA FollowsKept == TInv /\ (\A p \in Procs : Follows(p)) /\ [Next]_vars => \A p \in Procs : Follows(p)'
  <1>1. SUFFICES ASSUME TInv, \A p \in Procs : Follows(p), [Next]_vars, NEW q \in Procs
                 PROVE  Follows(q)'
    OBVIOUS
  <1>2. TypeOK
    BY <1>1 DEF TInv
  <1>3. ASSUME NEW p \in Procs,
               \/ \E id \in Ids \cup {NoId} : Switch(p, id)
               \/ \E id \in Ids : Remove(p, id) \/ \E host \in Hosts : Save(p, id, host) \/ SaveBare(p, id, host)
        PROVE  Follows(q)'
    <2>1. UNCHANGED <<disks, sessions, choice>>
      BY <1>1, <1>3, StartsTyped
    <2>2. QED
      BY <1>1, <2>1, FollowsStays DEF disks, sessions
  <1>4. ASSUME NEW p \in Procs, LoadKey(p) \/ OpenKey(p) \/ FillKey(p) \/ NoKey(p)
        PROVE  Follows(q)'
    <2>1. UNCHANGED <<file, sessions, choice>>
      BY <1>4 DEF LoadKey, OpenKey, FillKey, NoKey, history
    <2>2. key'[q] = key[q] \/ ~Loaded(q)
      BY <1>2, <1>4 DEF LoadKey, OpenKey, FillKey, NoKey, Loaded, TypeOK
    <2>3. QED
      BY <1>1, <2>1, <2>2, FollowsStays DEF sessions
  <1>5. ASSUME UNCHANGED <<file, key, sessions, choice>>
        PROVE  Follows(q)'
    BY <1>1, <1>5, FollowsStays DEF sessions
  <1>6. ASSUME choice'[q] = "unknown"
        PROVE  Follows(q)'
    BY <1>6 DEF Follows
  <1>7. ASSUME NEW p \in Procs, Seal(p) \/ Open(p) \/ RenameFails(p) \/ CleanUp(p)
        PROVE  Follows(q)'
    BY <1>5, <1>7 DEF Seal, Open, RenameFails, CleanUp, disks, history
  <1>8. ASSUME NEW p \in Procs, Fill(p)
        PROVE  Follows(q)'
    BY <1>5, <1>6, <1>8 DEF Fill, Overtaken
  <1>9. ASSUME NEW p \in Procs, Rename(p)
        PROVE  Follows(q)'
    <2>1. \/ choice'[q] = "unknown"
          \/ q = p /\ io[p].kind = "switch"
      BY <1>9 DEF Rename
    <2>2. ASSUME q = p, io[p].kind = "switch"
          PROVE  Follows(q)'
      <3>1. Disposed(p) /\ held' = [held EXCEPT ![p] = None]
        BY <1>9, <2>2 DEF Rename, Applied
      <3>2. call'[p] = Idle /\ pty'[p] = NoLogin /\ held'[p] = None
        BY <1>2, <3>1 DEF Disposed, TypeOK
      <3>3. QED
        BY <2>2, <3>2 DEF Follows, Idle
    <2>3. QED
      BY <1>6, <2>1, <2>2
  <1>10. ASSUME NEW p \in Procs, Connection(p)
         PROVE  Follows(q)'
    <2>1. UNCHANGED <<file, key, choice>>
      BY <1>1, <1>10, ConnectTyped DEF disks, history
    <2>2. CASE Configure(p) \/ Choose(p) \/ Dial(p) \/ Reach(p)
      <3>1. CASE q = p
        BY <1>1, <2>2, <3>1, ConnectFollows
      <3>2. CASE q # p
        <4>1. held'[q] = held[q] /\ pty'[q] = pty[q] /\ call'[q] = call[q]
          BY <1>2, <2>2, <3>2 DEF Configure, Choose, Dial, Reach, TypeOK
        <4>2. QED
          BY <1>1, <2>1, <4>1, FollowsStays
      <3>3. QED
        BY <3>1, <3>2
    <2>3. CASE Miss(p) \/ Ended(p) \/ \E login \in cut[p] : CutReach(p, login) \/ CutMiss(p, login)
      <3>1. held'[q] = held[q] /\ pty'[q] \in {pty[q], NoLogin} /\ call'[q] \in {call[q], Idle}
        BY <1>2, <2>3 DEF Miss, Ended, CutReach, CutMiss, TypeOK
      <3>2. QED
        BY <1>1, <2>1, <3>1, FollowsStays
    <2>4. CASE Obtain(p)
      <3>1. pty'[q] = pty[q] /\ call'[q] = call[q]
        BY <2>4 DEF Obtain
      <3>2. CASE choice[q] # "own"
        BY <2>1, <3>2 DEF Follows
      <3>3. CASE choice[q] = "own"
        <4>1. pty[q].host \in {None, Gateway}
          <5>1. pty[q] = NoLogin \/ Faithful(q, pty[q])
            BY <1>1, <3>3 DEF Follows
          <5>2. QED
            BY <5>1 DEF NoLogin, Faithful
        <4>2. held'[q] \in {held[q], None, Gateway}
          <5>1. CASE q = p
            BY <1>2, <2>4, <4>1, <5>1 DEF Obtain, TypeOK
          <5>2. CASE q # p
            BY <1>2, <2>4, <5>2 DEF Obtain, TypeOK
          <5>3. QED
            BY <5>1, <5>2
        <4>3. QED
          BY <1>1, <2>1, <3>1, <4>2, FollowsStays
      <3>4. QED
        BY <3>2, <3>3
    <2>5. QED
      BY <1>10, <2>2, <2>3, <2>4 DEF Connection
  <1>11. ASSUME NEW p \in Procs, Restart(p)
         PROVE  Follows(q)'
    <2>1. CASE q = p
      BY <1>2, <1>6, <1>11, <2>1 DEF Restart, TypeOK
    <2>2. CASE q # p
      <3>1. /\ file' = file /\ choice'[q] = choice[q] /\ key'[q] = key[q] /\ held'[q] = held[q]
            /\ pty'[q] = pty[q] /\ call'[q] = call[q]
        BY <1>2, <1>11, <2>2 DEF Restart, TypeOK
      <3>2. QED
        BY <1>1, <3>1, FollowsStays
    <2>3. QED
      BY <2>1, <2>2
  <1>12. CASE Damage
    BY <1>6, <1>12 DEF Damage, Overtaken
  <1>13. CASE UNCHANGED vars
    BY <1>5, <1>13 DEF vars, sessions, history
  <1>14. QED
    BY <1>1, <1>3, <1>4, <1>7, <1>8, <1>9, <1>10, <1>11, <1>12, <1>13, AccountAssumption
    DEF Next, Account
-----------------------------------------------------------------------------
(* The inductive invariant holds throughout.                               *)
THEOREM Invariance == Spec => []IInv
  <1>1. Init => IInv
    BY TInvInit, OneKeyInit, OneWriterInit, FollowsInit DEF IInv, TInv
  <1>2. IInv /\ [Next]_vars => IInv'
    BY TInvKept, OneKeyKept, OneWriterKept, FollowsKept DEF IInv, TInv
  <1>3. QED
    BY <1>1, <1>2, PTL DEF Spec

(* The variables have their types: what is read from the file, sealed and    *)
(* written back stays a file (profile-store.ts parseFile, upsert, remove).   *)
THEOREM TypeCorrect == Spec => []TypeOK
  <1>1. IInv => TypeOK
    BY DEF IInv
  <1>2. QED
    BY <1>1, Invariance, PTL

(* After a switch of its own nothing of the previous account is left with a  *)
(* process: not its session, its grant or its listing, nor a connect on its  *)
(* way (runtime.ts switchAccount).                                         *)
THEOREM ChoiceHolds == Spec => []OwnChoiceHolds
  <1>1. IInv => OwnChoiceHolds
    <2>1. SUFFICES ASSUME IInv, NEW p \in Procs, choice[p] = "own"
                   PROVE  /\ {pty[p].host, held[p]} \subseteq {None, Gateway}
                          /\ Content.active # NoId /\ Opens(p, Content.profiles[Content.active].token)
                               => pty[p].password \in {None, Content.active}
      BY DEF OwnChoiceHolds
    <2>2. held[p] \in {None, Gateway} /\ (pty[p] = NoLogin \/ Faithful(p, pty[p]))
      BY <2>1 DEF IInv, Follows
    <2>3. QED
      BY <2>2 DEF NoLogin, Faithful, Opens
  <1>2. QED
    BY <1>1, Invariance, PTL

(* A profile whose saving was reported is in the file until it is removed,   *)
(* unless two processes' writes overlapped (profile-store.ts writeFile).     *)
THEOREM SavedHolds == Spec => []SavedUnlessOverlapped
  <1>1. IInv => SavedUnlessOverlapped
    BY DEF IInv, OneWriter, SavedUnlessOverlapped
  <1>2. QED
    BY <1>1, Invariance, PTL

(* Unless two processes generated a key at once, the one on disk opens every *)
(* secret the file holds (credential-vault.ts loadKey).                     *)
THEOREM ReadableHolds == Spec => []SecretsStayReadable
  <1>1. IInv => SecretsStayReadable
    <2>1. SUFFICES ASSUME IInv, ~mintRace
                   PROVE  \A id \in DOMAIN Content.profiles : Content.profiles[id].token \in {Unsealed, disk}
      BY DEF SecretsStayReadable
    <2>2. TInv /\ Sealed(file, disk)
      BY <2>1 DEF IInv, TInv, OneKey
    <2>3. Sealed(Content, disk)
      BY <2>2, FilesTyped, ContentTyped
    <2>4. QED
      BY <2>3 DEF Sealed
  <1>2. QED
    BY <1>1, Invariance, PTL
=============================================================================
