------------------------------- MODULE AuditLog -------------------------------
(***************************************************************************)
(* The audit trail: the file every connector process of a workspace        *)
(* appends to, its rotation by day and its sweep, the manual archive       *)
(* (runtime/audit-store.ts, runtime/runtime.ts onAudit), and the console   *)
(* page that follows it by an absolute cursor (runtime/audit-viewer.ts).   *)
(*                                                                         *)
(* A process awaits its own queue of appends before it renames; an append  *)
(* of another process may be between opening the file and writing to it.   *)
(* A record is the number it was emitted under, a file the sequence of its *)
(* records.                                                                *)
(***************************************************************************)
EXTENDS Naturals, Sequences, SequencesExt

CONSTANTS Writers,  \* the connector processes
          Watched,  \* those whose console a page is open on
          Mortal,   \* bound: those that may be killed
          RingSize, \* records a console keeps in memory
          Limit,    \* records in an answer
          Retain,   \* days a closed day's file is kept
          Records, Days, Archives, Polls \* bounds; Polls at a time

ASSUME AuditAssumption ==
  /\ Watched \subseteq Writers /\ Mortal \subseteq Writers
  /\ {RingSize, Limit, Retain, Records, Days, Archives, Polls} \subseteq Nat

VARIABLES today,
          fs,      \* name -> the records of the file of that name
          day,     \* process -> auditDay
          queue,   \* process -> the records its chain of appends still holds
          fd,      \* process -> the name its opened file has by now, or None
          rotate,  \* process -> the rotation not done: the day closed, what is awaited; or Off
          archive, \* process -> the archive asked for by its page: what is awaited, or Off
          store,   \* process -> tail and ring of its AuditStore
          feed,    \* process -> what its page has shown and asked for
          emitted, kept, closed, late, archives \* history

trailVars == <<today, fs, day, queue, fd, rotate, archive, store, feed,
               emitted, kept, closed, late, archives>>
appends == <<queue, fd>>
console == <<archive, store, feed>>
history == <<emitted, kept, closed, late, archives>>

None == <<"none", 0>>
Gone == <<"gone", 0>>  \* an inode without a name
Live == <<"live", 0>>
DayFile(d) == <<"day", d>>

\* A UTC stamp: no two archives share one.
ArchiveFile(k) == <<"archive", k>>

Exists(name) == name \in DOMAIN fs
Off == [is |-> "off"]
Free == [is |-> "free"]
-----------------------------------------------------------------------------
(* onAudit: a record, and the rotation of the day that it finds closed.    *)

\* rotateForDay and archive await the appends queued when they start.
Tip == Len(emitted)

OnAudit(p) ==
  /\ Len(emitted) < Records
  /\ emitted' = Append(emitted, [by |-> p, day |-> today])
  /\ queue' = [queue EXCEPT ![p] = Append(@, Len(emitted'))]
  /\ day' = [day EXCEPT ![p] = today]
  /\ rotate' = [rotate EXCEPT ![p] =
       IF day[p] = today THEN @ ELSE [is |-> "waiting", closes |-> day[p], after |-> Len(emitted')]]
  /\ UNCHANGED <<today, fs, fd, console, kept, closed, late, archives>>

Awaited(p) == {wait.after : wait \in {w \in {rotate[p], archive[p]} : w.is = "waiting"}}
Flushed(p, after) == \A i \in 1..Len(queue[p]) : queue[p][i] > after

\* Mutant: appends are not chained.
MutNextRecord(p, i) == TRUE

\* The chain: one append at a time, in order, and after what awaits the ones before.
NextRecord(p, i) == i = 1 /\ \A after \in Awaited(p) : queue[p][i] <= after

\* appendFile: opens the file by its name, ...
OpenFile(p) ==
  /\ fd[p] = None
  /\ \E i \in 1..Len(queue[p]) :
       /\ NextRecord(p, i)
       /\ queue' = [queue EXCEPT ![p] = <<@[i]>> \o RemoveAt(@, i)]
  /\ fd' = [fd EXCEPT ![p] = Live]
  /\ IF Exists(Live) THEN UNCHANGED fs
     ELSE fs' = [n \in DOMAIN fs \cup {Live} |-> IF n = Live THEN <<>> ELSE fs[n]]
  /\ UNCHANGED <<today, day, rotate, console, history>>

\* ... and writes to whatever has become of it.
Write(p) ==
  /\ fd[p] # None
  /\ fs' = IF fd[p] = Gone THEN fs ELSE [fs EXCEPT ![fd[p]] = Append(@, Head(queue[p]))]
  /\ kept' = kept \cup {Head(queue[p])}
  /\ queue' = [queue EXCEPT ![p] = Tail(@)]
  /\ fd' = [fd EXCEPT ![p] = None]
  /\ UNCHANGED <<today, day, rotate, console, emitted, closed, late, archives>>

\* The append fails: it is logged, and the chain goes on without the record.
Fails(p) ==
  /\ fd[p] # None
  /\ queue' = [queue EXCEPT ![p] = Tail(@)]
  /\ fd' = [fd EXCEPT ![p] = None]
  /\ UNCHANGED <<today, fs, day, rotate, console, history>>
-----------------------------------------------------------------------------
(* Files change their names under those who have them open.                *)

Rename(to, swept) ==
  /\ fs' = [n \in ((DOMAIN fs \cup {to}) \ swept) \ {Live} |-> IF n = to THEN fs[Live] ELSE fs[n]]
  /\ fd' = [q \in Writers |-> IF fd[q] = Live THEN to
                            ELSE IF fd[q] \in {to} \cup swept THEN Gone ELSE fd[q]]

\* The offset is of a file that has gone; the one who renamed it starts at 0.
Renamed(p) ==
  [q \in Writers |-> [store[q] EXCEPT !.offset = IF q = p THEN 0 ELSE @, !.same = q = p]]

\* Mutant: the sweep takes a day that is still inside the window.
MutSwept(closes) == {n \in DOMAIN fs : Retain > 0 /\ n[1] = "day" /\ n[2] < closes /\ closes - n[2] >= Retain}

\* pruneOldDays: the files of days, and no others.
Swept(closes) == {n \in DOMAIN fs : Retain > 0 /\ n[1] = "day" /\ n[2] < closes /\ closes - n[2] > Retain}

\* rotateForDay
RotateForDay(p) ==
  /\ rotate[p].is = "waiting" /\ Flushed(p, rotate[p].after) /\ fd[p] = None
  /\ rotate' = [rotate EXCEPT ![p] = Off]
  /\ IF Exists(Live) /\ fs[Live] # <<>>
     THEN LET closes == rotate[p].closes IN
          /\ Rename(DayFile(closes), Swept(closes))
          /\ late' = (late \/ closes <= closed \/ closes + 1 < today)
          /\ closed' = closes
          /\ store' = Renamed(p)
     ELSE UNCHANGED <<fs, fd, closed, late, store>>
  /\ UNCHANGED <<today, day, queue, archive, feed, emitted, kept, archives>>

\* Where a tail starts to read: behind what it has read, if it is the same file.  Of
\* another file it reads all, when that is shorter, or what follows, a line cut in
\* two left out: lines differ in length.
StartsAt(p) ==
  IF store[p].offset = 0 THEN {0}
  ELSE IF store[p].same THEN {store[p].offset}
  ELSE 0..Len(fs[Live])

\* refresh and push: the oldest records leave the ring.
Refreshed(p) ==
  IF ~Exists(Live) THEN {store[p]}
  ELSE {LET all == store[p].ring \o SubSeq(fs[Live], start + 1, Len(fs[Live]))
            over == IF Len(all) > RingSize THEN Len(all) - RingSize ELSE 0
        IN [same |-> TRUE, offset |-> Len(fs[Live]), ring |-> SubSeq(all, over + 1, Len(all)),
            dropped |-> store[p].dropped + over] : start \in StartsAt(p)}

NewStore == [same |-> TRUE, offset |-> 0, ring |-> <<>>, dropped |-> 0]
-----------------------------------------------------------------------------
(* The page: pollAudit every second, whatever is still under way, and the  *)
(* archive button.                                                         *)

NewPage == [seen |-> 0, shown |-> <<>>, crossed |-> FALSE, asks |-> [k \in 1..Polls |-> Free]]

\* Mutant: the cursor goes to the end, also when the answer is a part of it.
MutNextIndex(st, from, items) == st.dropped + Len(st.ring)

\* nextIndex: behind the last record in the answer.
NextIndex(st, from, items) == from + Len(items)

\* The records behind the cursor that the ring still has.
Items(st, from) ==
  SubSeq(st.ring, from - st.dropped + 1, IF from - st.dropped + Limit < Len(st.ring) THEN from - st.dropped + Limit ELSE Len(st.ring))

\* pollAudit, and GET /api/entries as AuditStore.page answers it.
Poll(p, k) ==
  /\ feed[p].asks[k].is = "free"
  /\ \E st \in Refreshed(p) :
       LET since == feed[p].seen
           from == IF since < st.dropped THEN st.dropped ELSE since
           items == Items(st, from)
       IN /\ store' = [store EXCEPT ![p] = st]
          /\ feed' = [feed EXCEPT ![p].asks[k] =
               [is |-> "answered", since |-> since, items |-> items, stale |-> FALSE,
                next |-> IF items = <<>> THEN since ELSE NextIndex(st, from, items)]]
  /\ UNCHANGED <<today, fs, day, appends, rotate, archive, history>>

\* The answer arrives: it is shown, and the cursor only ever goes on.
Shown(pg, k) ==
  LET ask == pg.asks[k] IN
  [pg EXCEPT !.asks[k] = Free, !.shown = @ \o ask.items,
             !.seen = IF ask.next > @ THEN ask.next ELSE @,
             !.crossed = @ \/ ask.stale \/ ask.since # pg.seen]

Show(p, k) ==
  /\ feed[p].asks[k].is = "answered"
  /\ feed' = [feed EXCEPT ![p] = Shown(@, k)]
  /\ UNCHANGED <<today, fs, day, appends, rotate, archive, store, history>>

\* POST /api/audit/archive: archive() waits for the appends, ...
AskArchive(p) ==
  /\ archive[p].is = "off" /\ archives < Archives
  /\ archives' = archives + 1
  /\ archive' = [archive EXCEPT ![p] = [is |-> "waiting", after |-> Tip, stamp |-> archives']]
  /\ UNCHANGED <<today, fs, day, appends, rotate, store, feed, emitted, kept, closed, late>>

\* ... reads what is left, renames the file and starts from nothing; ...
Archive(p) ==
  /\ archive[p].is = "waiting" /\ Flushed(p, archive[p].after) /\ fd[p] = None
  /\ archive' = [archive EXCEPT ![p] = [is |-> "done"]]
  /\ IF Exists(Live)
     THEN /\ Rename(ArchiveFile(archive[p].stamp), {})
          /\ store' = [Renamed(p) EXCEPT ![p] = NewStore]
          /\ feed' = [feed EXCEPT ![p].asks = [k \in 1..Polls |->
               IF @[k].is = "free" THEN Free ELSE [@[k] EXCEPT !.stale = TRUE]]]
     ELSE UNCHANGED <<fs, fd, store, feed>>
  /\ UNCHANGED <<today, day, queue, rotate, history>>

\* ... the page does so when it hears of it.
Archived(p) ==
  /\ archive[p].is = "done"
  /\ archive' = [archive EXCEPT ![p] = Off]
  /\ feed' = [feed EXCEPT ![p] = [@ EXCEPT !.seen = 0, !.shown = <<>>]]
  /\ UNCHANGED <<today, fs, day, appends, rotate, store, history>>
-----------------------------------------------------------------------------
\* No append and no rotation takes a whole day.
Midnight ==
  /\ today < Days /\ today' = today + 1
  /\ \A p \in Writers : rotate[p] = Off /\ fd[p] \in {None, Live}
  /\ UNCHANGED <<fs, day, appends, rotate, console, history>>

\* A process ends, with what it has not written, and another one starts.
Restart(p) ==
  /\ day' = [day EXCEPT ![p] = today]
  /\ queue' = [queue EXCEPT ![p] = <<>>] /\ fd' = [fd EXCEPT ![p] = None]
  /\ rotate' = [rotate EXCEPT ![p] = Off] /\ archive' = [archive EXCEPT ![p] = Off]
  /\ store' = [store EXCEPT ![p] = NewStore] /\ feed' = [feed EXCEPT ![p] = NewPage]
  /\ UNCHANGED <<today, fs, emitted, kept, closed, late, archives>>

\* The trail was kept before: yesterday's file is there, with its record.
TrailInit ==
  /\ today = 1 /\ fs = [n \in {DayFile(0)} |-> <<1>>]
  /\ day = [p \in Writers |-> 1] /\ queue = [p \in Writers |-> <<>>] /\ fd = [p \in Writers |-> None]
  /\ rotate = [p \in Writers |-> Off] /\ archive = [p \in Writers |-> Off]
  /\ store = [p \in Writers |-> NewStore] /\ feed = [p \in Writers |-> NewPage]
  /\ emitted = <<[by |-> "before", day |-> 0]>> /\ kept = {1} /\ closed = 0 /\ late = FALSE /\ archives = 0

Trail(p) == OnAudit(p) \/ OpenFile(p) \/ Write(p) \/ Fails(p) \/ RotateForDay(p)
Page(p) == \/ \E k \in 1..Polls : Poll(p, k) \/ Show(p, k)
           \/ AskArchive(p) \/ Archive(p) \/ Archived(p)

TrailNext == \/ \E p \in Writers : Trail(p)
             \/ \E p \in Watched : Page(p)
             \/ \E p \in Mortal : Restart(p)
             \/ Midnight

TrailSpec == TrailInit /\ [][TrailNext]_trailVars
-----------------------------------------------------------------------------
Holding(r) == {n \in DOMAIN fs : \E i \in 1..Len(fs[n]) : fs[n][i] = r}

\* A record that was written is in exactly one file: no rotation and no archive
\* loses or doubles it, whoever renames while another process writes, and the
\* sweep takes it only when its day is over the window.  There is no such promise
\* once a rotation closed a day that was not yesterday or was closed before: by
\* another process, or by one with nothing to record for days
\* (audit-store.ts:308-386, runtime.ts:360-383).
KeptUnlessLate ==
  ~late =>
    \A r \in kept : \/ Cardinality(Holding(r)) = 1
                    \/ Holding(r) = {} /\ today - emitted[r].day > Retain

\* Known not to hold: a record that was written is in a file, the rotation
\* flushes every queued append "(no record may be orphaned)"
\* (audit-store.ts:297). The second process to rotate a day renames its few
\* records over the day's file.
NoRecordOrphaned ==
  \A r \in kept : Holding(r) # {} \/ today - emitted[r].day > Retain

\* In a file, the records of a process are in the order it emitted them in
\* (audit-store.ts:129-142 append: order-preserving).
OrderKept ==
  \A n \in DOMAIN fs : \A i, j \in 1..Len(fs[n]) :
    i < j /\ emitted[fs[n][i]].by = emitted[fs[n][j]].by => fs[n][i] < fs[n][j]

\* Unless answers overtook each other or an archive, a page shows no record twice,
\* and whatever of the ring its cursor has passed it has shown: the cursor survives
\* evictions, rotations, and other processes that write or archive
\* (audit-store.ts:208-230, audit-viewer.ts:1460-1494).
PageIsExact ==
  \A p \in Watched : ~feed[p].crossed /\ archive[p].is # "done" =>
    /\ IsInjective(feed[p].shown)
    /\ \A i \in 1..Len(store[p].ring) : store[p].dropped + i <= feed[p].seen =>
         \E j \in 1..Len(feed[p].shown) : feed[p].shown[j] = store[p].ring[i]

\* Known not to hold: the records of a closed day's file are of that day
\* (audit-store.ts:293-294, a file per day). The first record of the new day is
\* queued before the rotation that waits for the queue.
DayFileHoldsItsDay ==
  \A n \in DOMAIN fs : n[1] = "day" => \A i \in 1..Len(fs[n]) : emitted[fs[n][i]].day = n[2]
=============================================================================
