----------------------------- MODULE AuditProofs -----------------------------
(***************************************************************************)
(* The audit trail and the console that shows it (AuditLog, Console), for  *)
(* any number of processes, records, days and archives.                    *)
(*                                                                         *)
(* The trail has one invariant for its order (OrderInv): a process's queue *)
(* is in order and holds nothing but its own; what a file holds is "past", *)
(* that is, its process has nothing older left to write; and no record is  *)
(* in two files.  A rename keeps files and only changes their names, so it *)
(* is enough that no two names become one (FilesKept).                     *)
(*                                                                         *)
(* That nothing is lost needs more (LossInv): days are in order, an        *)
(* archive's name is its own, and while no rotation was late, a day's file *)
(* is of a day that was closed and holds nothing younger than the day      *)
(* after it.  So a rotation finds its name free, and the sweep takes       *)
(* neither a file that is open nor a record that is still in the window.   *)
(*                                                                         *)
(* The page is held against all that its console has ever read since it    *)
(* began or archived, a sequence S of which only the end is still in the   *)
(* ring (Follows).  The variables do not hold S; the invariant says that   *)
(* there is one, and each step names the next.                             *)
(*                                                                         *)
(* A console's page believes files, so its invariant says of a file that   *)
(* can be read what it tells: of a living process exactly what it would    *)
(* write now (FileIsCurrent), which needs that nothing can be read while a *)
(* process writes or before it has a port.  A role has to be tied to the   *)
(* address (RoleIsTrue), what is left of the dead must not be taken for    *)
(* the living (OnlyWhileUp), and the name a page stands under has been     *)
(* started, so that no start can make it a lie (PageIsTrue).               *)
(***************************************************************************)
EXTENDS AuditLog, Console, SequenceTheorems, FiniteSetTheorems, TLAPS

Names == {Live} \cup ({"day", "archive"} \X Nat)

RotationType == {Off} \cup [is : {"waiting"}, closes : Nat, after : Nat]
ArchiveType == {Off} \cup [is : {"waiting"}, after : Nat, stamp : Nat] \cup [is : {"done"}]
StoreType == [same : BOOLEAN, offset : Nat, ring : Seq(Nat), dropped : Nat]
AskType == {Free} \cup
  [is : {"answered"}, since : Nat, items : Seq(Nat), stale : BOOLEAN, next : Nat]
FeedType == [seen : Nat, shown : Seq(Nat), crossed : BOOLEAN, asks : [1..Polls -> AskType]]

FilesTyped == DOMAIN fs \subseteq Names /\ \A n \in DOMAIN fs : fs[n] \in Seq(Nat)

TrailTypeOK ==
  /\ FilesTyped
  /\ today \in Nat /\ day \in [Writers -> Nat]
  /\ queue \in [Writers -> Seq(Nat)]
  /\ fd \in [Writers -> Names \cup {None, Gone}]
  /\ rotate \in [Writers -> RotationType]
  /\ archive \in [Writers -> ArchiveType]
  /\ store \in [Writers -> StoreType]
  /\ feed \in [Writers -> FeedType]
  /\ emitted \in Seq([by : Writers \cup {"before"}, day : Nat])
  /\ kept \subseteq Nat /\ closed \in Nat /\ late \in BOOLEAN /\ archives \in Nat

(* A record whose process has nothing left to write that is older. *)
Past(r) ==
  /\ r \in 1..Len(emitted)
  /\ \A p \in Writers : emitted[r].by = p => \A j \in 1..Len(queue[p]) : r < queue[p][j]

(* A process writes its own records, in the order it emitted them; what it  *)
(* has open is for the first of them.                                      *)
QueueInOrder(p) ==
  /\ fd[p] # None => queue[p] # <<>>
  /\ \A j \in 1..Len(queue[p]) : queue[p][j] \in 1..Len(emitted) /\ emitted[queue[p][j]].by = p
  /\ \A i, j \in 1..Len(queue[p]) : i < j => queue[p][i] < queue[p][j]

(* What a file holds is behind its process, and no other file holds it.    *)
FileInOrder(n) ==
  \A i \in 1..Len(fs[n]) :
    /\ Past(fs[n][i])
    /\ \A m \in DOMAIN fs \ {n} : ~Contains(fs[m], fs[n][i])

OrderInv ==
  /\ TrailTypeOK
  /\ \A p \in Writers : QueueInOrder(p) /\ fd[p] \in DOMAIN fs \cup {None, Gone}
  /\ \A n \in DOMAIN fs : FileInOrder(n)
  /\ OrderKept
-----------------------------------------------------------------------------
(* Names and numbers.                                                      *)

(* The bounds are numbers.                                                 *)
LEMMA Bounds == /\ RingSize \in Nat /\ Limit \in Nat /\ Retain \in Nat
                /\ Watched \subseteq Writers /\ Mortal \subseteq Writers
BY AuditAssumption

(* No file has the name of none.                                           *)
LEMMA NamesDiffer ==
    /\ Live \in Names /\ None \notin Names /\ Gone \notin Names /\ None # Gone
    /\ \A d \in Nat : DayFile(d) \in Names /\ ArchiveFile(d) \in Names
    /\ \A d \in Nat : DayFile(d) # Live /\ ArchiveFile(d) # Live
    /\ \A n \in Names : n[1] = "day" => n = DayFile(n[2]) /\ n[2] \in Nat
    /\ \A n \in Names : n[1] = "archive" => n = ArchiveFile(n[2]) /\ n[2] \in Nat
    /\ \A n \in Names : n # Live => n[1] \in {"day", "archive"}
BY DEF Names, Live, None, Gone, DayFile, ArchiveFile

(* What is left of a queue when its first record is written.               *)
LEMMA QueueTail ==
    ASSUME NEW q \in Seq(Nat), q # <<>>
    PROVE  /\ Len(q) \in Nat \ {0} /\ 1 \in 1..Len(q) /\ Head(q) = q[1] /\ Head(q) \in Nat
           /\ Tail(q) \in Seq(Nat)
           /\ \A j \in 1..Len(Tail(q)) : j + 1 \in 1..Len(q) /\ Tail(q)[j] = q[j + 1]
BY HeadTailProperties, EmptySeq, LenProperties

(* The first record, and what remains without it, is the queue itself.     *)
LEMMA FirstStaysFirst ==
    ASSUME NEW q \in Seq(Nat), 1 \in 1..Len(q)
    PROVE  <<q[1]>> \o RemoveAt(q, 1) = q
  <1>1. Len(q) \in Nat /\ Len(q) \in 1..Len(q) /\ 2 \in 1..(Len(q) + 1)
    BY LenProperties
  <1>2. SubSeq(q, 1, 0) = <<>>
    BY SubSeqEmpty
  <1>3. SubSeq(q, 2, Len(q)) \in Seq(Nat)
    <2>1. \A i \in 2..Len(q) : q[i] \in Nat
      BY <1>1, ElementOfSeq
    <2>2. QED
      BY <1>1, <2>1, SubSeqProperties
  <1>4. RemoveAt(q, 1) = SubSeq(q, 2, Len(q))
    BY <1>2, <1>3, ConcatEmptySeq DEF RemoveAt
  <1>5. SubSeq(q, 1, Len(q)) = <<q[1]>> \o SubSeq(q, 2, Len(q))
    BY <1>1, SubSeqRecursiveFirst
  <1>6. QED
    BY <1>4, <1>5, SubSeqFull

(* An append that opens the file leaves its queue as it is.                *)
LEMMA OpenEffect ==
    ASSUME TrailTypeOK, NEW p \in Writers, OpenFile(p)
    PROVE  /\ queue' = queue /\ queue[p] # <<>> /\ fd[p] = None /\ fd' = [fd EXCEPT ![p] = Live]
           /\ DOMAIN fs' = DOMAIN fs \cup {Live}
           /\ \A n \in DOMAIN fs : fs'[n] = fs[n]
           /\ Live \notin DOMAIN fs => fs'[Live] = <<>>
  <1>1. PICK i \in 1..Len(queue[p]) :
           /\ NextRecord(p, i)
           /\ queue' = [queue EXCEPT ![p] = <<@[i]>> \o RemoveAt(@, i)]
    BY DEF OpenFile
  <1>2. i = 1
    BY <1>1 DEF NextRecord
  <1>3. queue[p] \in Seq(Nat)
    BY DEF TrailTypeOK
  <1>4. <<queue[p][1]>> \o RemoveAt(queue[p], 1) = queue[p]
    BY <1>2, <1>3, FirstStaysFirst
  <1>5. queue' = [queue EXCEPT ![p] = queue[p]]
    BY <1>1, <1>2, <1>4
  <1>6. queue' = queue
    BY <1>5 DEF TrailTypeOK
  <1>7. queue[p] # <<>>
    BY <1>2, EmptySeq
  <1>8. QED
    BY <1>6, <1>7 DEF OpenFile, Exists

(* An append that writes, or fails, takes its record out of the queue.     *)
LEMMA AppendEffect ==
    ASSUME OrderInv, NEW p \in Writers, Write(p) \/ Fails(p)
    PROVE  /\ fd[p] # None /\ queue[p] # <<>> /\ queue' = [queue EXCEPT ![p] = Tail(@)]
           /\ fd' = [fd EXCEPT ![p] = None]
           /\ Head(queue[p]) \in 1..Len(emitted) /\ emitted[Head(queue[p])].by = p
  <1>1. fd[p] # None /\ QueueInOrder(p) /\ queue[p] \in Seq(Nat)
    BY DEF Write, Fails, OrderInv, TrailTypeOK
  <1>2. queue[p] # <<>>
    BY <1>1 DEF QueueInOrder
  <1>3. Head(queue[p]) = queue[p][1] /\ 1 \in 1..Len(queue[p])
    BY <1>1, <1>2, QueueTail
  <1>4. QED
    BY <1>1, <1>2, <1>3 DEF Write, Fails, QueueInOrder

(* A record goes to the end of the file that is open, if that has a name.  *)
LEMMA WriteEffect ==
    ASSUME OrderInv, NEW p \in Writers, Write(p)
    PROVE  /\ DOMAIN fs' = DOMAIN fs /\ kept' = kept \cup {Head(queue[p])}
           /\ \A n \in DOMAIN fs : n # fd[p] => fs'[n] = fs[n]
           /\ fd[p] \in DOMAIN fs => fs'[fd[p]] = Append(fs[fd[p]], Head(queue[p]))
           /\ fd[p] # Gone => fd[p] \in DOMAIN fs
  <1>1. fd[p] \in DOMAIN fs \cup {Gone}
    BY DEF OrderInv, Write
  <1>2. fs' = IF fd[p] = Gone THEN fs ELSE [fs EXCEPT ![fd[p]] = Append(@, Head(queue[p]))]
    BY DEF Write
  <1>3. Gone \notin DOMAIN fs
    BY NamesDiffer DEF OrderInv, TrailTypeOK, FilesTyped
  <1>4. QED
    BY <1>1, <1>2, <1>3 DEF Write

(* A file changes its name: what has a name now had it before, or was the  *)
(* live one.                                                               *)
LEMMA RenameEffect ==
    ASSUME OrderInv, NEW to \in Names, NEW swept \in SUBSET Names, Exists(Live), to # Live,
           to \notin swept, Rename(to, swept)
    PROVE  /\ DOMAIN fs' = ((DOMAIN fs \cup {to}) \ swept) \ {Live}
           /\ to \in DOMAIN fs' /\ fs'[to] = fs[Live] /\ Live \in DOMAIN fs
           /\ \A n \in DOMAIN fs' : n # to => n \in DOMAIN fs /\ n # Live /\ fs'[n] = fs[n]
           /\ \A q \in Writers :
                fd'[q] = IF fd[q] = Live THEN to
                         ELSE IF fd[q] \in {to} \cup swept THEN Gone ELSE fd[q]
           /\ fd' \in [Writers -> Names \cup {None, Gone}]
           /\ \A q \in Writers : fd'[q] # None => fd[q] # None
  <1>1. Live \in DOMAIN fs
    BY DEF Exists
  <1>2. \A q \in Writers : fd[q] \in Names \cup {None, Gone}
    BY DEF OrderInv, TrailTypeOK
  <1> DEFINE now(q) == IF fd[q] = Live THEN to
                       ELSE IF fd[q] \in {to} \cup swept THEN Gone ELSE fd[q]
  <1>3. fd' = [q \in Writers |-> now(q)]
    BY DEF Rename
  <1>4. \A q \in Writers : now(q) \in Names \cup {None, Gone}
    BY <1>2
  <1>5. \A q \in Writers : now(q) # None => fd[q] # None
    BY NamesDiffer
  <1>6. fd' \in [Writers -> Names \cup {None, Gone}] /\ \A q \in Writers : fd'[q] = now(q)
    BY <1>3, <1>4
  <1>7. fs' = [n \in ((DOMAIN fs \cup {to}) \ swept) \ {Live} |-> IF n = to THEN fs[Live] ELSE fs[n]]
    BY DEF Rename
  <1> HIDE DEF now
  <1>8. QED
    BY <1>1, <1>5, <1>6, <1>7 DEF now

(* The sweep takes files of days that are older than the one closed, and   *)
(* never the one it is closed into.                                        *)
LEMMA SweptEffect ==
    ASSUME TrailTypeOK, NEW closes \in Nat
    PROVE  /\ Swept(closes) \in SUBSET Names /\ Swept(closes) \subseteq DOMAIN fs
           /\ Live \notin Swept(closes) /\ DayFile(closes) \notin Swept(closes)
           /\ \A n \in Swept(closes) :
                n[1] = "day" /\ n[2] \in Nat /\ n[2] < closes /\ closes - n[2] > Retain /\ Retain > 0
  <1>1. \A n \in Swept(closes) : n \in DOMAIN fs /\ n \in Names /\ n[1] = "day" /\ n[2] < closes
    BY DEF Swept, TrailTypeOK, FilesTyped
  <1>2. \A n \in Swept(closes) : n = DayFile(n[2]) /\ n[2] \in Nat
    BY <1>1, NamesDiffer
  <1>3. Live \notin Swept(closes)
    BY <1>2, NamesDiffer
  <1>4. DayFile(closes) \notin Swept(closes)
    BY <1>1 DEF DayFile
  <1>5. QED
    BY <1>1, <1>2, <1>3, <1>4 DEF Swept

(* The rotation, when there is something to rotate.                        *)
LEMMA RotateEffect ==
    ASSUME OrderInv, NEW p \in Writers, RotateForDay(p)
    PROVE  /\ rotate[p].closes \in Nat /\ rotate[p].is = "waiting"
           /\ \/ UNCHANGED <<fs, fd, store, closed, late>>
              \/ LET closes == rotate[p].closes IN
                 /\ Exists(Live) /\ Rename(DayFile(closes), Swept(closes)) /\ store' = Renamed(p)
                 /\ late' = (late \/ closes <= closed \/ closes + 1 < today) /\ closed' = closes
  <1>1. rotate[p] \in RotationType /\ rotate[p].is = "waiting"
    BY DEF OrderInv, TrailTypeOK, RotateForDay
  <1>2. rotate[p].closes \in Nat
    BY <1>1 DEF RotationType, Off
  <1>3. QED
    BY <1>1, <1>2 DEF RotateForDay

(* The archive, when there is a file.                                      *)
LEMMA ArchiveEffect ==
    ASSUME TrailTypeOK, NEW p \in Writers, Archive(p)
    PROVE  /\ archive[p].is = "waiting" /\ archive[p].stamp \in Nat
           /\ archive' = [archive EXCEPT ![p] = [is |-> "done"]]
           /\ \/ UNCHANGED <<fs, fd, store, feed>>
              \/ /\ Exists(Live) /\ Rename(ArchiveFile(archive[p].stamp), {})
                 /\ store' = [Renamed(p) EXCEPT ![p] = NewStore]
                 /\ feed' = [feed EXCEPT ![p].asks = [k \in 1..Polls |->
                      IF @[k].is = "free" THEN Free ELSE [@[k] EXCEPT !.stale = TRUE]]]
  <1>1. archive[p] \in ArchiveType /\ archive[p].is = "waiting"
    BY DEF TrailTypeOK, Archive
  <1>2. archive[p].stamp \in Nat
    BY <1>1 DEF ArchiveType, Off
  <1>3. QED
    BY <1>1, <1>2 DEF Archive

(* What lies behind the first a records of a sequence, up to the n-th.     *)
LEMMA Slice ==
    ASSUME NEW s \in Seq(Nat), NEW a \in Nat, NEW n \in Nat, n <= Len(s)
    PROVE  LET part == SubSeq(s, a + 1, n) IN
             /\ part \in Seq(Nat) /\ Len(part) = IF a <= n THEN n - a ELSE 0
             /\ \A i \in 1..Len(part) : a + i \in 1..n /\ part[i] = s[a + i]
  <1> DEFINE part == SubSeq(s, a + 1, n)
  <1>1. Len(s) \in Nat /\ a + 1 \in Int /\ n \in Int
    BY LenProperties
  <1>2. \A i \in (a + 1)..n : s[i] \in Nat
    BY <1>1, ElementOfSeq
  <1>3. /\ part \in Seq(Nat)
        /\ Len(part) = IF a + 1 <= n THEN n - (a + 1) + 1 ELSE 0
        /\ \A i \in 1..(n - (a + 1) + 1) : part[i] = s[(a + 1) + i - 1]
    BY <1>1, <1>2, SubSeqProperties
  <1> HIDE DEF part
  <1>4. Len(part) = IF a <= n THEN n - a ELSE 0
    BY <1>3
  <1>5. ASSUME NEW i \in 1..Len(part) PROVE a + i \in 1..n /\ part[i] = s[a + i]
    <2>1. i \in 1..(n - (a + 1) + 1) /\ (a + 1) + i - 1 = a + i /\ a + i \in 1..n
      BY <1>4
    <2>2. QED
      BY <1>3, <2>1
  <1>6. QED
    BY <1>3, <1>4, <1>5 DEF part

(* A tail reads on from where it stopped, and the oldest records leave the  *)
(* ring when there are too many.                                           *)
LEMMA RefreshEffect ==
    ASSUME TrailTypeOK, NEW p \in Writers, NEW st \in Refreshed(p), Exists(Live)
    PROVE  \E start \in StartsAt(p), news \in Seq(Nat), over \in Nat :
             /\ start \in Nat
             /\ \A i \in 1..Len(news) :
                  start + i \in 1..Len(fs[Live]) /\ news[i] = fs[Live][start + i]
             /\ start <= Len(fs[Live]) => Len(news) = Len(fs[Live]) - start
             /\ over <= Len(store[p].ring) + Len(news)
             /\ st.same = TRUE /\ st.offset = Len(fs[Live])
             /\ st.dropped = store[p].dropped + over
             /\ Len(st.ring) = Len(store[p].ring) + Len(news) - over
             /\ \A i \in 1..Len(st.ring) : st.ring[i] = (store[p].ring \o news)[over + i]
             /\ st \in StoreType
  <1> DEFINE live == fs[Live]
             ring == store[p].ring
             news(start) == SubSeq(live, start + 1, Len(live))
             all(start) == ring \o news(start)
             over(start) == IF Len(all(start)) > RingSize THEN Len(all(start)) - RingSize ELSE 0
  <1>1. /\ live \in Seq(Nat) /\ Len(live) \in Nat /\ ring \in Seq(Nat) /\ Len(ring) \in Nat
        /\ store[p] \in StoreType /\ store[p].dropped \in Nat /\ store[p].offset \in Nat
    BY LenProperties DEF TrailTypeOK, FilesTyped, StoreType, Exists
  <1>2. PICK start \in StartsAt(p) :
          st = [same |-> TRUE, offset |-> Len(live),
                ring |-> SubSeq(all(start), over(start) + 1, Len(all(start))),
                dropped |-> store[p].dropped + over(start)]
    BY DEF Refreshed
  <1>3. start \in Nat
    BY <1>1 DEF StartsAt
  <1>4. /\ news(start) \in Seq(Nat)
        /\ Len(news(start)) = IF start <= Len(live) THEN Len(live) - start ELSE 0
        /\ \A i \in 1..Len(news(start)) :
             start + i \in 1..Len(live) /\ news(start)[i] = live[start + i]
    BY SMTT(30), <1>1, <1>3, Slice
  <1>5. /\ all(start) \in Seq(Nat) /\ Len(all(start)) = Len(ring) + Len(news(start))
        /\ Len(news(start)) \in Nat
    BY <1>1, <1>4, ConcatProperties, LenProperties
  <1> HIDE DEF all, news
  <1>6. over(start) \in Nat /\ over(start) <= Len(ring) + Len(news(start)) /\ Len(all(start)) \in Nat
    BY <1>1, <1>5, Bounds
  <1> HIDE DEF over
  <1> DEFINE left == SubSeq(all(start), over(start) + 1, Len(all(start)))
  <1>7. /\ left \in Seq(Nat) /\ Len(left) = Len(all(start)) - over(start)
        /\ \A i \in 1..Len(left) : left[i] = all(start)[over(start) + i]
    <2> DEFINE a == over(start)
               n == Len(all(start))
    <2>1. a \in Nat /\ n \in Nat /\ a <= n /\ n <= Len(all(start))
      BY <1>1, <1>5, <1>6
    <2>2. left = SubSeq(all(start), a + 1, n)
      OBVIOUS
    <2> HIDE DEF a, n, left
    <2>3. left \in Seq(Nat) /\ Len(left) = n - a /\ \A i \in 1..Len(left) : left[i] = all(start)[a + i]
      BY <1>5, <2>1, <2>2, Slice
    <2>4. QED
      BY <2>3 DEF a, n
  <1>8. st = [same |-> TRUE, offset |-> Len(live), ring |-> left, dropped |-> store[p].dropped + over(start)]
    BY <1>2
  <1> HIDE DEF left, live
  <1>9. /\ st.same = TRUE /\ st.offset = Len(live) /\ st.dropped = store[p].dropped + over(start)
        /\ st.ring = left /\ st \in StoreType
    BY <1>1, <1>6, <1>7, <1>8 DEF StoreType
  <1>10. Len(st.ring) = Len(ring) + Len(news(start)) - over(start)
    BY SMTT(30), <1>1, <1>5, <1>6, <1>7, <1>9
  <1>11. \A i \in 1..Len(st.ring) : st.ring[i] = (ring \o news(start))[over(start) + i]
    <2>1. \A i \in 1..Len(st.ring) : st.ring[i] = all(start)[over(start) + i]
      BY <1>7, <1>9
    <2>2. QED
      BY <2>1 DEF all
  <1>12. start <= Len(live) => Len(news(start)) = Len(live) - start
    BY <1>1, <1>3, <1>4
  <1>13. news(start) \in Seq(Nat) /\ over(start) \in Nat
    BY <1>4, <1>6
  <1> HIDE DEF ring
  <1>14. QED
    BY <1>3, <1>4, <1>6, <1>9, <1>10, <1>11, <1>12, <1>13 DEF live, ring

(* An answer is what the ring has behind a cursor that is not behind it.   *)
LEMMA ItemsEffect ==
    ASSUME NEW st \in StoreType, NEW from \in Nat, st.dropped <= from
    PROVE  /\ Items(st, from) \in Seq(Nat) /\ Len(Items(st, from)) \in Nat
           /\ \A i \in 1..Len(Items(st, from)) :
                /\ from - st.dropped + i \in 1..Len(st.ring)
                /\ Items(st, from)[i] = st.ring[from - st.dropped + i]
  <1> DEFINE a == from - st.dropped
             n == IF a + Limit < Len(st.ring) THEN a + Limit ELSE Len(st.ring)
  <1>1. /\ st.ring \in Seq(Nat) /\ Len(st.ring) \in Nat
        /\ a \in Nat /\ n \in Nat /\ n <= Len(st.ring)
    BY LenProperties, Bounds DEF StoreType
  <1>2. Items(st, from) = SubSeq(st.ring, a + 1, n)
    BY DEF Items
  <1> HIDE DEF n, a
  <1>3. /\ Items(st, from) \in Seq(Nat) /\ Len(Items(st, from)) \in Nat
        /\ \A i \in 1..Len(Items(st, from)) :
             a + i \in 1..n /\ Items(st, from)[i] = st.ring[a + i]
    <2>1. Items(st, from) \in Seq(Nat) /\ \A i \in 1..Len(Items(st, from)) :
            a + i \in 1..n /\ Items(st, from)[i] = st.ring[a + i]
      BY <1>1, <1>2, Slice
    <2>2. QED
      BY <2>1, LenProperties
  <1>4. 1..n \subseteq 1..Len(st.ring)
    BY <1>1
  <1>5. QED
    BY <1>3, <1>4 DEF a
-----------------------------------------------------------------------------
(* Types.                                                                  *)

(* A record is emitted.                                                    *)
LEMMA OnAuditTyped ==
    ASSUME TrailTypeOK, NEW p \in Writers, OnAudit(p)
    PROVE  /\ TrailTypeOK' /\ Len(emitted') = Len(emitted) + 1
           /\ emitted'[Len(emitted')] = [by |-> p, day |-> today]
           /\ \A r \in 1..Len(emitted) : emitted'[r] = emitted[r]
           /\ Len(queue'[p]) = Len(queue[p]) + 1 /\ queue'[p][Len(queue'[p])] = Len(emitted')
           /\ \A j \in 1..Len(queue[p]) : queue'[p][j] = queue[p][j]
           /\ \A q \in Writers \ {p} : queue'[q] = queue[q]
  <1> USE DEF TrailTypeOK
  <1> DEFINE rec == [by |-> p, day |-> today]
             RecordType == [by : Writers \cup {"before"}, day : Nat]
  <1>1. rec \in RecordType /\ emitted \in Seq(RecordType) /\ emitted' = Append(emitted, rec)
    BY DEF OnAudit
  <1> HIDE DEF rec, RecordType
  <1>2. /\ emitted' \in Seq(RecordType) /\ Len(emitted) \in Nat /\ Len(emitted') = Len(emitted) + 1
        /\ emitted'[Len(emitted')] = rec /\ \A r \in 1..Len(emitted) : emitted'[r] = emitted[r]
    BY <1>1
  <1>3. /\ queue[p] \in Seq(Nat) /\ queue'[p] = Append(queue[p], Len(emitted'))
        /\ queue' = [queue EXCEPT ![p] = Append(@, Len(emitted'))]
        /\ \A q \in Writers \ {p} : queue'[q] = queue[q]
    BY DEF OnAudit
  <1>4. /\ Len(emitted') \in Nat /\ queue' \in [Writers -> Seq(Nat)]
        /\ Len(queue'[p]) = Len(queue[p]) + 1 /\ queue'[p][Len(queue'[p])] = Len(emitted')
        /\ \A j \in 1..Len(queue[p]) : queue'[p][j] = queue[p][j]
    BY <1>2, <1>3
  <1>5. rotate' \in [Writers -> RotationType]
    <2>1. day[p] \in Nat /\ rotate[p] \in RotationType
      OBVIOUS
    <2>2. [is |-> "waiting", closes |-> day[p], after |-> Len(emitted')] \in RotationType
      BY <1>4, <2>1 DEF RotationType
    <2>3. QED
      BY <2>1, <2>2 DEF OnAudit
  <1>6. day' \in [Writers -> Nat]
    BY DEF OnAudit
  <1>7. TrailTypeOK'
    BY <1>2, <1>4, <1>5, <1>6 DEF OnAudit, FilesTyped, console, RecordType
  <1>8. QED
    BY <1>2, <1>3, <1>4, <1>7 DEF rec

(* An append opens the file, writes, or fails.                             *)
LEMMA AppendTyped ==
    ASSUME OrderInv, NEW p \in Writers, OpenFile(p) \/ Write(p) \/ Fails(p)
    PROVE  TrailTypeOK'
  <1>1. TrailTypeOK /\ queue[p] \in Seq(Nat)
    BY DEF OrderInv, TrailTypeOK
  <1>2. CASE OpenFile(p)
    <2>1. FilesTyped'
      <3>1. /\ DOMAIN fs' = DOMAIN fs \cup {Live} /\ \A n \in DOMAIN fs : fs'[n] = fs[n]
            /\ Live \notin DOMAIN fs => fs'[Live] = <<>>
        BY <1>1, <1>2, OpenEffect
      <3>2. ASSUME NEW n \in DOMAIN fs' PROVE fs'[n] \in Seq(Nat)
        <4>1. CASE n \in DOMAIN fs
          <5>1. fs'[n] = fs[n]
            BY <3>1, <4>1
          <5>2. QED
            BY <1>1, <4>1, <5>1 DEF TrailTypeOK, FilesTyped
        <4>2. CASE n \notin DOMAIN fs
          <5>1. fs'[n] = <<>>
            BY <3>1, <3>2, <4>2
          <5>2. QED
            BY <5>1, EmptySeq
        <4>3. QED
          BY <4>1, <4>2
      <3>3. QED
        BY <1>1, <3>1, <3>2, NamesDiffer DEF TrailTypeOK, FilesTyped
    <2>2. fd' \in [Writers -> Names \cup {None, Gone}]
      BY <1>1, <1>2, OpenEffect, NamesDiffer DEF TrailTypeOK
    <2>3. queue' = queue
      BY <1>1, <1>2, OpenEffect
    <2>4. QED
      BY <1>1, <1>2, <2>1, <2>2, <2>3 DEF TrailTypeOK, OpenFile, console, history
  <1>3. CASE Write(p) \/ Fails(p)
    <2>1. /\ queue[p] # <<>> /\ queue' = [queue EXCEPT ![p] = Tail(@)]
          /\ fd' = [fd EXCEPT ![p] = None]
      BY <1>3, AppendEffect
    <2>2. Head(queue[p]) \in Nat /\ Tail(queue[p]) \in Seq(Nat)
      BY <1>1, <2>1, QueueTail
    <2>3. queue' \in [Writers -> Seq(Nat)] /\ fd' \in [Writers -> Names \cup {None, Gone}]
      BY <1>1, <2>1, <2>2 DEF TrailTypeOK
    <2>4. FilesTyped' /\ kept' \subseteq Nat
      <3>1. CASE Write(p)
        <4>1. \A n \in DOMAIN fs : fs[n] \in Seq(Nat)
          BY <1>1 DEF TrailTypeOK, FilesTyped
        <4>2. ASSUME NEW n \in DOMAIN fs PROVE fs'[n] \in Seq(Nat)
          <5>1. CASE n = fd[p]
            <6>1. fs'[n] = Append(fs[n], Head(queue[p]))
              BY <3>1, <5>1, WriteEffect
            <6>2. QED
              BY <2>2, <4>1, <6>1
          <5>2. CASE n # fd[p]
            BY <3>1, <4>1, <5>2, WriteEffect
          <5>3. QED
            BY <5>1, <5>2
        <4>3. QED
          BY <1>1, <2>2, <3>1, <4>2, WriteEffect DEF TrailTypeOK, FilesTyped
      <3>2. CASE Fails(p)
        BY <1>1, <3>2 DEF TrailTypeOK, FilesTyped, Fails, history
      <3>3. QED
        BY <1>3, <3>1, <3>2
    <2>5. QED
      BY <1>1, <1>3, <2>3, <2>4 DEF TrailTypeOK, Write, Fails, console, history
  <1>4. QED
    BY <1>2, <1>3

(* Files that change their names stay files.                               *)
LEMMA RenameTyped ==
    ASSUME OrderInv, NEW to \in Names, NEW swept \in SUBSET Names, Exists(Live), to # Live,
           to \notin swept, Rename(to, swept)
    PROVE  FilesTyped' /\ fd' \in [Writers -> Names \cup {None, Gone}]
  <1>1. DOMAIN fs \subseteq Names /\ \A n \in DOMAIN fs : fs[n] \in Seq(Nat)
    BY DEF OrderInv, TrailTypeOK, FilesTyped
  <1>2. /\ DOMAIN fs' = ((DOMAIN fs \cup {to}) \ swept) \ {Live}
        /\ fs'[to] = fs[Live] /\ Live \in DOMAIN fs
        /\ \A n \in DOMAIN fs' : n # to => n \in DOMAIN fs /\ fs'[n] = fs[n]
        /\ fd' \in [Writers -> Names \cup {None, Gone}]
    <2>1. /\ DOMAIN fs' = ((DOMAIN fs \cup {to}) \ swept) \ {Live}
          /\ fs'[to] = fs[Live] /\ Live \in DOMAIN fs
          /\ fd' \in [Writers -> Names \cup {None, Gone}]
      BY RenameEffect, Zenon
    <2>2. \A n \in DOMAIN fs' : n # to => n \in DOMAIN fs /\ n # Live /\ fs'[n] = fs[n]
      BY RenameEffect, Zenon
    <2>3. QED
      BY <2>1, <2>2
  <1>3. \A n \in DOMAIN fs' : fs'[n] \in Seq(Nat)
    BY <1>1, <1>2
  <1>4. QED
    BY <1>1, <1>2, <1>3 DEF FilesTyped

(* The other processes' tails notice that the file has gone.               *)
LEMMA RenamedTyped ==
    ASSUME TrailTypeOK, NEW p \in Writers
    PROVE  Renamed(p) \in [Writers -> StoreType]
  <1>1. ASSUME NEW q \in Writers
        PROVE  [store[q] EXCEPT !.offset = IF q = p THEN 0 ELSE @, !.same = q = p] \in StoreType
    <2>1. store[q] \in StoreType
      BY DEF TrailTypeOK
    <2>2. QED
      BY <2>1 DEF StoreType
  <1>2. QED
    BY <1>1 DEF Renamed

(* A day is rotated.                                                       *)
LEMMA RotateTyped ==
    ASSUME OrderInv, NEW p \in Writers, RotateForDay(p)
    PROVE  TrailTypeOK'
  <1>1. TrailTypeOK
    BY DEF OrderInv
  <1>2. rotate' \in [Writers -> RotationType]
    BY <1>1 DEF RotateForDay, TrailTypeOK, RotationType
  <1>3. /\ FilesTyped' /\ fd' \in [Writers -> Names \cup {None, Gone}]
        /\ store' \in [Writers -> StoreType] /\ closed' \in Nat /\ late' \in BOOLEAN
    <2>1. CASE UNCHANGED <<fs, fd, store, closed, late>>
      BY <1>1, <2>1 DEF TrailTypeOK, FilesTyped
    <2>2. CASE ~UNCHANGED <<fs, fd, store, closed, late>>
      <3> DEFINE closes == rotate[p].closes
      <3>1. /\ closes \in Nat /\ Exists(Live) /\ Rename(DayFile(closes), Swept(closes))
            /\ store' = Renamed(p)
            /\ late' = (late \/ closes <= closed \/ closes + 1 < today) /\ closed' = closes
        BY <2>2, RotateEffect
      <3>2. FilesTyped' /\ fd' \in [Writers -> Names \cup {None, Gone}]
        BY <1>1, <3>1, RenameTyped, SweptEffect, NamesDiffer
      <3>3. QED
        BY <1>1, <3>1, <3>2, RenamedTyped DEF TrailTypeOK
    <2>3. QED
      BY <2>1, <2>2
  <1>4. QED
    BY <1>1, <1>2, <1>3 DEF RotateForDay, TrailTypeOK

(* A console and a page that have just started have their types.           *)
LEMMA NewTyped == NewStore \in StoreType /\ NewPage \in FeedType
BY EmptySeq DEF NewStore, NewPage, StoreType, FeedType, AskType, Free

(* What a poll answers, and where it sets the page's cursor.               *)
LEMMA PollEffect ==
    ASSUME TrailTypeOK, NEW p \in Writers, NEW k \in 1..Polls, Poll(p, k)
    PROVE  \E st \in Refreshed(p) : \E from \in Nat :
             LET since == feed[p].seen
                 items == Items(st, from)
             IN /\ st \in StoreType /\ since <= from /\ st.dropped <= from /\ since \in Nat
                /\ from \in {since, st.dropped}
                /\ store' = [store EXCEPT ![p] = st]
                /\ feed' = [feed EXCEPT ![p].asks[k] =
                     [is |-> "answered", since |-> since, items |-> items, stale |-> FALSE,
                      next |-> IF items = <<>> THEN since ELSE from + Len(items)]]
  <1>1. PICK st \in Refreshed(p) :
          LET since == feed[p].seen
              from == IF since < st.dropped THEN st.dropped ELSE since
              items == Items(st, from)
          IN /\ store' = [store EXCEPT ![p] = st]
             /\ feed' = [feed EXCEPT ![p].asks[k] =
                  [is |-> "answered", since |-> since, items |-> items, stale |-> FALSE,
                   next |-> IF items = <<>> THEN since ELSE NextIndex(st, from, items)]]
    BY DEF Poll
  <1>2. feed[p].seen \in Nat /\ store[p] \in StoreType
    BY DEF TrailTypeOK, FeedType
  <1>3. st \in StoreType
    <2>1. CASE Exists(Live)
      BY <2>1, RefreshEffect
    <2>2. CASE ~Exists(Live)
      BY <1>2, <2>2 DEF Refreshed
    <2>3. QED
      BY <2>1, <2>2
  <1> DEFINE from == IF feed[p].seen < st.dropped THEN st.dropped ELSE feed[p].seen
  <1>4. /\ from \in Nat /\ feed[p].seen <= from /\ st.dropped <= from
        /\ from \in {feed[p].seen, st.dropped}
    BY <1>2, <1>3 DEF StoreType
  <1>5. QED
    BY <1>1, <1>2, <1>3, <1>4 DEF NextIndex

(* A poll keeps the types.                                                 *)
LEMMA PollTyped ==
    ASSUME TrailTypeOK, NEW p \in Writers, NEW k \in 1..Polls, Poll(p, k)
    PROVE  TrailTypeOK'
  <1>1. PICK st \in Refreshed(p), from \in Nat :
          LET since == feed[p].seen
              items == Items(st, from)
          IN /\ st \in StoreType /\ since <= from /\ st.dropped <= from /\ since \in Nat
             /\ from \in {since, st.dropped}
             /\ store' = [store EXCEPT ![p] = st]
             /\ feed' = [feed EXCEPT ![p].asks[k] =
                  [is |-> "answered", since |-> since, items |-> items, stale |-> FALSE,
                   next |-> IF items = <<>> THEN since ELSE from + Len(items)]]
    BY PollEffect
  <1> DEFINE items == Items(st, from)
             ask == [is |-> "answered", since |-> feed[p].seen, items |-> items, stale |-> FALSE,
                     next |-> IF items = <<>> THEN feed[p].seen ELSE from + Len(items)]
  <1>2. items \in Seq(Nat) /\ Len(items) \in Nat
    BY <1>1, ItemsEffect
  <1> HIDE DEF items
  <1>3. ask \in AskType
    BY <1>1, <1>2 DEF AskType
  <1>4. feed[p] \in FeedType /\ feed' = [feed EXCEPT ![p].asks[k] = ask]
    BY <1>1 DEF TrailTypeOK, items
  <1> HIDE DEF ask
  <1>5. feed' \in [Writers -> FeedType]
    <2>1. [feed[p] EXCEPT !.asks[k] = ask] \in FeedType
      BY <1>3, <1>4 DEF FeedType
    <2>2. QED
      BY <1>4, <2>1 DEF TrailTypeOK
  <1>6. store' \in [Writers -> StoreType]
    BY <1>1 DEF TrailTypeOK
  <1>7. QED
    BY <1>5, <1>6 DEF TrailTypeOK, FilesTyped, Poll, appends, history

(* An answer that arrives keeps the types; what it does to the page.       *)
LEMMA ShowTyped ==
    ASSUME TrailTypeOK, NEW p \in Writers, NEW k \in 1..Polls, Show(p, k)
    PROVE  /\ TrailTypeOK'
           /\ \A q \in Writers \ {p} : feed'[q] = feed[q]
           /\ \A j \in 1..Polls : feed'[p].asks[j] = IF j = k THEN Free ELSE feed[p].asks[j]
           /\ LET ask == feed[p].asks[k] IN
              /\ ask \in AskType /\ ask.is = "answered" /\ ask.items \in Seq(Nat)
              /\ feed'[p].shown = feed[p].shown \o ask.items
              /\ feed'[p].seen = IF ask.next > feed[p].seen THEN ask.next ELSE feed[p].seen
              /\ ~feed'[p].crossed => ~feed[p].crossed /\ ~ask.stale /\ ask.since = feed[p].seen
  <1> DEFINE ask == feed[p].asks[k]
             new == Shown(feed[p], k)
  <1>1. feed[p] \in FeedType /\ ask \in AskType /\ ask.is = "answered"
    BY ZenonT(30) DEF TrailTypeOK, FeedType, Show
  <1>2. ask.items \in Seq(Nat) /\ ask.next \in Nat /\ ask.stale \in BOOLEAN
    BY <1>1 DEF AskType, Free
  <1>3. feed[p].shown \o ask.items \in Seq(Nat)
    BY <1>1, <1>2, ConcatProperties DEF FeedType
  <1>4. /\ new \in FeedType
        /\ \A j \in 1..Polls : new.asks[j] = IF j = k THEN Free ELSE feed[p].asks[j]
        /\ new.shown = feed[p].shown \o ask.items
        /\ new.seen = IF ask.next > feed[p].seen THEN ask.next ELSE feed[p].seen
        /\ ~new.crossed => ~feed[p].crossed /\ ~ask.stale /\ ask.since = feed[p].seen
    BY <1>1, <1>2, <1>3 DEF FeedType, AskType, Shown
  <1>5. feed' = [feed EXCEPT ![p] = new]
    BY DEF Show
  <1> HIDE DEF new
  <1>6. feed'[p] = new /\ feed' \in [Writers -> FeedType] /\ \A q \in Writers \ {p} : feed'[q] = feed[q]
    BY <1>4, <1>5 DEF TrailTypeOK
  <1>7. TrailTypeOK'
    BY <1>6 DEF TrailTypeOK, FilesTyped, Show, appends, history
  <1>8. QED
    BY <1>1, <1>2, <1>4, <1>6, <1>7

(* An archive keeps the types.                                             *)
LEMMA ArchiveTyped ==
    ASSUME OrderInv, NEW p \in Writers, Archive(p)
    PROVE  TrailTypeOK'
  <1>1. TrailTypeOK
    BY DEF OrderInv
  <1>2. archive' \in [Writers -> ArchiveType] /\ archive[p].stamp \in Nat
    <2>1. archive' = [archive EXCEPT ![p] = [is |-> "done"]] /\ archive[p].stamp \in Nat
      BY <1>1, ArchiveEffect
    <2>2. [is |-> "done"] \in ArchiveType
      BY DEF ArchiveType
    <2>3. QED
      BY <1>1, <2>1, <2>2 DEF TrailTypeOK
  <1>3. /\ FilesTyped' /\ fd' \in [Writers -> Names \cup {None, Gone}]
        /\ store' \in [Writers -> StoreType] /\ feed' \in [Writers -> FeedType]
    <2>1. CASE UNCHANGED <<fs, fd, store, feed>>
      BY <1>1, <2>1 DEF TrailTypeOK, FilesTyped
    <2>2. CASE ~UNCHANGED <<fs, fd, store, feed>>
      <3> DEFINE asks == [k \in 1..Polls |->
                            IF feed[p].asks[k].is = "free" THEN Free
                            ELSE [feed[p].asks[k] EXCEPT !.stale = TRUE]]
      <3>1. /\ Exists(Live) /\ Rename(ArchiveFile(archive[p].stamp), {})
            /\ store' = [Renamed(p) EXCEPT ![p] = NewStore]
            /\ feed' = [feed EXCEPT ![p].asks = asks]
        BY <1>1, <2>2, ArchiveEffect
      <3>2. FilesTyped' /\ fd' \in [Writers -> Names \cup {None, Gone}]
        BY <1>2, <3>1, RenameTyped, NamesDiffer
      <3>3. feed[p] \in FeedType
        BY <1>1 DEF TrailTypeOK
      <3>4. ASSUME NEW k \in 1..Polls PROVE asks[k] \in AskType
        <4> DEFINE ask == feed[p].asks[k]
        <4>1. ask \in AskType /\ Free \in AskType
          BY <3>3 DEF FeedType, AskType
        <4>2. CASE ask.is = "free"
          BY <4>1, <4>2
        <4>3. CASE ask.is # "free"
          <5>1. ask \in [is : {"answered"}, since : Nat, items : Seq(Nat), stale : BOOLEAN, next : Nat]
            BY <4>1, <4>3 DEF AskType, Free
          <5> HIDE DEF ask
          <5>2. [ask EXCEPT !.stale = TRUE] \in AskType
            BY <5>1 DEF AskType
          <5>3. QED
            BY <4>3, <5>2 DEF ask
        <4>4. QED
          BY <4>2, <4>3
      <3>5. asks \in [1..Polls -> AskType]
        BY <3>4
      <3> HIDE DEF asks
      <3>6. [feed[p] EXCEPT !.asks = asks] \in FeedType
        BY <3>3, <3>5 DEF FeedType
      <3>7. feed' \in [Writers -> FeedType]
        BY <1>1, <3>1, <3>6 DEF TrailTypeOK
      <3>8. store' \in [Writers -> StoreType]
        BY <1>1, <3>1, RenamedTyped, NewTyped
      <3>9. QED
        BY <3>2, <3>7, <3>8
    <2>3. QED
      BY <2>1, <2>2
  <1>4. QED
    BY <1>1, <1>2, <1>3 DEF Archive, TrailTypeOK, history

(* So do the other steps: an archive is asked for or heard of, a process    *)
(* starts anew, a day ends.                                                *)
LEMMA OtherTyped ==
    ASSUME TrailTypeOK, NEW p \in Writers, AskArchive(p) \/ Archived(p) \/ Restart(p) \/ Midnight
    PROVE  TrailTypeOK'
  <1> USE DEF TrailTypeOK, FilesTyped
  <1>1. CASE AskArchive(p)
    <2>1. Len(emitted) \in Nat /\ archives' \in Nat
      BY <1>1, LenProperties DEF AskArchive
    <2>2. [is |-> "waiting", after |-> Tip, stamp |-> archives'] \in ArchiveType
      BY <2>1 DEF ArchiveType, Tip
    <2>3. archive' \in [Writers -> ArchiveType]
      BY <1>1, <2>2 DEF AskArchive
    <2>4. QED
      BY <1>1, <2>1, <2>3 DEF AskArchive, appends
  <1>2. CASE Archived(p)
    <2>1. feed[p] \in FeedType
      OBVIOUS
    <2>2. [feed[p] EXCEPT !.seen = 0, !.shown = <<>>] \in FeedType
      BY <2>1, EmptySeq DEF FeedType
    <2>3. feed' \in [Writers -> FeedType]
      BY <1>2, <2>2 DEF Archived
    <2>4. archive' \in [Writers -> ArchiveType]
      BY <1>2 DEF Archived, ArchiveType
    <2>5. QED
      BY <1>2, <2>3, <2>4 DEF Archived, appends, history
  <1>3. CASE Restart(p)
    <2>1. /\ day' \in [Writers -> Nat] /\ queue' \in [Writers -> Seq(Nat)]
          /\ fd' \in [Writers -> Names \cup {None, Gone}]
      BY <1>3, EmptySeq DEF Restart
    <2>2. /\ rotate' \in [Writers -> RotationType] /\ archive' \in [Writers -> ArchiveType]
      BY <1>3 DEF Restart, RotationType, ArchiveType
    <2>3. store' \in [Writers -> StoreType] /\ feed' \in [Writers -> FeedType]
      BY <1>3, NewTyped DEF Restart
    <2>4. QED
      BY <1>3, <2>1, <2>2, <2>3 DEF Restart
  <1>4. CASE Midnight
    BY <1>4 DEF Midnight, appends, console, history
  <1>5. QED
    BY <1>1, <1>2, <1>3, <1>4
-----------------------------------------------------------------------------
(* Order.                                                                  *)

(* What was emitted stays, and a queue gets no records but new ones.       *)
Forward ==
  /\ Len(emitted) <= Len(emitted') /\ \A r \in 1..Len(emitted) : emitted'[r] = emitted[r]
  /\ \A p \in Writers : \A j \in 1..Len(queue'[p]) :
       \/ queue'[p][j] > Len(emitted)
       \/ \E i \in 1..Len(queue[p]) : queue'[p][j] = queue[p][i]

(* A queue that stays or is emptied.                                       *)
LEMMA ForwardWithout ==
    ASSUME TrailTypeOK, UNCHANGED emitted, \A p \in Writers : queue'[p] \in {queue[p], <<>>}
    PROVE  Forward
  <1>1. Len(emitted) \in Nat
    BY LenProperties DEF TrailTypeOK
  <1>2. Len(<<>>) = 0
    BY EmptySeq
  <1>3. QED
    BY <1>1, <1>2 DEF Forward

(* Every step goes forward.                                                *)
LEMMA StepForward ==
    ASSUME OrderInv, [TrailNext]_trailVars
    PROVE  Forward
  <1>1. TrailTypeOK /\ Len(emitted) \in Nat
    BY LenProperties DEF OrderInv, TrailTypeOK
  <1>2. ASSUME NEW p \in Writers, OnAudit(p) PROVE Forward
    <2>1. /\ Len(emitted') = Len(emitted) + 1 /\ \A r \in 1..Len(emitted) : emitted'[r] = emitted[r]
          /\ Len(queue'[p]) = Len(queue[p]) + 1 /\ queue'[p][Len(queue'[p])] = Len(emitted')
          /\ \A j \in 1..Len(queue[p]) : queue'[p][j] = queue[p][j]
          /\ \A q \in Writers \ {p} : queue'[q] = queue[q]
      BY <1>1, <1>2, OnAuditTyped
    <2>2. Len(queue[p]) \in Nat
      BY <1>1, LenProperties DEF TrailTypeOK
    <2>3. \A j \in 1..Len(queue'[p]) : j \in 1..Len(queue[p]) \/ j = Len(queue'[p])
      BY <2>1, <2>2
    <2>4. QED
      BY <1>1, <2>1, <2>3 DEF Forward
  <1>3. ASSUME NEW p \in Writers, Write(p) \/ Fails(p) PROVE Forward
    <2>1. queue[p] # <<>> /\ queue' = [queue EXCEPT ![p] = Tail(@)] /\ queue[p] \in Seq(Nat)
      BY <1>1, <1>3, AppendEffect DEF TrailTypeOK
    <2>2. queue'[p] = Tail(queue[p]) /\ \A q \in Writers \ {p} : queue'[q] = queue[q]
      BY <1>1, <2>1 DEF TrailTypeOK
    <2>3. \A j \in 1..Len(queue'[p]) : \E i \in 1..Len(queue[p]) : queue'[p][j] = queue[p][i]
      BY <2>1, <2>2, QueueTail
    <2>4. UNCHANGED emitted
      BY <1>3 DEF Write, Fails, history
    <2>5. ASSUME NEW q \in Writers, NEW j \in 1..Len(queue'[q])
          PROVE  \E i \in 1..Len(queue[q]) : queue'[q][j] = queue[q][i]
      BY <2>2, <2>3, <2>5
    <2>6. QED
      <3>1. Len(emitted) <= Len(emitted') /\ \A r \in 1..Len(emitted) : emitted'[r] = emitted[r]
        BY <1>1, <2>4
      <3>2. QED
        BY Zenon, <2>5, <3>1 DEF Forward
  <1>4. ASSUME NEW p \in Writers,
               \/ OpenFile(p) \/ RotateForDay(p) \/ (\E k \in 1..Polls : Poll(p, k) \/ Show(p, k))
               \/ AskArchive(p) \/ Archive(p) \/ Archived(p)
        PROVE  Forward
    <2>1. UNCHANGED <<emitted, queue>>
      BY <1>1, <1>4, OpenEffect
         DEF OpenFile, RotateForDay, Poll, Show, AskArchive, Archive, Archived, appends, history
    <2>2. QED
      BY <1>1, <2>1, ForwardWithout
  <1>5. ASSUME NEW p \in Writers, Restart(p) PROVE Forward
    BY <1>1, <1>5, ForwardWithout DEF Restart, TrailTypeOK
  <1>6. CASE Midnight \/ UNCHANGED trailVars
    BY <1>1, <1>6, ForwardWithout DEF Midnight, trailVars, appends, history
  <1>7. QED
    BY <1>2, <1>3, <1>4, <1>5, <1>6, Bounds DEF TrailNext, Trail, Page

(* What is past stays past.                                                *)
LEMMA PastStays ==
    ASSUME TrailTypeOK, TrailTypeOK', Forward, NEW r, Past(r)
    PROVE  Past(r)' /\ emitted'[r] = emitted[r]
  <1>1. r \in 1..Len(emitted) /\ Len(emitted) \in Nat /\ Len(emitted') \in Nat
    BY LenProperties DEF Past, TrailTypeOK
  <1>2. r \in 1..Len(emitted') /\ emitted'[r] = emitted[r]
    BY <1>1 DEF Forward
  <1>3. ASSUME NEW p \in Writers, emitted'[r].by = p, NEW j \in 1..Len(queue'[p])
        PROVE  r < queue'[p][j]
    <2>1. queue'[p][j] \in Nat
      BY ElementOfSeq DEF TrailTypeOK
    <2>2. CASE queue'[p][j] > Len(emitted)
      BY <1>1, <2>1, <2>2
    <2>3. CASE \E i \in 1..Len(queue[p]) : queue'[p][j] = queue[p][i]
      BY <1>2, <1>3, <2>3 DEF Past
    <2>4. QED
      BY <2>2, <2>3 DEF Forward
  <1>4. QED
    BY <1>2, <1>3 DEF Past

(* Files that keep what they hold, whatever they are called now, and new    *)
(* ones that hold nothing, are in order.                                   *)
LEMMA FilesKept ==
    ASSUME OrderInv, TrailTypeOK', Forward,
           \A p \in Writers : QueueInOrder(p)' /\ fd'[p] \in DOMAIN fs' \cup {None, Gone},
           NEW was,
           \A n \in DOMAIN fs' : fs'[n] = <<>> \/ (was[n] \in DOMAIN fs /\ fs'[n] = fs[was[n]]),
           \A n, m \in DOMAIN fs' : n # m => was[n] # was[m]
    PROVE  OrderInv'
  <1>1. TrailTypeOK /\ Len(<<>>) = 0
    BY EmptySeq DEF OrderInv
  <1>2. ASSUME NEW n \in DOMAIN fs', NEW i \in 1..Len(fs'[n]), NEW r, fs'[n][i] = r
        PROVE  /\ was[n] \in DOMAIN fs /\ fs'[n] = fs[was[n]]
               /\ Past(r) /\ Past(r)' /\ emitted'[r] = emitted[r]
    <2>1. was[n] \in DOMAIN fs /\ fs'[n] = fs[was[n]]
      BY <1>1, <1>2
    <2>2. Past(r)
      BY <1>2, <2>1 DEF OrderInv, FileInOrder
    <2>3. QED
      BY <1>1, <2>1, <2>2, PastStays
  <1>3. ASSUME NEW n \in DOMAIN fs' PROVE FileInOrder(n)'
    <2>1. ASSUME NEW i \in 1..Len(fs'[n])
          PROVE  /\ Past(fs[n][i])'
                 /\ \A m \in DOMAIN fs' \ {n} : ~Contains(fs'[m], fs'[n][i])
      <3>1. PICK r : fs'[n][i] = r
        OBVIOUS
      <3>2. was[n] \in DOMAIN fs /\ fs'[n] = fs[was[n]] /\ Past(r)'
        BY <3>1, <1>2
      <3>3. Past(fs[n][i])'
        BY <3>1, <3>2 DEF Past
      <3>4. ASSUME NEW m \in DOMAIN fs' \ {n}, Contains(fs'[m], r)
            PROVE  FALSE
        <4>1. PICK j \in 1..Len(fs'[m]) : fs'[m][j] = r
          BY <3>4 DEF Contains
        <4>2. was[m] \in DOMAIN fs \ {was[n]} /\ fs'[m] = fs[was[m]]
          BY <1>2, <4>1
        <4>3. Contains(fs[was[m]], r)
          BY <4>1, <4>2 DEF Contains
        <4>4. i \in 1..Len(fs[was[n]]) /\ fs[was[n]][i] = r
          BY <3>1, <3>2
        <4>5. QED
          BY <3>2, <4>2, <4>3, <4>4 DEF OrderInv, FileInOrder
      <3>5. QED
        BY <3>1, <3>3, <3>4
    <2>2. QED
      BY <2>1 DEF FileInOrder
  <1>4. OrderKept'
    <2>1. ASSUME NEW n \in DOMAIN fs', NEW i \in 1..Len(fs'[n]), NEW j \in 1..Len(fs'[n]),
                 i < j, emitted'[fs'[n][i]].by = emitted'[fs'[n][j]].by
          PROVE  fs'[n][i] < fs'[n][j]
      <3>1. emitted'[fs'[n][i]] = emitted[fs'[n][i]] /\ emitted'[fs'[n][j]] = emitted[fs'[n][j]]
        BY <1>2
      <3>2. was[n] \in DOMAIN fs /\ fs'[n] = fs[was[n]]
        BY <1>2
      <3>3. QED
        BY <2>1, <3>1, <3>2 DEF OrderInv, OrderKept
    <2>2. QED
      BY <2>1 DEF OrderKept
  <1>5. QED
    BY <1>3, <1>4 DEF OrderInv

(* In particular when no file changes.                                     *)
LEMMA FilesStay ==
    ASSUME OrderInv, TrailTypeOK', Forward, UNCHANGED fs,
           \A p \in Writers : QueueInOrder(p)' /\ fd'[p] \in DOMAIN fs \cup {None, Gone}
    PROVE  OrderInv'
  <1> DEFINE was == [n \in DOMAIN fs |-> n]
  <1>1. \A n \in DOMAIN fs' : was[n] \in DOMAIN fs /\ fs'[n] = fs[was[n]]
    OBVIOUS
  <1>2. \A n, m \in DOMAIN fs' : n # m => was[n] # was[m]
    OBVIOUS
  <1> HIDE DEF was
  <1>3. QED
    BY <1>1, <1>2, FilesKept

(* The queues are in order as long as they only lose, and nothing is open   *)
(* that was not.                                                           *)
LEMMA QueuesStay ==
    ASSUME OrderInv, UNCHANGED emitted, NEW p \in Writers, queue'[p] \in {queue[p], <<>>},
           fd'[p] # None => fd[p] # None /\ queue'[p] = queue[p]
    PROVE  QueueInOrder(p)'
  <1>1. Len(<<>>) = 0
    BY EmptySeq
  <1>2. QED
    BY <1>1 DEF OrderInv, QueueInOrder

(* A record is emitted.                                                    *)
LEMMA OnAuditOrder ==
    ASSUME OrderInv, NEW p \in Writers, OnAudit(p)
    PROVE  OrderInv'
  <1>1. TrailTypeOK /\ Len(queue[p]) \in Nat /\ Len(emitted) \in Nat
    BY LenProperties DEF OrderInv, TrailTypeOK
  <1>2. /\ TrailTypeOK' /\ Len(emitted') = Len(emitted) + 1
        /\ emitted'[Len(emitted')].by = p
        /\ \A r \in 1..Len(emitted) : emitted'[r] = emitted[r]
        /\ Len(queue'[p]) = Len(queue[p]) + 1 /\ queue'[p][Len(queue'[p])] = Len(emitted')
        /\ \A j \in 1..Len(queue[p]) : queue'[p][j] = queue[p][j]
        /\ \A q \in Writers \ {p} : queue'[q] = queue[q]
    <2>1. emitted'[Len(emitted')] = [by |-> p, day |-> today]
      BY <1>1, OnAuditTyped
    <2>2. QED
      BY <1>1, <2>1, OnAuditTyped
  <1>3. UNCHANGED <<fs, fd>> /\ \A q \in Writers : QueueInOrder(q) /\ fd[q] \in DOMAIN fs \cup {None, Gone}
    BY DEF OnAudit, OrderInv
  <1>4. QueueInOrder(p)'
    <2>1. \A j \in 1..Len(queue[p]) : queue'[p][j] \in 1..Len(emitted) /\ emitted'[queue'[p][j]].by = p
      <3>1. TAKE j \in 1..Len(queue[p])
      <3>2. queue[p][j] \in 1..Len(emitted) /\ emitted[queue[p][j]].by = p
        BY <1>3 DEF QueueInOrder
      <3>3. QED
        BY <1>2, <3>1, <3>2
    <2>2. \A j \in 1..Len(queue'[p]) : j \in 1..Len(queue[p]) \/ j = Len(queue[p]) + 1
      BY <1>1, <1>2
    <2>3. \A j \in 1..Len(queue'[p]) : queue'[p][j] \in 1..Len(emitted') /\ emitted'[queue'[p][j]].by = p
      BY SMTT(30), <1>1, <1>2, <2>1, <2>2
    <2>4. ASSUME NEW i \in 1..Len(queue'[p]), NEW j \in 1..Len(queue'[p]), i < j
          PROVE  queue'[p][i] < queue'[p][j]
      <3>1. i \in 1..Len(queue[p]) /\ queue'[p][i] = queue[p][i] /\ queue[p][i] \in 1..Len(emitted)
        BY <1>1, <1>2, <2>1, <2>4
      <3>2. CASE j \in 1..Len(queue[p])
        BY <1>2, <1>3, <2>4, <3>1, <3>2 DEF QueueInOrder
      <3>3. CASE j = Len(queue[p]) + 1
        BY <1>1, <1>2, <3>1, <3>3
      <3>4. QED
        BY <2>2, <3>2, <3>3
    <2>5. fd'[p] # None => queue'[p] # <<>>
      BY <1>1, <1>2, EmptySeq
    <2>6. QED
      BY <2>3, <2>4, <2>5 DEF QueueInOrder
  <1>5. \A q \in Writers \ {p} : QueueInOrder(q)'
    BY SMTT(30), <1>1, <1>2, <1>3 DEF QueueInOrder
  <1>6. Forward
    BY StepForward DEF TrailNext, Trail
  <1>7. QED
    BY <1>2, <1>3, <1>4, <1>5, <1>6, FilesStay

(* The file is opened: a new one is empty.                                 *)
LEMMA OpenOrder ==
    ASSUME OrderInv, NEW p \in Writers, OpenFile(p)
    PROVE  OrderInv'
  <1> DEFINE was == [n \in DOMAIN fs' |-> n]
  <1>1. TrailTypeOK /\ TrailTypeOK' /\ Forward
    BY AppendTyped, StepForward DEF OrderInv, TrailNext, Trail
  <1>2. /\ queue' = queue /\ queue[p] # <<>> /\ fd' = [fd EXCEPT ![p] = Live] /\ emitted' = emitted
        /\ DOMAIN fs' = DOMAIN fs \cup {Live} /\ \A n \in DOMAIN fs : fs'[n] = fs[n]
        /\ Live \notin DOMAIN fs => fs'[Live] = <<>>
    BY <1>1, OpenEffect DEF OpenFile, history
  <1>3. ASSUME NEW q \in Writers PROVE QueueInOrder(q)' /\ fd'[q] \in DOMAIN fs' \cup {None, Gone}
    <2>1. /\ QueueInOrder(q) /\ fd[q] \in DOMAIN fs \cup {None, Gone}
          /\ fd'[q] = IF q = p THEN Live ELSE fd[q]
      BY <1>1, <1>2 DEF OrderInv, TrailTypeOK
    <2>2. QED
      BY <1>2, <2>1 DEF QueueInOrder
  <1>4. \A n \in DOMAIN fs' : fs'[n] = <<>> \/ (was[n] \in DOMAIN fs /\ fs'[n] = fs[was[n]])
    BY <1>2
  <1>5. \A n, m \in DOMAIN fs' : n # m => was[n] # was[m]
    OBVIOUS
  <1> HIDE DEF was
  <1>6. QED
    BY <1>1, <1>3, <1>4, <1>5, FilesKept

(* An append takes its record off, which leaves the queues in order.       *)
LEMMA AppendQueues ==
    ASSUME OrderInv, NEW p \in Writers, Write(p) \/ Fails(p), NEW q \in Writers
    PROVE  /\ QueueInOrder(q)' /\ fd'[q] \in DOMAIN fs \cup {None, Gone}
           /\ \A j \in 1..Len(queue'[p]) : Head(queue[p]) < queue'[p][j]
  <1>1. /\ TrailTypeOK /\ QueueInOrder(p) /\ QueueInOrder(q) /\ fd[q] \in DOMAIN fs \cup {None, Gone}
        /\ emitted' = emitted
    BY DEF OrderInv, Write, Fails, history
  <1>2. /\ queue[p] # <<>> /\ queue' = [queue EXCEPT ![p] = Tail(@)] /\ fd' = [fd EXCEPT ![p] = None]
    BY AppendEffect
  <1>3. /\ queue'[p] = Tail(queue[p]) /\ (q # p => queue'[q] = queue[q])
        /\ fd'[q] = IF q = p THEN None ELSE fd[q]
    BY <1>1, <1>2 DEF TrailTypeOK
  <1>4. /\ Len(queue[p]) \in Nat \ {0} /\ 1 \in 1..Len(queue[p]) /\ Head(queue[p]) = queue[p][1]
        /\ \A j \in 1..Len(queue'[p]) : j + 1 \in 1..Len(queue[p]) /\ queue'[p][j] = queue[p][j + 1]
        /\ Len(queue'[p]) \in Nat
    BY <1>1, <1>2, <1>3, QueueTail, LenProperties DEF TrailTypeOK
  <1>5. \A j \in 1..Len(queue'[p]) : Head(queue[p]) < queue'[p][j]
    <2>1. \A j \in 1..Len(queue'[p]) : 1 < j + 1
      BY <1>4
    <2>2. QED
      BY <1>1, <1>4, <2>1 DEF QueueInOrder
  <1>6. CASE q = p
    <2>1. \A i, j \in 1..Len(queue'[p]) : i < j => queue'[p][i] < queue'[p][j]
      <3>1. \A i, j \in 1..Len(queue'[p]) : i < j => i + 1 < j + 1
        BY <1>4
      <3>2. QED
        BY <1>1, <1>4, <3>1 DEF QueueInOrder
    <2>2. \A j \in 1..Len(queue'[p]) : queue'[p][j] \in 1..Len(emitted) /\ emitted[queue'[p][j]].by = p
      BY <1>1, <1>4 DEF QueueInOrder
    <2>3. QED
      BY <1>1, <1>3, <1>5, <1>6, <2>1, <2>2 DEF QueueInOrder
  <1>7. CASE q # p
    BY <1>1, <1>3, <1>5, <1>7 DEF QueueInOrder
  <1>8. QED
    BY <1>6, <1>7

(* What a process writes next is in no file, and follows all it has written. *)
LEMMA HeadIsNext ==
    ASSUME OrderInv, NEW p \in Writers, queue[p] # <<>>, NEW r, Past(r)
    PROVE  r # Head(queue[p]) /\ (emitted[r].by = p => r < Head(queue[p]))
  <1>1. /\ Head(queue[p]) = queue[p][1] /\ 1 \in 1..Len(queue[p])
        /\ emitted[queue[p][1]].by = p /\ queue[p][1] \in Nat
    BY QueueTail DEF OrderInv, TrailTypeOK, QueueInOrder
  <1>2. emitted[r].by = p => r < Head(queue[p])
    BY <1>1 DEF Past
  <1>3. r # Head(queue[p])
    BY <1>1, <1>2
  <1>4. QED
    BY <1>2, <1>3

(* A record is written, to the end of a file.                              *)
LEMMA WriteOrder ==
    ASSUME OrderInv, NEW p \in Writers, Write(p)
    PROVE  OrderInv'
  <1> DEFINE name == fd[p]
  <1>0. PICK new : new = Head(queue[p])
    OBVIOUS
  <1>1. TrailTypeOK /\ TrailTypeOK' /\ Forward /\ emitted' = emitted
    BY AppendTyped, StepForward DEF OrderInv, TrailNext, Trail, Write
  <1>2. /\ queue[p] # <<>> /\ new \in 1..Len(emitted) /\ emitted[new].by = p
    BY <1>0, AppendEffect
  <1>3. /\ DOMAIN fs' = DOMAIN fs /\ \A n \in DOMAIN fs : n # name => fs'[n] = fs[n]
        /\ name \in DOMAIN fs => fs'[name] = Append(fs[name], new)
        /\ \A n \in DOMAIN fs : fs[n] \in Seq(Nat)
    BY <1>0, <1>1, WriteEffect DEF TrailTypeOK, FilesTyped
  <1>4. \A q \in Writers : QueueInOrder(q)' /\ fd'[q] \in DOMAIN fs' \cup {None, Gone}
    BY <1>3, AppendQueues
  <1>5. Past(new)'
    <2>1. \A j \in 1..Len(queue'[p]) : new < queue'[p][j]
      BY <1>0, AppendQueues
    <2>2. QED
      BY <1>1, <1>2, <2>1 DEF Past
  <1>6. \A r : Past(r) => Past(r)' /\ r # new /\ (emitted[r].by = p => r < new)
    BY <1>0, <1>1, <1>2, PastStays, HeadIsNext
  <1>7. ASSUME NEW n \in DOMAIN fs, NEW i \in 1..Len(fs'[n])
        PROVE  \/ i \in 1..Len(fs[n]) /\ fs'[n][i] = fs[n][i] /\ Past(fs[n][i])
               \/ n = name /\ i = Len(fs'[n]) /\ Len(fs'[n]) = Len(fs[n]) + 1 /\ fs'[n][i] = new
    <2>1. Len(fs[n]) \in Nat /\ new \in Nat
      BY <1>1, <1>2, <1>3, LenProperties DEF TrailTypeOK
    <2>2. CASE n = name
      BY <1>3, <1>7, <2>1, <2>2 DEF OrderInv, FileInOrder
    <2>3. CASE n # name
      BY <1>3, <1>7, <2>3 DEF OrderInv, FileInOrder
    <2>4. QED
      BY <2>2, <2>3
  <1>8. ASSUME NEW n \in DOMAIN fs' PROVE FileInOrder(n)'
    <2>1. ASSUME NEW i \in 1..Len(fs'[n]), NEW r, r = fs'[n][i]
          PROVE  Past(r)' /\ \A m \in DOMAIN fs' \ {n} : ~Contains(fs'[m], r)
      <3>1. Past(r)'
        BY <1>3, <1>5, <1>6, <1>7, <2>1
      <3>2. ASSUME NEW m \in DOMAIN fs' \ {n}, NEW j \in 1..Len(fs'[m]), fs'[m][j] = r
            PROVE  FALSE
        <4>1. \/ i \in 1..Len(fs[n]) /\ r = fs[n][i] /\ Past(r)
              \/ n = name /\ r = new
          BY <1>3, <1>7, <2>1
        <4>2. \/ j \in 1..Len(fs[m]) /\ r = fs[m][j] /\ Past(r)
              \/ m = name /\ r = new
          BY <1>3, <1>7, <3>2
        <4>3. CASE /\ i \in 1..Len(fs[n]) /\ r = fs[n][i] /\ j \in 1..Len(fs[m]) /\ r = fs[m][j]
          <5>1. Contains(fs[m], fs[n][i])
            BY <4>3 DEF Contains
          <5>2. QED
            BY <1>3, <4>3, <5>1 DEF OrderInv, FileInOrder
        <4>4. QED
          BY <1>6, <4>1, <4>2, <4>3
      <3>3. QED
        BY <3>1, <3>2 DEF Contains
    <2>2. ASSUME NEW i \in 1..Len(fs'[n])
          PROVE  /\ Past(fs[n][i])'
                 /\ \A m \in DOMAIN fs' \ {n} : ~Contains(fs'[m], fs'[n][i])
      <3>1. PICK r : r = fs'[n][i]
        OBVIOUS
      <3>2. QED
        BY <2>1, <3>1 DEF Past
    <2>3. QED
      BY <2>2 DEF FileInOrder
  <1>9. OrderKept'
    <2>1. ASSUME NEW n \in DOMAIN fs', NEW i \in 1..Len(fs'[n]), NEW j \in 1..Len(fs'[n]),
                 i < j, emitted[fs'[n][i]].by = emitted[fs'[n][j]].by
          PROVE  fs'[n][i] < fs'[n][j]
      <3>0. Len(fs[n]) \in Nat /\ Len(fs'[n]) \in Nat /\ n \in DOMAIN fs
        BY <1>1, <1>3, LenProperties DEF TrailTypeOK, FilesTyped
      <3>1. i \in 1..Len(fs[n]) /\ fs'[n][i] = fs[n][i] /\ Past(fs[n][i])
        BY <1>7, <2>1, <3>0
      <3>2. CASE j \in 1..Len(fs[n]) /\ fs'[n][j] = fs[n][j]
        BY <2>1, <3>0, <3>1, <3>2 DEF OrderInv, OrderKept
      <3>3. CASE fs'[n][j] = new
        BY <1>2, <1>6, <2>1, <3>1, <3>3
      <3>4. QED
        BY <1>7, <3>0, <3>2, <3>3
    <2>2. QED
      BY <1>1, <2>1 DEF OrderKept
  <1>10. QED
    BY <1>1, <1>4, <1>8, <1>9 DEF OrderInv

(* Files that change their names.                                          *)
LEMMA RenameOrder ==
    ASSUME OrderInv, TrailTypeOK', UNCHANGED <<queue, emitted>>, NEW to \in Names,
           NEW swept \in SUBSET Names, Exists(Live), to # Live, to \notin swept, Rename(to, swept)
    PROVE  OrderInv'
  <1> DEFINE was == [n \in DOMAIN fs' |-> IF n = to THEN Live ELSE n]
  <1>1. /\ DOMAIN fs' = ((DOMAIN fs \cup {to}) \ swept) \ {Live}
        /\ to \in DOMAIN fs' /\ fs'[to] = fs[Live] /\ Live \in DOMAIN fs
        /\ \A n \in DOMAIN fs' : n # to => n \in DOMAIN fs /\ n # Live /\ fs'[n] = fs[n]
        /\ \A q \in Writers :
             fd'[q] = IF fd[q] = Live THEN to ELSE IF fd[q] \in {to} \cup swept THEN Gone ELSE fd[q]
        /\ \A q \in Writers : fd'[q] # None => fd[q] # None
    BY RenameEffect
  <1>2. Forward
    BY ForwardWithout DEF OrderInv
  <1>3. ASSUME NEW q \in Writers PROVE QueueInOrder(q)' /\ fd'[q] \in DOMAIN fs' \cup {None, Gone}
    <2>1. QueueInOrder(q)'
      BY <1>1, QueuesStay
    <2>2. fd[q] \in DOMAIN fs \cup {None, Gone}
      BY DEF OrderInv
    <2>3. QED
      BY <1>1, <2>1, <2>2
  <1>4. \A n \in DOMAIN fs' : was[n] \in DOMAIN fs /\ fs'[n] = fs[was[n]]
    BY <1>1
  <1>5. \A n, m \in DOMAIN fs' : n # m => was[n] # was[m]
    BY <1>1
  <1> HIDE DEF was
  <1>6. QED
    BY <1>2, <1>3, <1>4, <1>5, FilesKept

(* Steps that leave the files alone.                                       *)
LEMMA QuietOrder ==
    ASSUME OrderInv, TrailTypeOK', UNCHANGED <<fs, emitted>>,
           \A p \in Writers : \/ queue'[p] = queue[p] /\ fd'[p] \in {fd[p], None}
                              \/ queue'[p] = <<>> /\ fd'[p] = None
    PROVE  OrderInv'
  <1>1. Forward
    BY ForwardWithout DEF OrderInv
  <1>2. ASSUME NEW p \in Writers PROVE QueueInOrder(p)' /\ fd'[p] \in DOMAIN fs \cup {None, Gone}
    <2>1. QueueInOrder(p)'
      BY QueuesStay
    <2>2. QED
      BY <2>1 DEF OrderInv
  <1>3. QED
    BY <1>1, <1>2, FilesStay

(* A day is rotated, or the file archived.                                 *)
LEMMA RenamersOrder ==
    ASSUME OrderInv, NEW p \in Writers, RotateForDay(p) \/ Archive(p)
    PROVE  OrderInv'
  <1>1. TrailTypeOK /\ TrailTypeOK' /\ UNCHANGED <<queue, emitted>>
    BY RotateTyped, ArchiveTyped DEF OrderInv, RotateForDay, Archive, history
  <1>2. CASE UNCHANGED <<fs, fd>>
    BY <1>1, <1>2, QuietOrder
  <1>3. CASE RotateForDay(p) /\ ~UNCHANGED <<fs, fd>>
    <2>1. /\ rotate[p].closes \in Nat /\ Exists(Live)
          /\ Rename(DayFile(rotate[p].closes), Swept(rotate[p].closes))
      BY <1>3, RotateEffect
    <2>2. QED
      BY <1>1, <2>1, RenameOrder, SweptEffect, NamesDiffer
  <1>4. CASE Archive(p) /\ ~UNCHANGED <<fs, fd>>
    <2>1. /\ archive[p].stamp \in Nat /\ Exists(Live) /\ Rename(ArchiveFile(archive[p].stamp), {})
      BY <1>1, <1>4, ArchiveEffect
    <2>2. QED
      BY <1>1, <2>1, RenameOrder, NamesDiffer
  <1>5. QED
    BY <1>2, <1>3, <1>4

(* Every step keeps the order.                                             *)
LEMMA OrderNext ==
    ASSUME OrderInv, [TrailNext]_trailVars
    PROVE  OrderInv'
  <1>1. TrailTypeOK
    BY DEF OrderInv
  <1>2. ASSUME NEW p \in Writers, Fails(p) PROVE OrderInv'
    <2>1. TrailTypeOK' /\ UNCHANGED fs /\ Forward
      BY <1>2, AppendTyped, StepForward DEF Fails
    <2>2. QED
      BY <1>2, <2>1, AppendQueues, FilesStay
  <1>3. ASSUME NEW p \in Writers,
               (\E k \in 1..Polls : Poll(p, k) \/ Show(p, k)) \/ AskArchive(p) \/ Archived(p)
        PROVE  OrderInv'
    <2>1. TrailTypeOK' /\ UNCHANGED <<fs, emitted, queue, fd>>
      BY <1>1, <1>3, PollTyped, ShowTyped, OtherTyped
         DEF Poll, Show, AskArchive, Archived, appends, history
    <2>2. QED
      BY <2>1, QuietOrder
  <1>4. ASSUME NEW p \in Writers, Restart(p) PROVE OrderInv'
    BY <1>1, <1>4, OtherTyped, QuietOrder DEF Restart, TrailTypeOK
  <1>5. CASE Midnight
    <2>1. TrailTypeOK'
      BY <1>1, <1>5 DEF Midnight, TrailTypeOK, FilesTyped, appends, console, history
    <2>2. QED
      BY <1>5, <2>1, QuietOrder DEF Midnight, appends, history
  <1>6. CASE UNCHANGED trailVars
    <2>1. TrailTypeOK'
      BY <1>1, <1>6 DEF trailVars, TrailTypeOK, FilesTyped
    <2>2. QED
      BY <1>6, <2>1, QuietOrder DEF trailVars
  <1>7. QED
    BY <1>2, <1>3, <1>4, <1>5, <1>6, OnAuditOrder, OpenOrder, WriteOrder, RenamersOrder, Bounds
       DEF TrailNext, Trail, Page

(* The trail starts in order.                                              *)
LEMMA OrderInit == ASSUME TrailInit PROVE OrderInv
  <1> DEFINE first == [by |-> "before", day |-> 0]
  <1>1. DOMAIN fs = {DayFile(0)} /\ fs[DayFile(0)] = <<1>> /\ DayFile(0) \in Names
    BY NamesDiffer DEF TrailInit
  <1>2. /\ emitted = <<first>> /\ Len(emitted) = 1 /\ emitted[1] = first
        /\ emitted \in Seq([by : Writers \cup {"before"}, day : Nat])
    BY DEF TrailInit
  <1>3. TrailTypeOK
    <2>1. \A p \in Writers : queue[p] = <<>> /\ queue[p] \in Seq(Nat)
      BY EmptySeq DEF TrailInit
    <2>2. FilesTyped
      <3>1. <<1>> \in Seq(Nat)
        OBVIOUS
      <3>2. QED
        BY <1>1, <3>1 DEF FilesTyped
    <2>3. /\ queue \in [Writers -> Seq(Nat)] /\ store \in [Writers -> StoreType]
          /\ feed \in [Writers -> FeedType]
      BY <2>1, NewTyped DEF TrailInit
    <2>4. rotate \in [Writers -> RotationType] /\ archive \in [Writers -> ArchiveType]
      BY DEF TrailInit, RotationType, ArchiveType
    <2>5. /\ today \in Nat /\ day \in [Writers -> Nat] /\ fd \in [Writers -> Names \cup {None, Gone}]
          /\ kept \subseteq Nat /\ closed \in Nat /\ late \in BOOLEAN /\ archives \in Nat
      <3>1. today \in Nat /\ closed \in Nat /\ archives \in Nat /\ kept \subseteq Nat
        BY DEF TrailInit
      <3>2. day \in [Writers -> Nat]
        BY DEF TrailInit
      <3>3. fd \in [Writers -> Names \cup {None, Gone}]
        BY DEF TrailInit
      <3>4. late \in BOOLEAN
        BY DEF TrailInit
      <3>5. QED
        BY <3>1, <3>2, <3>3, <3>4
    <2>6. QED
      BY <1>2, <2>2, <2>3, <2>4, <2>5 DEF TrailTypeOK
  <1>4. \A p \in Writers : Len(queue[p]) = 0 /\ fd[p] = None
    BY EmptySeq DEF TrailInit
  <1>5. \A p \in Writers : QueueInOrder(p) /\ fd[p] \in DOMAIN fs \cup {None, Gone}
    BY <1>4 DEF QueueInOrder
  <1>6. Past(1)
    BY <1>2, <1>4 DEF Past
  <1>7. \A n \in DOMAIN fs : Len(fs[n]) = 1 /\ fs[n][1] = 1
    BY <1>1
  <1>8. \A n \in DOMAIN fs : FileInOrder(n)
    BY <1>1, <1>6, <1>7 DEF FileInOrder
  <1>9. OrderKept
    BY <1>7 DEF OrderKept
  <1>10. QED
    BY <1>3, <1>5, <1>8, <1>9 DEF OrderInv

(* The invariant of the trail.                                             *)
THEOREM OrderInvariance == TrailSpec => []OrderInv
  <1>1. QED
    BY OrderInit, OrderNext, PTL DEF TrailSpec

(* In a file, the records of a process are in the order it emitted them.   *)
THEOREM OrderHolds == TrailSpec => []OrderKept
  <1>1. OrderInv => OrderKept
    BY DEF OrderInv
  <1>2. QED
    BY <1>1, OrderInvariance, PTL
-----------------------------------------------------------------------------
(* Nothing is lost.                                                        *)

(* No record is of tomorrow, and a rotation closes a day that is over.     *)
DaysInOrder ==
  /\ \A r \in 1..Len(emitted) : emitted[r].day \in Nat /\ emitted[r].day <= today
  /\ \A p \in Writers : day[p] <= today /\ (rotate[p].is = "waiting" => rotate[p].closes < today)

(* The name an archive will give is nobody else's, and no file's yet.      *)
ArchivesApart ==
  /\ \A k \in Nat : ArchiveFile(k) \in DOMAIN fs => k <= archives
  /\ \A p \in Writers : archive[p].is = "waiting" =>
       /\ archive[p].stamp <= archives /\ ArchiveFile(archive[p].stamp) \notin DOMAIN fs
       /\ \A q \in Writers \ {p} : archive[q].is = "waiting" => archive[q].stamp # archive[p].stamp

(* What was written is in a file, or was swept when its time had come.     *)
IsSomewhere(r) == (\E n \in DOMAIN fs : Contains(fs[n], r)) \/ today - emitted[r].day > Retain

(* What is open has a name, and if that is of a day then of a recent one.  *)
OpenInTime(p) == fd[p] # Gone /\ \A d \in Nat : fd[p] = DayFile(d) => today <= d + 1

(* A day's file is of a day that was closed, with nothing that is younger   *)
(* than the day after it.                                                  *)
DayIsOver(d) ==
  d <= closed /\ \A i \in 1..Len(fs[DayFile(d)]) : emitted[fs[DayFile(d)][i]].day <= d + 1

NothingLost ==
  /\ \A r \in kept : IsSomewhere(r)
  /\ \A p \in Writers : OpenInTime(p)
  /\ \A d \in Nat : DayFile(d) \in DOMAIN fs => DayIsOver(d)

LossInv ==
  /\ DaysInOrder /\ ArchivesApart
  /\ \A r \in kept : Past(r)
  /\ ~late => NothingLost

(* Days go by in order.                                                    *)
LEMMA DaysNext ==
    ASSUME OrderInv, DaysInOrder, [TrailNext]_trailVars
    PROVE  DaysInOrder'
  <1>1. TrailTypeOK /\ Len(emitted) \in Nat /\ today \in Nat
    BY LenProperties DEF OrderInv, TrailTypeOK
  <1>2. ASSUME NEW p \in Writers, OnAudit(p) PROVE DaysInOrder'
    <2>1. /\ Len(emitted') = Len(emitted) + 1
          /\ emitted'[Len(emitted')] = [by |-> p, day |-> today]
          /\ \A r \in 1..Len(emitted) : emitted'[r] = emitted[r]
      BY <1>1, <1>2, OnAuditTyped
    <2>2. \A r \in 1..Len(emitted') : r \in 1..Len(emitted) \/ r = Len(emitted')
      BY <1>1, <2>1
    <2>3. \A r \in 1..Len(emitted') : emitted'[r].day \in Nat /\ emitted'[r].day <= today
      BY <1>1, <2>1, <2>2 DEF DaysInOrder
    <2>4. ASSUME NEW q \in Writers
          PROVE  day'[q] <= today /\ (rotate'[q].is = "waiting" => rotate'[q].closes < today)
      <3>1. day[q] \in Nat /\ day[q] <= today
        BY <1>1 DEF DaysInOrder, TrailTypeOK
      <3>2. day'[q] = IF q = p THEN today ELSE day[q]
        BY <1>1, <1>2 DEF OnAudit, TrailTypeOK
      <3>3. \/ rotate'[q] = rotate[q]
            \/ day[q] # today /\ rotate'[q] = [is |-> "waiting", closes |-> day[q], after |-> Len(emitted')]
        BY <1>1, <1>2 DEF OnAudit, TrailTypeOK
      <3>4. QED
        BY <1>1, <3>1, <3>2, <3>3 DEF DaysInOrder
    <2>5. today' = today
      BY <1>2 DEF OnAudit
    <2>6. QED
      BY <2>3, <2>4, <2>5 DEF DaysInOrder
  <1>3. CASE /\ UNCHANGED <<today, emitted>>
             /\ \A p \in Writers : day'[p] \in {day[p], today} /\ rotate'[p] \in {rotate[p], Off}
    BY <1>1, <1>3 DEF DaysInOrder, Off
  <1>4. ASSUME NEW p \in Writers,
               \/ OpenFile(p) \/ Write(p) \/ Fails(p) \/ RotateForDay(p)
               \/ (\E k \in 1..Polls : Poll(p, k) \/ Show(p, k))
               \/ AskArchive(p) \/ Archive(p) \/ Archived(p) \/ Restart(p)
        PROVE  DaysInOrder'
    <2>1. UNCHANGED <<today, emitted>>
      BY <1>4 DEF OpenFile, Write, Fails, RotateForDay, Poll, Show, AskArchive, Archive, Archived, Restart,
                  appends, console, history
    <2>2. /\ day' = day \/ day' = [day EXCEPT ![p] = today]
          /\ rotate' = rotate \/ rotate' = [rotate EXCEPT ![p] = Off]
      BY <1>4 DEF OpenFile, Write, Fails, RotateForDay, Poll, Show, AskArchive, Archive, Archived, Restart,
                  appends, console, history
    <2>3. \A q \in Writers : day'[q] \in {day[q], today} /\ rotate'[q] \in {rotate[q], Off}
      BY <1>1, <2>2 DEF TrailTypeOK
    <2>4. QED
      BY <1>3, <2>1, <2>3
  <1>5. CASE Midnight
    <2>1. today' = today + 1 /\ UNCHANGED <<day, rotate, emitted>> /\ \A p \in Writers : rotate[p] = Off
      BY <1>5 DEF Midnight, history
    <2>2. \A p \in Writers : day[p] \in Nat
      BY <1>1 DEF TrailTypeOK
    <2>3. QED
      BY <1>1, <2>1, <2>2 DEF DaysInOrder, Off
  <1>6. CASE UNCHANGED trailVars
    BY <1>3, <1>6 DEF trailVars
  <1>7. QED
    BY <1>2, <1>4, <1>5, <1>6, Bounds DEF TrailNext, Trail, Page

(* An archive that waits has a stamp.                                      *)
LEMMA StampTyped ==
    ASSUME TrailTypeOK
    PROVE  \A p \in Writers : archive[p].is = "waiting" => archive[p].stamp \in Nat
  <1>1. \A p \in Writers : archive[p] \in ArchiveType
    BY DEF TrailTypeOK
  <1>2. QED
    BY <1>1 DEF ArchiveType, Off

(* Archives stay apart.                                                    *)
LEMMA ArchivesNext ==
    ASSUME OrderInv, ArchivesApart, [TrailNext]_trailVars
    PROVE  ArchivesApart'
  <1>1. TrailTypeOK /\ archives \in Nat
    BY DEF OrderInv, TrailTypeOK
  <1>2. CASE /\ \A k \in Nat : ArchiveFile(k) \in DOMAIN fs' => ArchiveFile(k) \in DOMAIN fs
             /\ archives' = archives
             /\ \A p \in Writers : archive'[p].is = "waiting" => archive'[p] = archive[p]
    <2>1. \A p \in Writers : archive[p].is = "waiting" => archive[p].stamp \in Nat
      BY <1>1, StampTyped
    <2>2. QED
      BY <1>2, <2>1 DEF ArchivesApart
  <1>3. ASSUME NEW p \in Writers, OpenFile(p) PROVE ArchivesApart'
    <2>1. DOMAIN fs' = DOMAIN fs \cup {Live}
      BY <1>1, <1>3, OpenEffect
    <2>2. QED
      BY <1>2, <1>3, <2>1, NamesDiffer DEF OpenFile, console, history
  <1>4. ASSUME NEW p \in Writers, Write(p) PROVE ArchivesApart'
    BY <1>2, <1>4, WriteEffect DEF Write, console
  <1>5. ASSUME NEW p \in Writers, RotateForDay(p) PROVE ArchivesApart'
    <2>1. UNCHANGED <<archive, archives>>
      BY <1>5 DEF RotateForDay
    <2>2. CASE UNCHANGED fs
      BY <1>2, <2>1, <2>2
    <2>3. CASE ~UNCHANGED fs
      <3> DEFINE to == DayFile(rotate[p].closes)
                 swept == Swept(rotate[p].closes)
      <3>1. rotate[p].closes \in Nat /\ Exists(Live) /\ Rename(to, swept)
        BY <1>5, <2>3, RotateEffect
      <3>2. to \in Names /\ to # Live /\ swept \in SUBSET Names /\ to \notin swept
        BY <1>1, <3>1, SweptEffect, NamesDiffer
      <3> HIDE DEF swept, to
      <3>3. DOMAIN fs' = ((DOMAIN fs \cup {to}) \ swept) \ {Live}
        BY <3>1, <3>2, RenameEffect
      <3>4. \A k \in Nat : ArchiveFile(k) # to
        BY DEF to, ArchiveFile, DayFile
      <3>5. QED
        BY <1>2, <2>1, <3>3, <3>4
    <2>4. QED
      BY <2>2, <2>3
  <1>6. ASSUME NEW p \in Writers, Archive(p) PROVE ArchivesApart'
    <2>1. /\ archive[p].is = "waiting" /\ archive[p].stamp \in Nat
          /\ archive' = [archive EXCEPT ![p] = [is |-> "done"]] /\ archives' = archives
      BY <1>1, <1>6, ArchiveEffect DEF Archive, history
    <2>2. \A q \in Writers : archive'[q].is = "waiting" => q # p /\ archive'[q] = archive[q]
      BY <1>1, <2>1 DEF TrailTypeOK
    <2>3. CASE UNCHANGED fs
      BY <1>2, <2>1, <2>2, <2>3
    <2>4. CASE ~UNCHANGED fs
      <3>1. Exists(Live) /\ Rename(ArchiveFile(archive[p].stamp), {})
        BY <1>1, <1>6, <2>4, ArchiveEffect
      <3>2. DOMAIN fs' = ((DOMAIN fs \cup {ArchiveFile(archive[p].stamp)}) \ {}) \ {Live}
        <4> DEFINE to == ArchiveFile(archive[p].stamp)
        <4>1. to \in Names /\ to # Live
          BY <2>1, NamesDiffer
        <4> HIDE DEF to
        <4>2. QED
          BY <3>1, <4>1, RenameEffect DEF to
      <3>3. \A k \in Nat : ArchiveFile(k) \in DOMAIN fs' => ArchiveFile(k) \in DOMAIN fs \/ k = archive[p].stamp
        BY <3>2 DEF ArchiveFile
      <3>4. \A q \in Writers : archive[q].is = "waiting" => archive[q].stamp \in Nat
        BY <1>1, StampTyped
      <3>5. QED
        BY <2>1, <2>2, <3>3, <3>4 DEF ArchivesApart
    <2>5. QED
      BY <2>3, <2>4
  <1>7. ASSUME NEW p \in Writers, AskArchive(p) PROVE ArchivesApart'
    <2>1. /\ archives' = archives + 1 /\ fs' = fs
          /\ archive' = [archive EXCEPT ![p] = [is |-> "waiting", after |-> Tip, stamp |-> archives']]
      BY <1>7 DEF AskArchive
    <2>2. \A q \in Writers : archive[q].is = "waiting" => archive[q].stamp \in Nat
      BY <1>1, StampTyped
    <2>3. /\ archive'[p].stamp = archives + 1
          /\ \A q \in Writers \ {p} : archive'[q] = archive[q]
      BY <1>1, <2>1 DEF TrailTypeOK
    <2>4. ArchiveFile(archives + 1) \notin DOMAIN fs
      BY <1>1 DEF ArchivesApart
    <2>5. QED
      BY <1>1, <2>1, <2>2, <2>3, <2>4 DEF ArchivesApart
  <1>8. ASSUME NEW p \in Writers, Archived(p) \/ Restart(p) PROVE ArchivesApart'
    <2>1. UNCHANGED <<fs, archives>> /\ archive' = [archive EXCEPT ![p] = Off]
      BY <1>8 DEF Archived, Restart, history
    <2>2. \A q \in Writers : archive'[q] = archive[q] \/ archive'[q] = Off
      BY <1>1, <2>1 DEF TrailTypeOK
    <2>3. QED
      BY <1>2, <2>1, <2>2 DEF Off
  <1>9. ASSUME NEW p \in Writers, OnAudit(p) \/ Fails(p) \/ (\E k \in 1..Polls : Poll(p, k) \/ Show(p, k))
        PROVE  ArchivesApart'
    BY <1>2, <1>9 DEF OnAudit, Fails, Poll, Show, console, history
  <1>10. CASE Midnight \/ UNCHANGED trailVars
    BY <1>2, <1>10 DEF Midnight, trailVars, console, history
  <1>11. QED
    BY <1>3, <1>4, <1>5, <1>6, <1>7, <1>8, <1>9, <1>10, Bounds DEF TrailNext, Trail, Page

(* What is written is behind its process from then on.                     *)
LEMMA KeptNext ==
    ASSUME OrderInv, \A r \in kept : Past(r), [TrailNext]_trailVars
    PROVE  \A r \in kept' : Past(r)' /\ (r \in kept => emitted'[r] = emitted[r])
  <1>1. TrailTypeOK /\ TrailTypeOK' /\ Forward
    BY OrderNext, StepForward DEF OrderInv
  <1>2. \A r \in kept : Past(r)' /\ emitted'[r] = emitted[r]
    BY <1>1, PastStays
  <1>3. ASSUME NEW p \in Writers, Write(p), NEW new, new = Head(queue[p]) PROVE Past(new)'
    <2>1. new \in 1..Len(emitted) /\ emitted[new].by = p /\ emitted' = emitted
      BY <1>3, AppendEffect DEF Write
    <2>2. \A j \in 1..Len(queue'[p]) : new < queue'[p][j]
      BY <1>3, AppendQueues
    <2>3. QED
      BY <2>1, <2>2 DEF Past
  <1>4. kept' = kept \/ \E p \in Writers : Write(p) /\ kept' = kept \cup {Head(queue[p])}
    BY Bounds
       DEF TrailNext, Trail, Page, trailVars, OnAudit, OpenFile, Write, Fails, RotateForDay, Poll, Show,
           AskArchive, Archive, Archived, Restart, Midnight, history
  <1>5. CASE kept' = kept
    BY <1>2, <1>5
  <1>6. CASE \E p \in Writers : Write(p) /\ kept' = kept \cup {Head(queue[p])}
    <2>1. PICK p \in Writers : Write(p) /\ kept' = kept \cup {Head(queue[p])}
      BY <1>6
    <2>2. PICK new : new = Head(queue[p])
      OBVIOUS
    <2>3. Past(new)'
      BY <1>3, <2>1, <2>2
    <2>4. QED
      BY <1>2, <2>1, <2>2, <2>3
  <1>7. QED
    BY <1>4, <1>5, <1>6

(* A record stays where it is when each file that goes is still there under *)
(* some name, or had to go.                                                *)
LEMMA StillSomewhere ==
    ASSUME OrderInv, LossInv, TrailTypeOK', NothingLost, [TrailNext]_trailVars, today <= today',
           \A n \in DOMAIN fs :
             \/ \E m \in DOMAIN fs' : \A r : Contains(fs[n], r) => Contains(fs'[m], r)
             \/ \A r \in kept : Contains(fs[n], r) => today' - emitted[r].day > Retain,
           NEW r \in kept
    PROVE  IsSomewhere(r)'
  <1>1. /\ today \in Nat /\ today' \in Nat /\ Retain \in Nat /\ emitted'[r] = emitted[r]
        /\ r \in 1..Len(emitted) /\ emitted[r].day \in Nat
    <2>1. Past(r) /\ DaysInOrder
      BY DEF LossInv
    <2>2. Past(r) => emitted'[r] = emitted[r]
      BY StepForward, PastStays DEF OrderInv
    <2>3. QED
      BY <2>1, <2>2, Bounds DEF OrderInv, TrailTypeOK, Past, DaysInOrder
  <1>2. CASE today - emitted[r].day > Retain
    <2>1. today' - emitted'[r].day > Retain
      BY <1>1, <1>2
    <2>2. QED
      BY <2>1 DEF IsSomewhere
  <1>3. CASE \E n \in DOMAIN fs : Contains(fs[n], r)
    <2>1. (\E m \in DOMAIN fs' : Contains(fs'[m], r)) \/ today' - emitted'[r].day > Retain
      BY <1>1, <1>3
    <2>2. QED
      BY <2>1 DEF IsSomewhere, Contains
  <1>4. QED
    BY <1>2, <1>3 DEF NothingLost, IsSomewhere

(* Steps that change no file.                                              *)
LEMMA QuietLoss ==
    ASSUME OrderInv, LossInv, TrailTypeOK', NothingLost, [TrailNext]_trailVars, UNCHANGED <<fs, kept, closed>>,
           today <= today', \A p \in Writers : OpenInTime(p)'
    PROVE  NothingLost'
  <1>1. \A r \in kept : IsSomewhere(r)'
    <2>1. \A n \in DOMAIN fs : \E m \in DOMAIN fs' : \A r : Contains(fs[n], r) => Contains(fs'[m], r)
      OBVIOUS
    <2>2. QED
      BY <2>1, StillSomewhere
  <1>2. ASSUME NEW d \in Nat, DayFile(d) \in DOMAIN fs' PROVE DayIsOver(d)'
    <2>1. DayIsOver(d) /\ FileInOrder(DayFile(d)) /\ Forward
      BY <1>2, StepForward DEF NothingLost, OrderInv
    <2>2. \A i \in 1..Len(fs[DayFile(d)]) : emitted'[fs[DayFile(d)][i]] = emitted[fs[DayFile(d)][i]]
      BY <2>1 DEF FileInOrder, Past, Forward
    <2>3. QED
      BY <2>1, <2>2 DEF DayIsOver
  <1>3. QED
    BY <1>1, <1>2 DEF NothingLost

(* A file is opened.                                                       *)
LEMMA OpenLoss ==
    ASSUME OrderInv, LossInv, NothingLost, NEW p \in Writers, OpenFile(p)
    PROVE  NothingLost'
  <1>1. TrailTypeOK /\ TrailTypeOK' /\ today \in Nat /\ UNCHANGED <<today, kept, emitted, closed>>
    BY AppendTyped DEF OrderInv, OpenFile, history, TrailTypeOK
  <1>2. /\ fd' = [fd EXCEPT ![p] = Live] /\ DOMAIN fs' = DOMAIN fs \cup {Live}
        /\ \A n \in DOMAIN fs : fs'[n] = fs[n]
    BY <1>1, OpenEffect
  <1>3. \A r \in kept : IsSomewhere(r)'
    <2>1. \A n \in DOMAIN fs : \E m \in DOMAIN fs' : \A r : Contains(fs[n], r) => Contains(fs'[m], r)
      BY <1>2
    <2>2. QED
      BY <1>1, <2>1, StillSomewhere DEF TrailNext, Trail
  <1>4. ASSUME NEW q \in Writers PROVE OpenInTime(q)'
    <2>1. fd'[q] = Live \/ fd'[q] = fd[q]
      BY <1>1, <1>2 DEF TrailTypeOK
    <2>2. Live # Gone
      BY DEF Live, Gone
    <2>3. QED
      BY <1>1, <2>1, <2>2, NamesDiffer DEF NothingLost, OpenInTime
  <1>5. ASSUME NEW d \in Nat, DayFile(d) \in DOMAIN fs' PROVE DayIsOver(d)'
    BY <1>1, <1>2, <1>5, NamesDiffer DEF NothingLost, DayIsOver
  <1>6. QED
    BY <1>1, <1>3, <1>4, <1>5 DEF NothingLost

(* A record is written.                                                    *)
LEMMA WriteLoss ==
    ASSUME OrderInv, LossInv, NothingLost, NEW p \in Writers, Write(p)
    PROVE  NothingLost'
  <1>0. PICK new : new = Head(queue[p])
    OBVIOUS
  <1>1. /\ TrailTypeOK /\ TrailTypeOK' /\ today \in Nat /\ UNCHANGED <<today, emitted, closed>>
        /\ new \in 1..Len(emitted) /\ fd[p] \in DOMAIN fs
    BY <1>0, AppendTyped, AppendEffect, WriteEffect DEF OrderInv, Write, TrailTypeOK, NothingLost, OpenInTime
  <1>2. /\ fd' = [fd EXCEPT ![p] = None] /\ DOMAIN fs' = DOMAIN fs /\ kept' = kept \cup {new}
        /\ \A n \in DOMAIN fs : n # fd[p] => fs'[n] = fs[n]
        /\ fs'[fd[p]] = Append(fs[fd[p]], new)
        /\ \A n \in DOMAIN fs : fs[n] \in Seq(Nat) /\ Len(fs[n]) \in Nat
    BY <1>0, <1>1, AppendEffect, WriteEffect, LenProperties DEF TrailTypeOK, FilesTyped
  <1>3. /\ Len(fs'[fd[p]]) = Len(fs[fd[p]]) + 1 /\ fs'[fd[p]][Len(fs[fd[p]]) + 1] = new
        /\ \A i \in 1..Len(fs[fd[p]]) : fs'[fd[p]][i] = fs[fd[p]][i]
    BY <1>1, <1>2
  <1>4. ASSUME NEW r \in kept' PROVE IsSomewhere(r)'
    <2>1. CASE r \in kept
      <3>1. ASSUME NEW n \in DOMAIN fs, NEW x, Contains(fs[n], x) PROVE Contains(fs'[n], x)
        <4>1. PICK i \in 1..Len(fs[n]) : fs[n][i] = x
          BY <3>1 DEF Contains
        <4>2. CASE n = fd[p]
          <5>1. i \in 1..Len(fs'[fd[p]]) /\ fs'[fd[p]][i] = x
            BY <1>2, <1>3, <4>1, <4>2
          <5>2. QED
            BY <4>2, <5>1 DEF Contains
        <4>3. CASE n # fd[p]
          BY <1>2, <3>1, <4>3
        <4>4. QED
          BY <4>2, <4>3
      <3>2. \A n \in DOMAIN fs : \E m \in DOMAIN fs' : \A x : Contains(fs[n], x) => Contains(fs'[m], x)
        BY <1>2, <3>1
      <3>3. QED
        BY <1>1, <2>1, <3>2, StillSomewhere DEF TrailNext, Trail
    <2>2. CASE r = new
      <3>1. Contains(fs'[fd[p]], new)
        BY <1>1, <1>2, <1>3 DEF Contains
      <3>2. \E n \in DOMAIN fs' : Contains(fs'[n], r)
        BY <1>1, <1>2, <2>2, <3>1
      <3>3. QED
        BY <3>2 DEF IsSomewhere, Contains
    <2>3. QED
      BY <1>2, <2>1, <2>2
  <1>5. ASSUME NEW q \in Writers PROVE OpenInTime(q)'
    <2>1. fd'[q] = None \/ fd'[q] = fd[q]
      BY <1>1, <1>2 DEF TrailTypeOK
    <2>2. OpenInTime(q) /\ None # Gone /\ \A d \in Nat : None # DayFile(d)
      BY <1>1, NamesDiffer DEF NothingLost
    <2>3. today' = today
      BY <1>1
    <2>4. QED
      BY <2>1, <2>2, <2>3 DEF OpenInTime
  <1>6. ASSUME NEW d \in Nat, DayFile(d) \in DOMAIN fs' PROVE DayIsOver(d)'
    <2>1. DayIsOver(d) /\ (fd[p] = DayFile(d) => today <= d + 1)
      BY <1>2, <1>6 DEF NothingLost, OpenInTime
    <2>2. emitted[new].day <= today /\ emitted[new].day \in Nat
      BY <1>1 DEF LossInv, DaysInOrder
    <2>3. CASE fd[p] = DayFile(d)
      <3>1. ASSUME NEW i \in 1..Len(fs'[DayFile(d)]) PROVE emitted[fs'[DayFile(d)][i]].day <= d + 1
        <4>1. i \in 1..Len(fs[DayFile(d)]) \/ i = Len(fs[DayFile(d)]) + 1
          BY <1>1, <1>2, <1>3, <2>3
        <4>2. CASE i \in 1..Len(fs[DayFile(d)])
          BY <1>3, <2>1, <2>3, <4>2 DEF DayIsOver
        <4>3. CASE i = Len(fs[DayFile(d)]) + 1
          <5>1. fs'[DayFile(d)][i] = new
            BY <1>3, <2>3, <4>3
          <5>2. QED
            BY <1>1, <2>1, <2>2, <2>3, <5>1
        <4>4. QED
          BY <4>1, <4>2, <4>3
      <3>2. QED
        BY <1>1, <2>1, <3>1 DEF DayIsOver
    <2>4. CASE fd[p] # DayFile(d)
      BY <1>1, <1>2, <1>6, <2>1, <2>4 DEF DayIsOver
    <2>5. QED
      BY <2>3, <2>4
  <1>7. QED
    BY <1>4, <1>5, <1>6 DEF NothingLost

(* A day is rotated, in time: its file is new, and the sweep takes only     *)
(* what is over the window.                                                *)
LEMMA RotateLoss ==
    ASSUME OrderInv, LossInv, NothingLost, NEW p \in Writers, RotateForDay(p), ~late'
    PROVE  NothingLost'
  <1>1. /\ TrailTypeOK /\ TrailTypeOK' /\ today \in Nat /\ closed \in Nat
        /\ UNCHANGED <<today, emitted, kept>>
    BY RotateTyped DEF OrderInv, RotateForDay, TrailTypeOK
  <1>2. CASE UNCHANGED <<fs, fd, closed>>
    <2>1. \A q \in Writers : OpenInTime(q)'
      BY <1>1, <1>2 DEF NothingLost, OpenInTime
    <2>2. QED
      BY <1>1, <1>2, <2>1, QuietLoss DEF TrailNext, Trail
  <1>3. CASE ~UNCHANGED <<fs, fd, closed>>
    <2> DEFINE closes == rotate[p].closes
               to == DayFile(closes)
               swept == Swept(closes)
    <2>1. /\ closes \in Nat /\ Exists(Live) /\ Rename(to, swept)
          /\ late' = (late \/ closes <= closed \/ closes + 1 < today) /\ closed' = closes
          /\ closes < today
      BY <1>3, RotateEffect DEF LossInv, DaysInOrder
    <2>2. closes > closed /\ today = closes + 1
      <3>1. ~(closes <= closed) /\ ~(closes + 1 < today)
        BY <2>1, Zenon
      <3>2. QED
        BY <1>1, <2>1, <3>1
    <2>3. /\ to \in Names /\ to # Live /\ swept \in SUBSET Names /\ to \notin swept
          /\ \A n \in swept :
               n[1] = "day" /\ n[2] \in Nat /\ n[2] < closes /\ closes - n[2] > Retain
      BY <1>1, <2>1, SweptEffect, NamesDiffer
    <2>4. \A n \in swept : n = DayFile(n[2])
      BY <2>3, NamesDiffer
    <2>5. to \notin DOMAIN fs
      BY <1>1, <2>1, <2>2 DEF NothingLost, DayIsOver
    <2> HIDE DEF to, swept
    <2>6. /\ DOMAIN fs' = ((DOMAIN fs \cup {to}) \ swept) \ {Live}
          /\ to \in DOMAIN fs' /\ fs'[to] = fs[Live] /\ Live \in DOMAIN fs
          /\ \A n \in DOMAIN fs' : n # to => n \in DOMAIN fs /\ n # Live /\ fs'[n] = fs[n]
          /\ \A q \in Writers :
               fd'[q] = IF fd[q] = Live THEN to ELSE IF fd[q] \in {to} \cup swept THEN Gone ELSE fd[q]
      BY <2>1, <2>3, RenameEffect
    <2>7. ASSUME NEW q \in Writers PROVE OpenInTime(q)'
      <3>1. /\ fd[q] # Gone /\ fd[q] \in DOMAIN fs \cup {None}
            /\ \A d \in Nat : fd[q] = DayFile(d) => today <= d + 1
        BY DEF OrderInv, NothingLost, OpenInTime
      <3>2. fd[q] \notin swept
        <4>1. ASSUME fd[q] \in swept PROVE FALSE
          <5>1. fd[q][2] \in Nat /\ fd[q] = DayFile(fd[q][2]) /\ fd[q][2] < closes
            BY <2>3, <2>4, <4>1
          <5>2. today <= fd[q][2] + 1
            BY <3>1, <5>1
          <5>3. QED
            BY <2>1, <2>2, <5>1, <5>2
        <4>2. QED
          BY <4>1
      <3>3. fd[q] # to
        BY <2>3, <2>5, <3>1, NamesDiffer
      <3>4. fd'[q] = to \/ fd'[q] = fd[q]
        BY <2>6, <3>2, <3>3
      <3>5. \A d \in Nat : to = DayFile(d) => d = closes
        BY DEF to, DayFile
      <3>6. QED
        BY <1>1, <2>1, <2>2, <2>3, <3>1, <3>4, <3>5, NamesDiffer DEF OpenInTime
    <2>8. \A r \in kept : IsSomewhere(r)'
      <3>1. ASSUME NEW n \in DOMAIN fs
            PROVE  \/ \E m \in DOMAIN fs' : \A r : Contains(fs[n], r) => Contains(fs'[m], r)
                   \/ \A r \in kept : Contains(fs[n], r) => today' - emitted[r].day > Retain
        <4>1. CASE n = Live
          BY <2>6, <4>1
        <4>2. CASE n # Live /\ n \notin swept
          <5>1. n \in DOMAIN fs' /\ n # to
            BY <2>5, <2>6, <4>2
          <5>2. QED
            BY <2>6, <5>1
        <4>3. CASE n \in swept
          <5>1. n = DayFile(n[2]) /\ n[2] \in Nat /\ n[2] < closes /\ closes - n[2] > Retain
            BY <2>3, <2>4, <4>3
          <5>2. DayIsOver(n[2])
            BY <5>1 DEF NothingLost
          <5>3. ASSUME NEW r \in kept, Contains(fs[n], r) PROVE today' - emitted[r].day > Retain
            <6>1. emitted[r].day <= n[2] + 1
              BY <5>1, <5>2, <5>3 DEF DayIsOver, Contains
            <6>2. emitted[r].day \in Nat
              BY <5>3 DEF LossInv, Past, DaysInOrder
            <6>3. QED
              BY <1>1, <2>1, <2>2, <5>1, <6>1, <6>2, Bounds
          <5>4. QED
            BY <5>3
        <4>4. QED
          BY <4>1, <4>2, <4>3
      <3>2. today <= today'
        BY <1>1
      <3>3. [TrailNext]_trailVars
        BY DEF TrailNext, Trail
      <3>4. QED
        BY <1>1, <3>1, <3>2, <3>3, StillSomewhere
    <2>9. ASSUME NEW d \in Nat, DayFile(d) \in DOMAIN fs' PROVE DayIsOver(d)'
      <3>1. CASE DayFile(d) = to
        <4>1. d = closes
          BY <3>1 DEF to, DayFile
        <4>2. \A i \in 1..Len(fs[Live]) : emitted[fs[Live][i]].day <= today
          BY <2>6 DEF OrderInv, FileInOrder, Past, LossInv, DaysInOrder
        <4>3. d + 1 = today /\ d = closed'
          BY <2>1, <2>2, <4>1
        <4>4. d <= closed'
          BY <4>3
        <4>5. QED
          BY <1>1, <2>6, <3>1, <4>2, <4>3, <4>4 DEF DayIsOver
      <3>2. CASE DayFile(d) # to
        <4>1. DayFile(d) \in DOMAIN fs /\ fs'[DayFile(d)] = fs[DayFile(d)]
          BY <1>3, <2>6, <2>9, <3>2
        <4>2. DayIsOver(d) /\ d <= closes
          BY <1>1, <2>1, <2>2, <4>1 DEF NothingLost, DayIsOver
        <4>3. QED
          BY <1>1, <2>1, <4>1, <4>2 DEF DayIsOver
      <3>3. QED
        BY <3>1, <3>2
    <2>10. QED
      BY <1>1, <2>7, <2>8, <2>9 DEF NothingLost
  <1>4. QED
    BY <1>2, <1>3

(* A file is archived, under a name of its own.                            *)
LEMMA ArchiveLoss ==
    ASSUME OrderInv, LossInv, NothingLost, NEW p \in Watched, Archive(p)
    PROVE  NothingLost'
  <1>0. p \in Writers /\ [TrailNext]_trailVars
    BY Bounds DEF TrailNext, Page
  <1>1. /\ TrailTypeOK /\ TrailTypeOK' /\ today \in Nat
        /\ UNCHANGED <<today, emitted, kept, closed>>
    BY <1>0, ArchiveTyped DEF OrderInv, Archive, history, TrailTypeOK
  <1>2. CASE UNCHANGED <<fs, fd>>
    <2>1. \A q \in Writers : OpenInTime(q)'
      BY <1>1, <1>2 DEF NothingLost, OpenInTime
    <2>2. QED
      BY <1>1, <1>2, <2>1, <1>0, QuietLoss
  <1>3. CASE ~UNCHANGED <<fs, fd>>
    <2> DEFINE to == ArchiveFile(archive[p].stamp)
    <2>1. archive[p].is = "waiting" /\ archive[p].stamp \in Nat /\ Exists(Live) /\ Rename(to, {})
      BY <1>0, <1>1, <1>3, ArchiveEffect
    <2>2. to \in Names /\ to # Live
      BY <2>1, NamesDiffer
    <2>3. to \notin DOMAIN fs
      BY <1>0, <2>1 DEF LossInv, ArchivesApart
    <2>4. \A d \in Nat : to # DayFile(d)
      BY DEF DayFile, ArchiveFile
    <2> HIDE DEF to
    <2>5. /\ DOMAIN fs' = ((DOMAIN fs \cup {to}) \ {}) \ {Live}
          /\ to \in DOMAIN fs' /\ fs'[to] = fs[Live] /\ Live \in DOMAIN fs
          /\ \A n \in DOMAIN fs' : n # to => n \in DOMAIN fs /\ n # Live /\ fs'[n] = fs[n]
          /\ \A q \in Writers :
               fd'[q] = IF fd[q] = Live THEN to ELSE IF fd[q] \in {to} \cup {} THEN Gone ELSE fd[q]
      BY <2>1, <2>2, RenameEffect
    <2>6. ASSUME NEW q \in Writers PROVE OpenInTime(q)'
      <3>1. /\ fd[q] # Gone /\ fd[q] \in DOMAIN fs \cup {None}
            /\ \A d \in Nat : fd[q] = DayFile(d) => today <= d + 1
        BY DEF OrderInv, NothingLost, OpenInTime
      <3>2. fd'[q] = to \/ fd'[q] = fd[q]
        BY <2>2, <2>3, <2>5, <3>1, NamesDiffer
      <3>3. QED
        BY <1>1, <2>2, <2>4, <3>1, <3>2, NamesDiffer DEF OpenInTime
    <2>7. \A r \in kept : IsSomewhere(r)'
      <3>1. \A n \in DOMAIN fs : \E m \in DOMAIN fs' : \A r : Contains(fs[n], r) => Contains(fs'[m], r)
        <4>1. ASSUME NEW n \in DOMAIN fs, n # Live PROVE n \in DOMAIN fs' /\ fs'[n] = fs[n]
          BY <2>3, <2>5, <4>1
        <4>2. QED
          BY <2>5, <4>1
      <3>2. today <= today'
        BY <1>1
      <3>3. QED
        BY <1>1, <3>1, <3>2, <1>0, StillSomewhere
    <2>8. ASSUME NEW d \in Nat, DayFile(d) \in DOMAIN fs' PROVE DayIsOver(d)'
      <3>1. DayFile(d) \in DOMAIN fs /\ fs'[DayFile(d)] = fs[DayFile(d)]
        BY <2>4, <2>5, <2>8
      <3>2. QED
        BY <1>1, <3>1 DEF NothingLost, DayIsOver
    <2>9. QED
      BY <1>1, <2>6, <2>7, <2>8 DEF NothingLost
  <1>4. QED
    BY <1>2, <1>3

(* Nothing is lost, while every rotation is in time.                       *)
LEMMA LossNext ==
    ASSUME OrderInv, LossInv, [TrailNext]_trailVars
    PROVE  LossInv'
  <1>1. /\ TrailTypeOK /\ TrailTypeOK' /\ DaysInOrder' /\ ArchivesApart' /\ \A r \in kept' : Past(r)'
        /\ today \in Nat
    BY OrderNext, DaysNext, ArchivesNext, KeptNext DEF LossInv, OrderInv, TrailTypeOK
  <1> SUFFICES ASSUME ~late' PROVE NothingLost'
    BY <1>1 DEF LossInv
  <1>2. ~late
    BY Bounds, Zenon
       DEF TrailNext, Trail, Page, trailVars, OnAudit, OpenFile, Write, Fails, RotateForDay, Poll, Show,
           AskArchive, Archive, Archived, Restart, Midnight, history
  <1>3. NothingLost
    BY <1>2 DEF LossInv
  <1>4. CASE /\ UNCHANGED <<fs, kept, closed, today>>
             /\ \A q \in Writers : fd'[q] = fd[q] \/ fd'[q] = None
    <2>1. ASSUME NEW q \in Writers PROVE OpenInTime(q)'
      BY <1>1, <1>3, <1>4, NamesDiffer DEF NothingLost, OpenInTime
    <2>2. QED
      BY <1>1, <1>3, <1>4, <2>1, QuietLoss
  <1>5. ASSUME NEW p \in Writers,
               \/ OnAudit(p) \/ Fails(p) \/ (\E k \in 1..Polls : Poll(p, k) \/ Show(p, k))
               \/ AskArchive(p) \/ Archived(p) \/ Restart(p)
        PROVE  NothingLost'
    <2>1. UNCHANGED <<fs, kept, closed, today>>
      BY <1>5 DEF OnAudit, Fails, Poll, Show, AskArchive, Archived, Restart, console, history
    <2>2. fd' = fd \/ fd' = [fd EXCEPT ![p] = None]
      BY <1>5 DEF OnAudit, Fails, Poll, Show, AskArchive, Archived, Restart, appends
    <2>3. \A q \in Writers : fd'[q] = fd[q] \/ fd'[q] = None
      BY <1>1, <2>2 DEF TrailTypeOK
    <2>4. QED
      BY <1>4, <2>1, <2>3
  <1>6. CASE Midnight
    <2>1. /\ today' = today + 1 /\ UNCHANGED <<fs, kept, closed, fd>>
          /\ \A p \in Writers : fd[p] \in {None, Live}
      BY <1>6 DEF Midnight, appends, history
    <2>2. ASSUME NEW q \in Writers PROVE OpenInTime(q)'
      <3>1. None # Gone /\ Live # Gone
        BY DEF None, Live, Gone
      <3>2. QED
        BY <2>1, <3>1, NamesDiffer DEF OpenInTime
    <2>3. QED
      BY <1>1, <1>3, <2>1, <2>2, QuietLoss
  <1>7. CASE UNCHANGED trailVars
    BY <1>4, <1>7 DEF trailVars
  <1>8. QED
    BY <1>3, <1>5, <1>6, <1>7, OpenLoss, WriteLoss, RotateLoss, ArchiveLoss, Bounds
       DEF TrailNext, Trail, Page

(* At the start yesterday's record is in yesterday's file.                  *)
LEMMA LossInit ==
    ASSUME TrailInit
    PROVE  LossInv
  <1>1. /\ today = 1 /\ DOMAIN fs = {DayFile(0)} /\ fs[DayFile(0)] = <<1>>
        /\ \A p \in Writers : day[p] = 1 /\ queue[p] = <<>> /\ fd[p] = None /\ rotate[p] = Off /\ archive[p] = Off
        /\ emitted = <<[by |-> "before", day |-> 0]>> /\ kept = {1} /\ closed = 0 /\ archives = 0
    BY DEF TrailInit
  <1>2. Len(emitted) = 1 /\ emitted[1] = [by |-> "before", day |-> 0] /\ Len(<<1>>) = 1 /\ <<1>>[1] = 1
    BY <1>1
  <1>3. DaysInOrder
    BY <1>1, <1>2 DEF DaysInOrder, Off
  <1>4. ArchivesApart
    BY <1>1 DEF ArchivesApart, Off, ArchiveFile, DayFile
  <1>5. \A r \in kept : Past(r)
    BY <1>1, <1>2 DEF Past
  <1>6. \A p \in Writers : OpenInTime(p)
    BY <1>1, NamesDiffer DEF OpenInTime
  <1>7. ASSUME NEW d \in Nat, DayFile(d) \in DOMAIN fs PROVE DayIsOver(d)
    <2>1. d = 0
      BY <1>1, <1>7 DEF DayFile
    <2>2. QED
      BY <1>1, <1>2, <2>1 DEF DayIsOver
  <1>8. \A r \in kept : IsSomewhere(r)
    <2>1. Contains(fs[DayFile(0)], 1)
      BY <1>1, <1>2 DEF Contains
    <2>2. QED
      BY <1>1, <2>1 DEF IsSomewhere
  <1>9. QED
    BY <1>3, <1>4, <1>5, <1>6, <1>7, <1>8 DEF LossInv, NothingLost

(* A record that is in a file is in one file only.                         *)
LEMMA OneFile ==
    ASSUME OrderInv, LossInv, ~late, NEW r \in kept
    PROVE  \/ Cardinality(Holding(r)) = 1
           \/ Holding(r) = {} /\ today - emitted[r].day > Retain
  <1>1. \A n \in DOMAIN fs : n \in Holding(r) <=> Contains(fs[n], r)
    BY DEF Holding, Contains
  <1>2. \A n, m \in Holding(r) : n = m
    BY DEF OrderInv, FileInOrder, Contains, Holding
  <1>3. CASE Holding(r) = {}
    BY <1>1, <1>3 DEF LossInv, NothingLost, IsSomewhere
  <1>4. CASE Holding(r) # {}
    <2>1. PICK n : n \in Holding(r)
      BY <1>4
    <2>2. Holding(r) = {n}
      BY <1>2, <2>1
    <2>3. QED
      BY <2>2, FS_Singleton
  <1>5. QED
    BY <1>3, <1>4

(* The order of the trail and the whole of it, together.                   *)
THEOREM LossInvariance == TrailSpec => [](OrderInv /\ LossInv)
  <1>1. TrailInit => OrderInv /\ LossInv
    BY OrderInit, LossInit
  <1>2. OrderInv /\ LossInv /\ [TrailNext]_trailVars => OrderInv' /\ LossInv'
    BY OrderNext, LossNext
  <1>3. QED
    BY <1>1, <1>2, PTL DEF TrailSpec

(* A record that was written is in exactly one file, or was swept when its *)
(* day was over the window, while every rotation closes a day that is     *)
(* newer than the last one and is yesterday: audit-store.ts:308-386.      *)
THEOREM KeptHolds == TrailSpec => []KeptUnlessLate
  <1>1. OrderInv /\ LossInv => KeptUnlessLate
    BY OneFile DEF KeptUnlessLate
  <1>2. QED
    BY <1>1, LossInvariance, PTL
-----------------------------------------------------------------------------
(* The page.                                                               *)

(* What the tail of a console has not read of the file.                    *)
IsUnread(p, r) ==
  /\ Exists(Live)
  /\ \E j \in 1..Len(fs[Live]) : fs[Live][j] = r /\ (store[p].same => j > store[p].offset)

(* The offset lies in the file it is of.                                   *)
OffsetIsOf(p) ==
  store[p].same /\ store[p].offset > 0 => Exists(Live) /\ store[p].offset <= Len(fs[Live])

(* S is all that a console has read: no record twice, none that it will    *)
(* read again, and the ring is the end of it.                              *)
IsStream(p, S) ==
  /\ \A i, j \in 1..Len(S) : S[i] = S[j] => i = j
  /\ \A i \in 1..Len(S) : Past(S[i]) /\ ~IsUnread(p, S[i])
  /\ Len(S) = store[p].dropped + Len(store[p].ring)
  /\ \A i \in 1..Len(store[p].ring) : store[p].ring[i] = S[store[p].dropped + i]

(* An answer is what follows the cursor in S, or, if that has left the     *)
(* ring, what follows records that have left it.                           *)
AskIsPart(since, next, items, S, dropped) ==
  /\ items = <<>> => next = since
  /\ items # <<>> =>
       \E first \in Nat :
         /\ next = first + Len(items) /\ next <= Len(S)
         /\ first = since \/ (since <= first /\ first <= dropped)
         /\ \A i \in 1..Len(items) : items[i] = S[first + i]

(* A page shows records of S before its cursor, and all of those that have  *)
(* not left the ring.                                                      *)
PageIsPart(seen, shown, S, dropped) ==
  /\ seen <= Len(S)
  /\ \A i, j \in 1..Len(shown) : shown[i] = shown[j] => i = j
  /\ \A i \in 1..Len(shown) : \E j \in 1..seen : shown[i] = S[j]
  /\ \A j \in 1..seen : j > dropped => \E i \in 1..Len(shown) : shown[i] = S[j]

Follows(p, S) ==
  /\ S \in Seq(Nat) /\ IsStream(p, S)
  /\ \A k \in 1..Polls : feed[p].asks[k].is = "answered" /\ ~feed[p].asks[k].stale =>
       AskIsPart(feed[p].asks[k].since, feed[p].asks[k].next, feed[p].asks[k].items, S, store[p].dropped)
  /\ ~feed[p].crossed /\ archive[p].is # "done" =>
       PageIsPart(feed[p].seen, feed[p].shown, S, store[p].dropped)

Followed(p) == OffsetIsOf(p) /\ \E S \in Seq(Nat) : Follows(p, S)

PageInv == \A p \in Writers : Followed(p)

(* A console's tail, ring and page have their types.                       *)
LEMMA PageTyped ==
    ASSUME TrailTypeOK, NEW p \in Writers
    PROVE  /\ store[p].offset \in Nat /\ store[p].dropped \in Nat /\ store[p].same \in BOOLEAN
           /\ store[p].ring \in Seq(Nat) /\ Len(store[p].ring) \in Nat
           /\ feed[p].seen \in Nat /\ feed[p].shown \in Seq(Nat) /\ Len(feed[p].shown) \in Nat
           /\ feed[p].crossed \in BOOLEAN
           /\ \A k \in 1..Polls : feed[p].asks[k].is = "answered" =>
                /\ feed[p].asks[k].since \in Nat /\ feed[p].asks[k].next \in Nat
                /\ feed[p].asks[k].items \in Seq(Nat) /\ Len(feed[p].asks[k].items) \in Nat
                /\ feed[p].asks[k].stale \in BOOLEAN
  <1>1. store[p] \in StoreType /\ feed[p] \in FeedType
    BY DEF TrailTypeOK
  <1>2. ASSUME NEW k \in 1..Polls, feed[p].asks[k].is = "answered"
        PROVE  feed[p].asks[k] \in [is : {"answered"}, since : Nat, items : Seq(Nat), stale : BOOLEAN, next : Nat]
    <2>1. feed[p].asks[k] \in AskType
      BY <1>1 DEF FeedType
    <2>2. QED
      BY <1>2, <2>1 DEF AskType, Free
  <1>3. QED
    BY <1>1, <1>2, LenProperties DEF StoreType, FeedType

(* A longer stream with more of it gone: answers and pages remain parts of  *)
(* it.                                                                     *)
LEMMA PartsStay ==
    ASSUME NEW S \in Seq(Nat), NEW T \in Seq(Nat), NEW d \in Nat, NEW e \in Nat, d <= e,
           Len(S) <= Len(T), \A i \in 1..Len(S) : T[i] = S[i]
    PROVE  /\ \A since, next \in Nat, items \in Seq(Nat) :
                AskIsPart(since, next, items, S, d) => AskIsPart(since, next, items, T, e)
           /\ \A seen \in Nat, shown \in Seq(Nat) :
                PageIsPart(seen, shown, S, d) => PageIsPart(seen, shown, T, e)
  <1>1. Len(S) \in Nat /\ Len(T) \in Nat
    BY LenProperties
  <1>2. ASSUME NEW since \in Nat, NEW next \in Nat, NEW items \in Seq(Nat), AskIsPart(since, next, items, S, d)
        PROVE  AskIsPart(since, next, items, T, e)
    <2>1. Len(items) \in Nat
      BY LenProperties
    <2>2. CASE items = <<>>
      BY <1>2, <2>2 DEF AskIsPart
    <2>3. CASE items # <<>>
      <3>1. PICK first \in Nat :
              /\ next = first + Len(items) /\ next <= Len(S)
              /\ first = since \/ (since <= first /\ first <= d)
              /\ \A i \in 1..Len(items) : items[i] = S[first + i]
        BY <1>2, <2>3 DEF AskIsPart
      <3>2. \A i \in 1..Len(items) : first + i \in 1..Len(S)
        BY <1>1, <2>1, <3>1
      <3>3. \A i \in 1..Len(items) : items[i] = T[first + i]
        BY <3>1, <3>2
      <3>4. next <= Len(T) /\ (first = since \/ (since <= first /\ first <= e))
        BY <1>1, <2>1, <3>1
      <3>5. QED
        BY <2>3, <3>1, <3>3, <3>4 DEF AskIsPart
    <2>4. QED
      BY <2>2, <2>3
  <1>3. ASSUME NEW seen \in Nat, NEW shown \in Seq(Nat), PageIsPart(seen, shown, S, d)
        PROVE  PageIsPart(seen, shown, T, e)
    <2>1. seen <= Len(T) /\ \A j \in 1..seen : T[j] = S[j] /\ (j > e => j > d)
      BY <1>1, <1>3 DEF PageIsPart
    <2>2. \A i \in 1..Len(shown) : \E j \in 1..seen : shown[i] = T[j]
      BY <1>3, <2>1 DEF PageIsPart
    <2>3. ASSUME NEW j \in 1..seen, j > e PROVE \E i \in 1..Len(shown) : shown[i] = T[j]
      <3>1. j > d /\ T[j] = S[j]
        BY <2>1, <2>3
      <3>2. QED
        BY <1>3, <3>1 DEF PageIsPart
    <2>4. QED
      BY <1>3, <2>1, <2>2, <2>3 DEF PageIsPart
  <1>4. QED
    BY <1>2, <1>3

(* Steps that leave a console and its page alone.                          *)
LEMMA FollowsOn ==
    ASSUME TrailTypeOK, TrailTypeOK', Forward, NEW p \in Writers, NEW S, Follows(p, S),
           store'[p].ring = store[p].ring, store'[p].dropped = store[p].dropped,
           feed'[p] = feed[p], archive'[p].is # "done" => archive[p].is # "done",
           \A i \in 1..Len(S) : ~IsUnread(p, S[i])'
    PROVE  Follows(p, S)'
  <1>1. \A i \in 1..Len(S) : Past(S[i])'
    BY PastStays DEF Follows, IsStream
  <1>2. IsStream(p, S)'
    BY <1>1 DEF Follows, IsStream
  <1>3. QED
    BY <1>2 DEF Follows

(* What a tail reads next: all that it has not read, or the end of it.     *)
LEMMA NewsAreUnread ==
    ASSUME OrderInv, NEW p \in Writers, OffsetIsOf(p), Exists(Live), NEW start \in StartsAt(p), start \in Nat
    PROVE  /\ start <= Len(fs[Live])
           /\ \A j \in 1..Len(fs[Live]) : j > start => IsUnread(p, fs[Live][j])
  <1>1. /\ Len(fs[Live]) \in Nat /\ store[p].offset \in Nat /\ store[p].same \in BOOLEAN
    BY PageTyped, LenProperties DEF OrderInv, TrailTypeOK, FilesTyped, Exists
  <1>2. start <= Len(fs[Live]) /\ (store[p].same => start = store[p].offset)
    <2>1. CASE store[p].offset = 0
      BY <1>1, <2>1 DEF StartsAt
    <2>2. CASE store[p].offset # 0 /\ store[p].same
      BY <1>1, <2>2 DEF StartsAt, OffsetIsOf
    <2>3. CASE store[p].offset # 0 /\ ~store[p].same
      BY <1>1, <2>3 DEF StartsAt
    <2>4. QED
      BY <2>1, <2>2, <2>3
  <1>3. QED
    BY <1>2 DEF IsUnread

(* The live file holds no record twice.                                    *)
LEMMA NoneTwice ==
    ASSUME OrderInv, NEW n \in DOMAIN fs, NEW i \in 1..Len(fs[n]), NEW j \in 1..Len(fs[n]),
           fs[n][i] = fs[n][j]
    PROVE  i = j
  <1>1. Len(fs[n]) \in Nat /\ fs[n][i] \in Nat
    BY LenProperties, ElementOfSeq DEF OrderInv, TrailTypeOK, FilesTyped
  <1>2. ~(i < j) /\ ~(j < i)
    BY <1>1 DEF OrderInv, OrderKept
  <1>3. QED
    BY <1>1, <1>2

(* An element of two sequences, one behind the other, is of the one or of   *)
(* the other.                                                              *)
LEMMA ConcatAt ==
    ASSUME NEW s \in Seq(Nat), NEW t \in Seq(Nat), NEW j \in 1..(Len(s) + Len(t))
    PROVE  /\ j <= Len(s) => (s \o t)[j] = s[j]
           /\ ~(j <= Len(s)) => (s \o t)[j] = t[j - Len(s)]
  <1>1. (s \o t)[j] = IF j <= Len(s) THEN s[j] ELSE t[j - Len(s)]
    BY ConcatProperties
  <1>2. QED
    BY <1>1

(* A tail that reads makes the stream longer, and has read the whole file.  *)
LEMMA StreamGrows ==
    ASSUME OrderInv, NEW p \in Writers, OffsetIsOf(p), NEW S \in Seq(Nat), IsStream(p, S),
           NEW st \in Refreshed(p), st \in StoreType
    PROVE  /\ store[p].dropped <= st.dropped
           /\ IF Exists(Live) THEN st.same /\ st.offset = Len(fs[Live]) ELSE st = store[p]
           /\ \E T \in Seq(Nat) :
                /\ Len(S) <= Len(T) /\ \A i \in 1..Len(S) : T[i] = S[i]
                /\ \A i, j \in 1..Len(T) : T[i] = T[j] => i = j
                /\ \A i \in 1..Len(T) : Past(T[i])
                /\ Len(T) = st.dropped + Len(st.ring)
                /\ \A i \in 1..Len(st.ring) : st.ring[i] = T[st.dropped + i]
                /\ ~Exists(Live) => T = S
  <1> DEFINE ring == store[p].ring
             dropped == store[p].dropped
  <1>1. /\ TrailTypeOK /\ ring \in Seq(Nat) /\ Len(ring) \in Nat /\ dropped \in Nat /\ Len(S) \in Nat
    BY PageTyped, LenProperties DEF OrderInv
  <1>2. CASE ~Exists(Live)
    <2>1. st = store[p]
      BY <1>2 DEF Refreshed
    <2>2. QED
      BY <1>1, <1>2, <2>1 DEF IsStream
  <1>3. CASE Exists(Live)
    <2>1. PICK start \in StartsAt(p), news \in Seq(Nat), over \in Nat :
             /\ start \in Nat
             /\ \A i \in 1..Len(news) :
                  start + i \in 1..Len(fs[Live]) /\ news[i] = fs[Live][start + i]
             /\ start <= Len(fs[Live]) => Len(news) = Len(fs[Live]) - start
             /\ over <= Len(store[p].ring) + Len(news)
             /\ st.same = TRUE /\ st.offset = Len(fs[Live])
             /\ st.dropped = store[p].dropped + over
             /\ Len(st.ring) = Len(store[p].ring) + Len(news) - over
             /\ \A i \in 1..Len(st.ring) : st.ring[i] = (store[p].ring \o news)[over + i]
             /\ st \in StoreType
      BY <1>1, <1>3, RefreshEffect, Zenon
    <2> DEFINE T == S \o news
    <2>2. Len(news) \in Nat /\ Live \in DOMAIN fs
      BY <1>3, LenProperties DEF Exists
    <2>3. /\ T \in Seq(Nat) /\ Len(T) = Len(S) + Len(news)
          /\ \A i \in 1..Len(S) : T[i] = S[i]
          /\ \A i \in 1..Len(news) : T[Len(S) + i] = news[i]
      <3>1. /\ T \in Seq(Nat) /\ Len(T) = Len(S) + Len(news)
            /\ \A i \in 1..(Len(S) + Len(news)) : T[i] = IF i <= Len(S) THEN S[i] ELSE news[i - Len(S)]
        BY <2>1, ConcatProperties
      <3> HIDE DEF T
      <3>2. \A i \in 1..Len(S) : i \in 1..(Len(S) + Len(news)) /\ i <= Len(S)
        BY <1>1, <2>2
      <3>3. \A i \in 1..Len(news) : /\ Len(S) + i \in 1..(Len(S) + Len(news)) /\ ~(Len(S) + i <= Len(S))
                                    /\ (Len(S) + i) - Len(S) = i
        BY <1>1, <2>2
      <3>4. QED
        BY <3>1, <3>2, <3>3
    <2> HIDE DEF T
    <2>4. \A i \in 1..Len(news) : IsUnread(p, news[i]) /\ Past(news[i])
      <3>1. ASSUME NEW i \in 1..Len(news)
            PROVE  start + i > start /\ start + i \in 1..Len(fs[Live]) /\ news[i] = fs[Live][start + i]
        BY <2>1, <2>2
      <3>2. \A j \in 1..Len(fs[Live]) : Past(fs[Live][j])
        BY <2>2 DEF OrderInv, FileInOrder
      <3>3. QED
        BY <1>3, <2>1, <3>1, <3>2, NewsAreUnread
    <2>5. \A i \in 1..Len(T) : i \in 1..Len(S) \/ \E k \in 1..Len(news) : i = Len(S) + k
      <3>1. ASSUME NEW i \in 1..Len(T), i \notin 1..Len(S) PROVE i - Len(S) \in 1..Len(news) /\ i = Len(S) + (i - Len(S))
        BY <1>1, <2>2, <2>3, <3>1
      <3>2. QED
        BY <3>1
    <2>6. ASSUME NEW i \in 1..Len(T) PROVE Past(T[i])
      <3>1. CASE i \in 1..Len(S)
        <4>1. T[i] = S[i] /\ Past(S[i])
          BY <2>3, <3>1 DEF IsStream
        <4>2. QED
          BY <4>1
      <3>2. CASE i \notin 1..Len(S)
        <4>1. PICK k \in 1..Len(news) : i = Len(S) + k
          BY <2>5, <3>2
        <4>2. T[i] = news[k] /\ Past(news[k])
          BY <2>3, <2>4, <4>1
        <4>3. QED
          BY <4>2
      <3>3. QED
        BY <3>1, <3>2
    <2>7. ASSUME NEW i \in 1..Len(T), NEW j \in 1..Len(T), T[i] = T[j] PROVE i = j
      <3>1. CASE i \in 1..Len(S) /\ j \in 1..Len(S)
        BY <2>3, <2>7, <3>1 DEF IsStream
      <3>2. ASSUME NEW a \in 1..Len(T), NEW b \in 1..Len(news), a \in 1..Len(S), T[a] = T[Len(S) + b] PROVE FALSE
        BY <2>3, <2>4, <3>2 DEF IsStream
      <3>3. ASSUME NEW a \in 1..Len(news), NEW b \in 1..Len(news), i = Len(S) + a, j = Len(S) + b
            PROVE  i = j
        <4>1. news[a] = news[b]
          BY <2>3, <2>7, <3>3
        <4>2. start + a = start + b
          BY <2>1, <2>2, <4>1, NoneTwice
        <4>3. QED
          BY <1>1, <2>1, <2>2, <3>3, <4>2
      <3>4. QED
        BY <2>5, <2>7, <3>1, <3>2, <3>3
    <2>8. /\ Len(T) = st.dropped + Len(st.ring)
          /\ \A i \in 1..Len(st.ring) : st.ring[i] = T[st.dropped + i]
      <3>1. st.ring \in Seq(Nat) /\ st.dropped = dropped + over
        BY <2>1 DEF StoreType
      <3>2. Len(S) = dropped + Len(ring) /\ \A i \in 1..Len(ring) : ring[i] = S[dropped + i]
        BY DEF IsStream
      <3>3. /\ over <= Len(ring) + Len(news) /\ Len(st.ring) = Len(ring) + Len(news) - over
            /\ \A i \in 1..Len(st.ring) : st.ring[i] = (ring \o news)[over + i]
        BY <2>1
      <3> HIDE DEF ring, dropped
      <3>4. Len(st.ring) \in Nat /\ Len(T) = st.dropped + Len(st.ring)
        <4>1. Len(ring) \in Nat /\ dropped \in Nat /\ Len(S) \in Nat /\ over \in Nat /\ Len(news) \in Nat
          BY <1>1, <2>1, <2>2
        <4>2. Len(st.ring) \in Nat
          BY <3>1, LenProperties
        <4>3. Len(T) = Len(S) + Len(news)
          BY <2>3
        <4>4. QED
          BY <3>1, <3>2, <3>3, <4>1, <4>2, <4>3
      <3>5. ASSUME NEW i \in 1..Len(st.ring) PROVE st.ring[i] = T[st.dropped + i]
        <4>1. /\ over + i \in 1..(Len(ring) + Len(news))
              /\ st.dropped + i \in 1..(Len(S) + Len(news))
              /\ st.ring[i] = (ring \o news)[over + i]
          <5>1. Len(ring) \in Nat /\ dropped \in Nat /\ Len(S) \in Nat /\ over \in Nat /\ Len(news) \in Nat
            BY <1>1, <2>1, <2>2
          <5>2. i \in 1..Len(st.ring) /\ Len(st.ring) \in Nat /\ Len(st.ring) = Len(ring) + Len(news) - over
            BY <3>3, <3>4
          <5>3. /\ over + i \in 1..(Len(ring) + Len(news))
                /\ st.dropped + i \in 1..(Len(S) + Len(news))
            BY <3>1, <3>2, <5>1, <5>2
          <5>4. QED
            BY <3>3, <5>3
        <4>2. CASE over + i <= Len(ring)
          <5>1. /\ over + i \in 1..Len(ring) /\ dropped + (over + i) = st.dropped + i
                /\ st.dropped + i <= Len(S)
            BY <1>1, <3>1, <3>2, <4>1, <4>2
          <5>2. (ring \o news)[over + i] = ring[over + i] /\ ring[over + i] = S[st.dropped + i]
            BY <1>1, <3>2, <4>1, <4>2, <5>1, ConcatAt
          <5>3. (S \o news)[st.dropped + i] = S[st.dropped + i]
            BY <4>1, <5>1, ConcatAt
          <5>4. QED
            BY <4>1, <5>2, <5>3 DEF T
        <4>3. CASE ~(over + i <= Len(ring))
          <5>1. ~(st.dropped + i <= Len(S)) /\ (st.dropped + i) - Len(S) = (over + i) - Len(ring)
            BY <1>1, <3>1, <3>2, <4>1, <4>3
          <5>2. (ring \o news)[over + i] = news[(over + i) - Len(ring)]
            BY <1>1, <4>1, <4>3, ConcatAt
          <5>3. (S \o news)[st.dropped + i] = news[(st.dropped + i) - Len(S)]
            BY <4>1, <5>1, ConcatAt
          <5>4. QED
            BY <4>1, <5>1, <5>2, <5>3 DEF T
        <4>4. QED
          BY <4>2, <4>3
      <3>6. QED
        BY <3>4, <3>5
    <2>9. Len(S) <= Len(T) /\ store[p].dropped <= st.dropped
      BY <1>1, <2>1, <2>2, <2>3
    <2>10. QED
      BY <1>3, <2>1, <2>3, <2>6, <2>7, <2>8, <2>9
  <1>4. QED
    BY <1>2, <1>3

(* An answer of AuditStore.page is a part of what the console has read.    *)
LEMMA AnswerIsPart ==
    ASSUME NEW st \in StoreType, NEW T \in Seq(Nat), Len(T) = st.dropped + Len(st.ring),
           \A i \in 1..Len(st.ring) : st.ring[i] = T[st.dropped + i],
           NEW since \in Nat, NEW from \in Nat, since <= from, st.dropped <= from,
           from \in {since, st.dropped}
    PROVE  LET items == Items(st, from) IN
           AskIsPart(since, IF items = <<>> THEN since ELSE from + Len(items), items, T, st.dropped)
  <1> DEFINE items == Items(st, from)
  <1>1. /\ items \in Seq(Nat) /\ Len(items) \in Nat /\ Len(st.ring) \in Nat /\ st.dropped \in Nat
        /\ \A i \in 1..Len(items) :
             from - st.dropped + i \in 1..Len(st.ring) /\ items[i] = st.ring[from - st.dropped + i]
    BY ItemsEffect, LenProperties DEF StoreType
  <1> HIDE DEF items
  <1>2. CASE items = <<>>
    BY <1>2 DEF AskIsPart, items
  <1>3. CASE items # <<>>
    <2>1. Len(items) \in 1..Len(items)
      BY <1>1, <1>3, EmptySeq
    <2>2. from + Len(items) <= Len(T)
      <3>1. from - st.dropped + Len(items) \in 1..Len(st.ring)
        BY <1>1, <2>1
      <3>2. QED
        BY <1>1, <3>1
    <2>3. \A i \in 1..Len(items) : items[i] = T[from + i]
      <3>1. ASSUME NEW i \in 1..Len(items) PROVE items[i] = T[from + i]
        <4>1. from - st.dropped + i \in 1..Len(st.ring) /\ items[i] = st.ring[from - st.dropped + i]
          BY <1>1
        <4>2. st.dropped + (from - st.dropped + i) = from + i
          BY <1>1
        <4>3. QED
          BY <4>1, <4>2
      <3>2. QED
        BY <3>1
    <2>4. from = since \/ (since <= from /\ from <= st.dropped)
      BY <1>1
    <2>5. AskIsPart(since, from + Len(items), items, T, st.dropped)
      BY <1>3, <2>2, <2>3, <2>4 DEF AskIsPart
    <2>6. QED
      BY <1>3, <2>5 DEF items
  <1>4. QED
    BY <1>2, <1>3

(* A console reads on, and answers.                                        *)
LEMMA PollFollows ==
    ASSUME OrderInv, NEW p \in Writers, NEW k \in 1..Polls, Poll(p, k), Followed(p)
    PROVE  Followed(p)'
  <1>1. /\ TrailTypeOK /\ TrailTypeOK' /\ UNCHANGED <<fs, emitted, queue, archive>>
    BY PollTyped DEF OrderInv, Poll, appends, history
  <1>2. PICK S \in Seq(Nat) : Follows(p, S)
    BY DEF Followed
  <1>3. PICK st \in Refreshed(p), from \in Nat :
          LET since == feed[p].seen
              items == Items(st, from)
          IN /\ st \in StoreType /\ since <= from /\ st.dropped <= from /\ since \in Nat
             /\ from \in {since, st.dropped}
             /\ store' = [store EXCEPT ![p] = st]
             /\ feed' = [feed EXCEPT ![p].asks[k] =
                  [is |-> "answered", since |-> since, items |-> items, stale |-> FALSE,
                   next |-> IF items = <<>> THEN since ELSE from + Len(items)]]
    BY <1>1, PollEffect
  <1>4. /\ store[p].dropped <= st.dropped
        /\ IF Exists(Live) THEN st.same /\ st.offset = Len(fs[Live]) ELSE st = store[p]
        /\ \E T \in Seq(Nat) :
             /\ Len(S) <= Len(T) /\ \A i \in 1..Len(S) : T[i] = S[i]
             /\ \A i, j \in 1..Len(T) : T[i] = T[j] => i = j
             /\ \A i \in 1..Len(T) : Past(T[i])
             /\ Len(T) = st.dropped + Len(st.ring)
             /\ \A i \in 1..Len(st.ring) : st.ring[i] = T[st.dropped + i]
             /\ ~Exists(Live) => T = S
    BY <1>2, <1>3, StreamGrows DEF Followed, Follows
  <1>5. PICK T \in Seq(Nat) :
             /\ Len(S) <= Len(T) /\ \A i \in 1..Len(S) : T[i] = S[i]
             /\ \A i, j \in 1..Len(T) : T[i] = T[j] => i = j
             /\ \A i \in 1..Len(T) : Past(T[i])
             /\ Len(T) = st.dropped + Len(st.ring)
             /\ \A i \in 1..Len(st.ring) : st.ring[i] = T[st.dropped + i]
             /\ ~Exists(Live) => T = S
    BY <1>4
  <1> DEFINE items == Items(st, from)
             next == IF items = <<>> THEN feed[p].seen ELSE from + Len(items)
             ask == [is |-> "answered", since |-> feed[p].seen, items |-> items, stale |-> FALSE, next |-> next]
  <1>6. store'[p] = st
    BY <1>1, <1>3 DEF TrailTypeOK
  <1>7. /\ feed'[p].seen = feed[p].seen /\ feed'[p].shown = feed[p].shown
        /\ feed'[p].crossed = feed[p].crossed
        /\ \A j \in 1..Polls : feed'[p].asks[j] = IF j = k THEN ask ELSE feed[p].asks[j]
    <2>1. feed[p] \in FeedType /\ feed' = [feed EXCEPT ![p].asks[k] = ask]
      BY <1>1, <1>3 DEF TrailTypeOK
    <2> HIDE DEF ask
    <2>2. feed'[p] = [feed[p] EXCEPT !.asks[k] = ask]
      BY <1>1, <2>1 DEF TrailTypeOK
    <2>3. feed'[p].asks = [feed[p].asks EXCEPT ![k] = ask]
      BY <2>1, <2>2 DEF FeedType
    <2>4. /\ feed'[p].seen = feed[p].seen /\ feed'[p].shown = feed[p].shown
          /\ feed'[p].crossed = feed[p].crossed
      BY <2>1, <2>2 DEF FeedType
    <2>5. DOMAIN feed[p].asks = 1..Polls
      BY <2>1 DEF FeedType
    <2>6. QED
      BY <2>3, <2>4, <2>5
  <1>8. AskIsPart(feed[p].seen, next, items, T, st.dropped)
    BY <1>3, <1>5, AnswerIsPart
  <1> HIDE DEF items, next
  <1>9. OffsetIsOf(p)'
    BY SMTT(30), <1>1, <1>2, <1>4, <1>6, LenProperties
       DEF Followed, OffsetIsOf, Exists, TrailTypeOK, FilesTyped
  <1>10. ASSUME NEW i \in 1..Len(T) PROVE Past(T[i])' /\ ~IsUnread(p, T[i])'
    <2>1. Past(T[i])'
      BY <1>1, <1>5 DEF Past
    <2>2. CASE Exists(Live)
      <3>1. Len(fs[Live]) \in Nat /\ st.same /\ st.offset = Len(fs[Live])
        BY <1>1, <1>4, <2>2, LenProperties DEF TrailTypeOK, FilesTyped, Exists
      <3>2. QED
        BY <1>1, <1>6, <2>1, <3>1 DEF IsUnread
    <2>3. CASE ~Exists(Live)
      BY <1>1, <2>1, <2>3 DEF IsUnread, Exists
    <2>4. QED
      BY <2>2, <2>3
  <1>11. IsStream(p, T)'
    BY <1>5, <1>6, <1>10 DEF IsStream
  <1>12. st.dropped \in Nat /\ store[p].dropped \in Nat
    BY <1>1, <1>3, PageTyped DEF StoreType
  <1>13. /\ \A since, nxt \in Nat, itms \in Seq(Nat) :
             AskIsPart(since, nxt, itms, S, store[p].dropped) => AskIsPart(since, nxt, itms, T, st.dropped)
        /\ \A seen \in Nat, shown \in Seq(Nat) :
             PageIsPart(seen, shown, S, store[p].dropped) => PageIsPart(seen, shown, T, st.dropped)
    <2>1. PICK d \in Nat, e \in Nat : d = store[p].dropped /\ e = st.dropped
      BY <1>12
    <2>2. d <= e /\ Len(S) <= Len(T) /\ \A i \in 1..Len(S) : T[i] = S[i]
      BY <1>4, <1>5, <2>1
    <2>3. /\ \A since, nxt \in Nat, itms \in Seq(Nat) :
               AskIsPart(since, nxt, itms, S, d) => AskIsPart(since, nxt, itms, T, e)
          /\ \A seen \in Nat, shown \in Seq(Nat) : PageIsPart(seen, shown, S, d) => PageIsPart(seen, shown, T, e)
      BY <2>2, PartsStay
    <2>4. QED
      BY <2>1, <2>3
  <1>14. ASSUME NEW j \in 1..Polls, feed'[p].asks[j].is = "answered", ~feed'[p].asks[j].stale
         PROVE  AskIsPart(feed'[p].asks[j].since, feed'[p].asks[j].next, feed'[p].asks[j].items, T, st.dropped)
    <2>1. CASE j = k
      BY <1>7, <1>8, <2>1
    <2>2. CASE j # k
      <3>1. feed'[p].asks[j] = feed[p].asks[j]
        BY <1>7, <2>2
      <3>2. AskIsPart(feed[p].asks[j].since, feed[p].asks[j].next, feed[p].asks[j].items, S, store[p].dropped)
        BY <1>2, <1>14, <3>1 DEF Follows
      <3>3. /\ feed[p].asks[j].since \in Nat /\ feed[p].asks[j].next \in Nat
            /\ feed[p].asks[j].items \in Seq(Nat)
        BY <1>1, <1>14, <3>1, PageTyped
      <3>4. QED
        BY <1>13, <3>1, <3>2, <3>3
    <2>3. QED
      BY <2>1, <2>2
  <1>15. ASSUME ~feed[p].crossed, archive[p].is # "done"
         PROVE  PageIsPart(feed[p].seen, feed[p].shown, T, st.dropped)
    <2>1. PageIsPart(feed[p].seen, feed[p].shown, S, store[p].dropped)
      BY <1>2, <1>15 DEF Follows
    <2>2. feed[p].seen \in Nat /\ feed[p].shown \in Seq(Nat)
      BY <1>1, PageTyped
    <2>3. QED
      BY <1>13, <2>1, <2>2
  <1>16. Follows(p, T)'
    BY <1>1, <1>6, <1>7, <1>11, <1>14, <1>15 DEF Follows
  <1>17. QED
    BY <1>9, <1>16 DEF Followed

(* What a page shows with an answer to its cursor is again a part of what   *)
(* has been read, up to the new cursor.                                     *)
LEMMA ShownIsPart ==
    ASSUME NEW S \in Seq(Nat), \A i, j \in 1..Len(S) : S[i] = S[j] => i = j, NEW d \in Nat,
           NEW seen \in Nat, NEW shown \in Seq(Nat), NEW next \in Nat, NEW items \in Seq(Nat),
           PageIsPart(seen, shown, S, d), AskIsPart(seen, next, items, S, d)
    PROVE  PageIsPart(IF next > seen THEN next ELSE seen, shown \o items, S, d)
  <1>1. Len(S) \in Nat /\ Len(shown) \in Nat /\ Len(items) \in Nat
    BY LenProperties
  <1>2. CASE items = <<>>
    <2>1. next = seen /\ shown \o items = shown
      BY <1>2, ConcatEmptySeq DEF AskIsPart
    <2>2. QED
      BY <2>1
  <1>3. CASE items # <<>>
    <2>1. PICK first \in Nat :
            /\ next = first + Len(items) /\ next <= Len(S)
            /\ first = seen \/ (seen <= first /\ first <= d)
            /\ \A i \in 1..Len(items) : items[i] = S[first + i]
      BY <1>3 DEF AskIsPart
    <2>2. next > seen /\ seen <= first
      BY <1>1, <1>3, <2>1, EmptySeq
    <2> DEFINE all == shown \o items
    <2>3. Len(all) = Len(shown) + Len(items)
      BY ConcatProperties
    <2>4. \A i \in 1..Len(shown) : i \in 1..Len(all) /\ all[i] = shown[i]
      BY <1>1, <2>3, ConcatAt
    <2>5. \A i \in 1..Len(items) : Len(shown) + i \in 1..Len(all) /\ all[Len(shown) + i] = items[i]
      <3>1. \A i \in 1..Len(items) :
              /\ Len(shown) + i \in 1..(Len(shown) + Len(items)) /\ ~(Len(shown) + i <= Len(shown))
              /\ (Len(shown) + i) - Len(shown) = i
        BY <1>1
      <3>2. QED
        BY <2>3, <3>1, ConcatAt
    <2>6. \A i \in 1..Len(all) : i \in 1..Len(shown) \/ \E k \in 1..Len(items) : i = Len(shown) + k
      <3>1. ASSUME NEW i \in 1..Len(all), i \notin 1..Len(shown)
            PROVE  i - Len(shown) \in 1..Len(items) /\ i = Len(shown) + (i - Len(shown))
        BY <1>1, <2>3, <3>1
      <3>2. QED
        BY <3>1
    <2> HIDE DEF all
    <2>7. \A k \in 1..Len(items) : first + k \in 1..next /\ first + k \in 1..Len(S) /\ ~(first + k <= seen)
      BY SMTT(30), <1>1, <2>1, <2>2
    <2>8. \A j \in 1..seen : j \in 1..next /\ j \in 1..Len(S)
      BY <1>1, <2>1, <2>2
    <2>9. \A i \in 1..Len(all) : \E j \in 1..next : all[i] = S[j]
      <3>1. \A i \in 1..Len(shown) : \E j \in 1..next : all[i] = S[j]
        BY <2>4, <2>8 DEF PageIsPart
      <3>2. \A k \in 1..Len(items) : \E j \in 1..next : all[Len(shown) + k] = S[j]
        BY <2>1, <2>5, <2>7
      <3>3. QED
        BY ZenonT(30), <2>6, <3>1, <3>2
    <2>10. ASSUME NEW i \in 1..Len(all), NEW j \in 1..Len(all), all[i] = all[j] PROVE i = j
      <3>1. CASE i \in 1..Len(shown) /\ j \in 1..Len(shown)
        BY <2>4, <2>10, <3>1 DEF PageIsPart
      <3>2. ASSUME NEW a \in 1..Len(shown), NEW b \in 1..Len(items), all[a] = all[Len(shown) + b] PROVE FALSE
        <4>1. PICK c \in 1..seen : shown[a] = S[c]
          BY DEF PageIsPart
        <4>2. S[c] = S[first + b]
          BY <2>1, <2>4, <2>5, <3>2, <4>1
        <4>3. c = first + b
          BY <2>7, <2>8, <4>2
        <4>4. QED
          BY <2>7, <4>3
      <3>3. ASSUME NEW a \in 1..Len(items), NEW b \in 1..Len(items), i = Len(shown) + a, j = Len(shown) + b
            PROVE  i = j
        <4>1. S[first + a] = S[first + b]
          BY <2>1, <2>5, <2>10, <3>3
        <4>2. first + a = first + b
          BY <2>7, <4>1
        <4>3. QED
          BY <1>1, <2>1, <3>3, <4>2
      <3>4. QED
        BY <2>6, <2>10, <3>1, <3>2, <3>3
    <2>11. ASSUME NEW j \in 1..next, j > d PROVE \E i \in 1..Len(all) : all[i] = S[j]
      <3>1. CASE j <= seen
        <4>1. j \in 1..seen
          BY <3>1
        <4>2. PICK i \in 1..Len(shown) : shown[i] = S[j]
          BY <2>11, <4>1 DEF PageIsPart
        <4>3. QED
          BY <2>4, <4>2
      <3>2. CASE ~(j <= seen)
        <4>1. j - first \in 1..Len(items) /\ first + (j - first) = j
          BY <1>1, <2>1, <2>11, <3>2
        <4>2. all[Len(shown) + (j - first)] = S[j] /\ Len(shown) + (j - first) \in 1..Len(all)
          BY <2>1, <2>5, <4>1
        <4>3. QED
          BY <4>2
      <3>3. QED
        BY <3>1, <3>2
    <2>12. PageIsPart(next, all, S, d)
      BY <2>1, <2>9, <2>10, <2>11 DEF PageIsPart
    <2>13. QED
      BY <2>2, <2>12 DEF all
  <1>4. QED
    BY <1>2, <1>3

(* The answer is shown.                                                    *)
LEMMA ShowFollows ==
    ASSUME OrderInv, NEW p \in Writers, NEW k \in 1..Polls, Show(p, k), Followed(p)
    PROVE  Followed(p)'
  <1>1. TrailTypeOK /\ TrailTypeOK' /\ UNCHANGED <<fs, emitted, queue, archive, store>>
    BY ShowTyped DEF OrderInv, Show, appends, history
  <1>2. PICK S \in Seq(Nat) : Follows(p, S)
    BY DEF Followed
  <1> DEFINE ask == feed[p].asks[k]
  <1>3. /\ \A j \in 1..Polls : feed'[p].asks[j] = IF j = k THEN Free ELSE feed[p].asks[j]
        /\ ask.is = "answered"
        /\ feed'[p].shown = feed[p].shown \o ask.items
        /\ feed'[p].seen = IF ask.next > feed[p].seen THEN ask.next ELSE feed[p].seen
        /\ ~feed'[p].crossed => ~feed[p].crossed /\ ~ask.stale /\ ask.since = feed[p].seen
    BY <1>1, ShowTyped
  <1>4. OffsetIsOf(p)'
    BY <1>1 DEF Followed, OffsetIsOf, Exists
  <1>5. IsStream(p, S)'
    BY <1>1, <1>2 DEF Follows, IsStream, Past, IsUnread, Exists
  <1>6. \A j \in 1..Polls : feed'[p].asks[j].is = "answered" => feed'[p].asks[j] = feed[p].asks[j]
    BY <1>3 DEF Free
  <1>7. ASSUME ~feed'[p].crossed, archive[p].is # "done"
        PROVE  PageIsPart(feed'[p].seen, feed'[p].shown, S, store[p].dropped)
    <2>1. /\ PageIsPart(feed[p].seen, feed[p].shown, S, store[p].dropped)
          /\ AskIsPart(ask.since, ask.next, ask.items, S, store[p].dropped)
          /\ ask.since = feed[p].seen
      BY <1>2, <1>3, <1>7 DEF Follows
    <2>2. /\ feed[p].seen \in Nat /\ feed[p].shown \in Seq(Nat) /\ store[p].dropped \in Nat
          /\ ask.next \in Nat /\ ask.items \in Seq(Nat)
      BY <1>1, <1>3, PageTyped
    <2>3. \A i, j \in 1..Len(S) : S[i] = S[j] => i = j
      BY <1>2 DEF Follows, IsStream
    <2> HIDE DEF ask
    <2>4. PICK d \in Nat, seen \in Nat, shown \in Seq(Nat), next \in Nat, items \in Seq(Nat) :
            /\ d = store[p].dropped /\ seen = feed[p].seen /\ shown = feed[p].shown
            /\ next = ask.next /\ items = ask.items
      BY <2>2
    <2>5. PageIsPart(seen, shown, S, d) /\ AskIsPart(seen, next, items, S, d)
      BY <2>1, <2>4
    <2>6. PageIsPart(IF next > seen THEN next ELSE seen, shown \o items, S, d)
      BY <2>3, <2>5, ShownIsPart
    <2>7. feed'[p].seen = (IF next > seen THEN next ELSE seen) /\ feed'[p].shown = shown \o items
      BY <1>3, <2>4
    <2>8. QED
      BY <2>4, <2>6, <2>7
  <1>8. \A j \in 1..Polls : feed'[p].asks[j].is = "answered" /\ ~feed'[p].asks[j].stale =>
          AskIsPart(feed'[p].asks[j].since, feed'[p].asks[j].next, feed'[p].asks[j].items, S, store[p].dropped)
    BY <1>2, <1>6 DEF Follows
  <1>9. Follows(p, S)'
    BY <1>1, <1>5, <1>7, <1>8 DEF Follows
  <1>10. QED
    BY <1>4, <1>9 DEF Followed

(* A console that starts from nothing, its page too or at once.            *)
LEMMA NewFollows ==
    ASSUME NEW p \in Writers, store'[p] = NewStore,
           \A k \in 1..Polls : feed'[p].asks[k].is = "answered" => feed'[p].asks[k].stale,
           archive'[p].is # "done" => feed'[p].seen = 0 /\ feed'[p].shown = <<>>
    PROVE  Followed(p)'
  <1> DEFINE S == <<>>
  <1>1. S \in Seq(Nat) /\ Len(S) = 0 /\ \A i \in 1..Len(S) : FALSE
    BY EmptySeq
  <1>2. /\ store'[p].offset = 0 /\ store'[p].dropped = 0 /\ store'[p].ring = S
    BY <1>1 DEF NewStore
  <1> HIDE DEF S
  <1>3. IsStream(p, S)'
    BY <1>1, <1>2 DEF IsStream
  <1>4. ASSUME feed'[p].seen = 0, feed'[p].shown = S
        PROVE  PageIsPart(feed'[p].seen, feed'[p].shown, S, store'[p].dropped)
    BY <1>1, <1>4 DEF PageIsPart
  <1>5. Follows(p, S)'
    BY <1>1, <1>3, <1>4 DEF Follows, S
  <1>6. OffsetIsOf(p)'
    BY <1>2 DEF OffsetIsOf
  <1>7. QED
    BY <1>1, <1>5, <1>6 DEF Followed

(* Steps that concern neither the files nor this console.                  *)
LEMMA QuietFollows ==
    ASSUME TrailTypeOK, TrailTypeOK', Forward, NEW p \in Writers, Followed(p), UNCHANGED fs,
           store'[p] = store[p], feed'[p] = feed[p], archive'[p].is # "done" => archive[p].is # "done"
    PROVE  Followed(p)'
  <1>1. PICK S \in Seq(Nat) : Follows(p, S)
    BY DEF Followed
  <1>2. \A i \in 1..Len(S) : ~IsUnread(p, S[i])'
    BY <1>1 DEF Follows, IsStream, IsUnread, Exists
  <1>3. Follows(p, S)'
    BY <1>1, <1>2, FollowsOn
  <1>4. OffsetIsOf(p)'
    BY DEF Followed, OffsetIsOf, Exists
  <1>5. QED
    BY <1>3, <1>4 DEF Followed

(* The file that this console reads has got another name.                  *)
LEMMA RenamedFollows ==
    ASSUME TrailTypeOK, TrailTypeOK', Forward, NEW p \in Writers, Followed(p), Live \notin DOMAIN fs',
           store'[p].ring = store[p].ring, store'[p].dropped = store[p].dropped,
           store'[p].same => store'[p].offset = 0,
           feed'[p] = feed[p], archive'[p].is # "done" => archive[p].is # "done"
    PROVE  Followed(p)'
  <1>1. PICK S \in Seq(Nat) : Follows(p, S)
    BY DEF Followed
  <1>2. \A i \in 1..Len(S) : ~IsUnread(p, S[i])'
    BY DEF IsUnread, Exists
  <1>3. Follows(p, S)'
    BY <1>1, <1>2, FollowsOn
  <1>4. OffsetIsOf(p)'
    BY DEF OffsetIsOf
  <1>5. QED
    BY <1>3, <1>4 DEF Followed

(* A process opens the file: there is nothing to read in a new one.        *)
LEMMA OpenFollows ==
    ASSUME OrderInv, NEW p \in Writers, Followed(p), NEW q \in Writers, OpenFile(q)
    PROVE  Followed(p)'
  <1>1. /\ TrailTypeOK /\ TrailTypeOK' /\ Forward /\ UNCHANGED <<store, feed, archive>>
    BY AppendTyped, StepForward DEF OrderInv, TrailNext, Trail, OpenFile, console
  <1>2. /\ DOMAIN fs' = DOMAIN fs \cup {Live} /\ \A n \in DOMAIN fs : fs'[n] = fs[n]
        /\ Live \notin DOMAIN fs => fs'[Live] = <<>>
    BY <1>1, OpenEffect
  <1>3. PICK S \in Seq(Nat) : Follows(p, S)
    BY DEF Followed
  <1>4. ASSUME NEW i \in 1..Len(S) PROVE ~IsUnread(p, S[i])'
    <2>1. CASE Exists(Live)
      BY <1>1, <1>2, <1>3, <2>1 DEF Follows, IsStream, IsUnread, Exists
    <2>2. CASE ~Exists(Live)
      <3>1. fs'[Live] = <<>> /\ Len(<<>>) = 0
        BY <1>2, <2>2, EmptySeq DEF Exists
      <3>2. QED
        BY <3>1 DEF IsUnread
    <2>3. QED
      BY <2>1, <2>2
  <1>5. Follows(p, S)'
    BY <1>1, <1>3, <1>4, FollowsOn
  <1>6. OffsetIsOf(p)'
    BY <1>1, <1>2 DEF Followed, OffsetIsOf, Exists
  <1>7. QED
    BY <1>3, <1>5, <1>6 DEF Followed

(* A process writes: what it writes has not been read.                     *)
LEMMA WriteFollows ==
    ASSUME OrderInv, NEW p \in Writers, Followed(p), NEW q \in Writers, Write(q)
    PROVE  Followed(p)'
  <1>1. /\ TrailTypeOK /\ TrailTypeOK' /\ Forward /\ UNCHANGED <<store, feed, archive>>
    BY AppendTyped, StepForward DEF OrderInv, TrailNext, Trail, Write, console
  <1>2. PICK new : new = Head(queue[q])
    OBVIOUS
  <1>3. /\ DOMAIN fs' = DOMAIN fs
        /\ \A n \in DOMAIN fs : n # fd[q] => fs'[n] = fs[n]
        /\ fd[q] \in DOMAIN fs => fs'[fd[q]] = Append(fs[fd[q]], new)
        /\ queue[q] # <<>> /\ new \in Nat
    BY <1>2, WriteEffect, AppendEffect
  <1>4. PICK S \in Seq(Nat) : Follows(p, S)
    BY DEF Followed
  <1>5. CASE ~Exists(Live) \/ fd[q] # Live
    <2>1. Exists(Live)' <=> Exists(Live)
      BY <1>3 DEF Exists
    <2>2. Exists(Live) => fs'[Live] = fs[Live]
      BY <1>3, <1>5 DEF Exists
    <2>3. \A i \in 1..Len(S) : ~IsUnread(p, S[i])'
      BY <1>1, <1>4, <2>1, <2>2 DEF Follows, IsStream, IsUnread
    <2>4. Follows(p, S)'
      BY <1>1, <1>4, <2>3, FollowsOn
    <2>5. OffsetIsOf(p)'
      BY <1>1, <2>1, <2>2 DEF Followed, OffsetIsOf
    <2>6. QED
      BY <1>4, <2>4, <2>5 DEF Followed
  <1>6. CASE Exists(Live) /\ fd[q] = Live
    <2>1. Exists(Live)' /\ fs'[Live] = Append(fs[Live], new) /\ fs[Live] \in Seq(Nat)
      BY <1>1, <1>3, <1>6 DEF Exists, TrailTypeOK, FilesTyped
    <2>2. /\ Len(fs[Live]) \in Nat /\ Len(fs'[Live]) = Len(fs[Live]) + 1
          /\ \A j \in 1..Len(fs'[Live]) :
               \/ j \in 1..Len(fs[Live]) /\ fs'[Live][j] = fs[Live][j]
               \/ fs'[Live][j] = new
      BY <1>3, <2>1
    <2>3. ASSUME NEW i \in 1..Len(S) PROVE ~IsUnread(p, S[i])'
      <3>1. Past(S[i]) /\ ~IsUnread(p, S[i])
        BY <1>4 DEF Follows, IsStream
      <3>2. S[i] # new
        BY <1>2, <1>3, <3>1, HeadIsNext
      <3>3. QED
        BY <1>1, <1>6, <2>2, <3>1, <3>2 DEF IsUnread
    <2>4. Follows(p, S)'
      BY <1>1, <1>4, <2>3, FollowsOn
    <2>5. OffsetIsOf(p)'
      <3>1. store[p].offset \in Nat
        BY <1>1, PageTyped
      <3>2. QED
        BY <1>1, <2>1, <2>2, <3>1 DEF Followed, OffsetIsOf
    <2>6. QED
      BY <1>4, <2>4, <2>5 DEF Followed
  <1>7. QED
    BY <1>5, <1>6

(* Who does not rename finds another file; who does starts at its head.     *)
LEMMA RenamedEffect ==
    ASSUME TrailTypeOK, NEW q \in Writers, NEW p \in Writers
    PROVE  /\ Renamed(q)[p].ring = store[p].ring /\ Renamed(q)[p].dropped = store[p].dropped
           /\ Renamed(q)[p].same => Renamed(q)[p].offset = 0
  <1>1. store[p] \in StoreType
    BY DEF TrailTypeOK
  <1>2. Renamed(q)[p] = [store[p] EXCEPT !.offset = IF p = q THEN 0 ELSE @, !.same = p = q]
    BY DEF Renamed
  <1>3. QED
    BY <1>1, <1>2 DEF StoreType

(* A process rotates: its own console has read what is left, or has not;    *)
(* the others find the file gone.                                          *)
LEMMA RotateFollows ==
    ASSUME OrderInv, NEW p \in Writers, Followed(p), NEW q \in Writers, RotateForDay(q)
    PROVE  Followed(p)'
  <1>1. /\ TrailTypeOK /\ TrailTypeOK' /\ Forward /\ UNCHANGED <<feed, archive>>
    BY RotateTyped, StepForward DEF OrderInv, TrailNext, Trail, RotateForDay
  <1>2. CASE UNCHANGED <<fs, store>>
    BY <1>1, <1>2, QuietFollows
  <1>3. CASE ~UNCHANGED <<fs, store>>
    <2> DEFINE to == DayFile(rotate[q].closes)
               swept == Swept(rotate[q].closes)
    <2>1. rotate[q].closes \in Nat /\ Exists(Live) /\ Rename(to, swept) /\ store' = Renamed(q)
      BY <1>3, RotateEffect
    <2>2. to \in Names /\ to # Live /\ swept \in SUBSET Names /\ to \notin swept
      BY <1>1, <2>1, SweptEffect, NamesDiffer
    <2> HIDE DEF to, swept
    <2>3. Live \notin DOMAIN fs'
      BY <2>1, <2>2, RenameEffect
    <2>4. /\ store'[p].ring = store[p].ring /\ store'[p].dropped = store[p].dropped
          /\ store'[p].same => store'[p].offset = 0
      BY <1>1, <2>1, RenamedEffect
    <2>5. QED
      BY <1>1, <2>3, <2>4, RenamedFollows
  <1>4. QED
    BY <1>2, <1>3

(* A process archives: its own console and page start from nothing.        *)
LEMMA ArchiveFollows ==
    ASSUME OrderInv, NEW p \in Writers, Followed(p), NEW q \in Watched, Archive(q)
    PROVE  Followed(p)'
  <1>1. /\ q \in Writers /\ TrailTypeOK /\ TrailTypeOK' /\ Forward
    BY ArchiveTyped, StepForward, Bounds DEF OrderInv, TrailNext, Page
  <1>2. /\ archive'[q].is = "done" /\ \A r \in Writers \ {q} : archive'[r] = archive[r]
    BY <1>1 DEF Archive, TrailTypeOK
  <1>3. CASE UNCHANGED <<fs, store, feed>>
    BY <1>1, <1>2, <1>3, QuietFollows
  <1>4. CASE ~UNCHANGED <<fs, store, feed>>
    <2> DEFINE to == ArchiveFile(archive[q].stamp)
               asks == [k \in 1..Polls |->
                 IF feed[q].asks[k].is = "free" THEN Free ELSE [feed[q].asks[k] EXCEPT !.stale = TRUE]]
    <2>1. /\ archive[q].stamp \in Nat /\ Exists(Live) /\ Rename(to, {})
          /\ store' = [Renamed(q) EXCEPT ![q] = NewStore]
          /\ feed' = [feed EXCEPT ![q].asks = asks]
      BY <1>1, <1>4, ArchiveEffect
    <2>2. to \in Names /\ to # Live
      BY <2>1, NamesDiffer
    <2> HIDE DEF to
    <2>3. Live \notin DOMAIN fs'
      BY <2>1, <2>2, RenameEffect
    <2>4. CASE p = q
      <3>1. \A k \in 1..Polls : asks[k].is = "answered" => asks[k].stale
        <4>1. ASSUME NEW k \in 1..Polls, feed[q].asks[k].is # "free"
              PROVE  [feed[q].asks[k] EXCEPT !.stale = TRUE].stale
          <5>1. feed[q].asks[k] \in [is : {"answered"}, since : Nat, items : Seq(Nat), stale : BOOLEAN, next : Nat]
            <6>1. feed[q] \in FeedType
              BY <1>1 DEF TrailTypeOK
            <6>2. feed[q].asks[k] \in AskType
              BY <6>1 DEF FeedType
            <6>3. QED
              BY <4>1, <6>2 DEF AskType, Free
          <5>2. QED
            BY <5>1
        <4>2. QED
          BY <4>1 DEF Free
      <3> HIDE DEF asks
      <3>2. feed[q] \in FeedType
        BY <1>1 DEF TrailTypeOK
      <3>3. feed'[q].asks = asks
        BY <1>1, <2>1, <3>2 DEF TrailTypeOK, FeedType
      <3>4. store'[q] = NewStore
        BY <1>1, <2>1, RenamedTyped
      <3>5. QED
        BY <1>1, <1>2, <2>4, <3>1, <3>3, <3>4, NewFollows
    <2>5. CASE p # q
      <3>1. feed'[p] = feed[p]
        BY <1>1, <2>1, <2>5 DEF TrailTypeOK
      <3>2. store'[p] = Renamed(q)[p]
        BY <1>1, <2>1, <2>5, RenamedTyped
      <3>3. /\ store'[p].ring = store[p].ring /\ store'[p].dropped = store[p].dropped
            /\ store'[p].same => store'[p].offset = 0
        BY <1>1, <3>2, RenamedEffect
      <3>4. QED
        BY <1>1, <1>2, <2>3, <2>5, <3>1, <3>3, RenamedFollows
    <2>6. QED
      BY <2>4, <2>5
  <1>5. QED
    BY <1>3, <1>4

(* The page hears of it.                                                   *)
LEMMA ArchivedFollows ==
    ASSUME OrderInv, TrailTypeOK', NEW p \in Writers, Archived(p), Followed(p)
    PROVE  Followed(p)'
  <1>1. TrailTypeOK /\ UNCHANGED <<fs, emitted, queue, store>>
    BY DEF OrderInv, Archived, appends, history
  <1>2. PICK S \in Seq(Nat) : Follows(p, S)
    BY DEF Followed
  <1>3. feed'[p].seen = 0 /\ feed'[p].shown = <<>> /\ feed'[p].asks = feed[p].asks
    <2>1. feed[p] \in FeedType /\ feed' = [feed EXCEPT ![p] = [@ EXCEPT !.seen = 0, !.shown = <<>>]]
      BY <1>1 DEF TrailTypeOK, Archived
    <2>2. feed'[p] = [feed[p] EXCEPT !.seen = 0, !.shown = <<>>]
      BY <1>1, <2>1 DEF TrailTypeOK
    <2>3. QED
      BY <2>1, <2>2 DEF FeedType
  <1>4. IsStream(p, S)'
    BY <1>1, <1>2 DEF Follows, IsStream, Past, IsUnread, Exists
  <1>5. PageIsPart(feed'[p].seen, feed'[p].shown, S, store[p].dropped)
    BY <1>2, <1>3, LenProperties, EmptySeq DEF PageIsPart
  <1>6. Follows(p, S)'
    BY <1>1, <1>2, <1>3, <1>4, <1>5 DEF Follows
  <1>7. OffsetIsOf(p)'
    BY <1>1 DEF Followed, OffsetIsOf, Exists
  <1>8. QED
    BY <1>2, <1>6, <1>7 DEF Followed

(* Every step leaves each page a part of what its console has read.        *)
LEMMA PageNext ==
    ASSUME OrderInv, PageInv, [TrailNext]_trailVars
    PROVE  PageInv'
  <1>1. TrailTypeOK /\ TrailTypeOK' /\ Forward
    BY OrderNext, StepForward DEF OrderInv
  <1> SUFFICES ASSUME NEW p \in Writers PROVE Followed(p)'
    BY DEF PageInv
  <1>2. Followed(p)
    BY DEF PageInv
  <1>3. ASSUME NEW q \in Writers, OnAudit(q) \/ Fails(q) PROVE Followed(p)'
    BY <1>1, <1>2, <1>3, QuietFollows DEF OnAudit, Fails, console
  <1>4. ASSUME NEW q \in Writers, NEW k \in 1..Polls, Poll(q, k) PROVE Followed(p)'
    <2>1. CASE q = p
      BY <1>2, <1>4, <2>1, PollFollows
    <2>2. CASE q # p
      <3>1. UNCHANGED <<fs, archive>> /\ store'[p] = store[p] /\ feed'[p] = feed[p]
        BY <1>1, <1>4, <2>2, PollEffect DEF Poll, TrailTypeOK
      <3>2. QED
        BY <1>1, <1>2, <3>1, QuietFollows
    <2>3. QED
      BY <2>1, <2>2
  <1>5. ASSUME NEW q \in Writers, NEW k \in 1..Polls, Show(q, k) PROVE Followed(p)'
    <2>1. CASE q = p
      BY <1>2, <1>5, <2>1, ShowFollows
    <2>2. CASE q # p
      <3>1. UNCHANGED <<fs, archive, store>> /\ feed'[p] = feed[p]
        BY <1>1, <1>5, <2>2, ShowTyped DEF Show
      <3>2. QED
        BY <1>1, <1>2, <3>1, QuietFollows
    <2>3. QED
      BY <2>1, <2>2
  <1>6. ASSUME NEW q \in Writers, AskArchive(q) PROVE Followed(p)'
    <2>1. /\ UNCHANGED <<fs, store, feed>> /\ archive[q].is = "off"
          /\ archive'[p] = archive[p] \/ p = q
      BY <1>1, <1>6 DEF AskArchive, TrailTypeOK
    <2>2. QED
      BY <1>1, <1>2, <2>1, QuietFollows
  <1>7. ASSUME NEW q \in Writers, Archived(q) PROVE Followed(p)'
    <2>1. CASE q = p
      BY <1>1, <1>2, <1>7, <2>1, ArchivedFollows
    <2>2. CASE q # p
      <3>1. UNCHANGED <<fs, store>> /\ feed'[p] = feed[p] /\ archive'[p] = archive[p]
        BY <1>1, <1>7, <2>2 DEF Archived, TrailTypeOK
      <3>2. QED
        BY <1>1, <1>2, <3>1, QuietFollows
    <2>3. QED
      BY <2>1, <2>2
  <1>8. ASSUME NEW q \in Writers, Restart(q) PROVE Followed(p)'
    <2>1. CASE q = p
      <3>1. store'[p] = NewStore /\ feed'[p] = NewPage
        BY <1>1, <1>8, <2>1 DEF Restart, TrailTypeOK
      <3>2. /\ feed'[p].seen = 0 /\ feed'[p].shown = <<>>
            /\ \A k \in 1..Polls : feed'[p].asks[k].is # "answered"
        BY <3>1 DEF NewPage, Free
      <3>3. QED
        BY <3>1, <3>2, NewFollows
    <2>2. CASE q # p
      <3>1. UNCHANGED fs /\ store'[p] = store[p] /\ feed'[p] = feed[p] /\ archive'[p] = archive[p]
        BY <1>1, <1>8, <2>2 DEF Restart, TrailTypeOK
      <3>2. QED
        BY <1>1, <1>2, <3>1, QuietFollows
    <2>3. QED
      BY <2>1, <2>2
  <1>9. CASE Midnight \/ UNCHANGED trailVars
    BY <1>1, <1>2, <1>9, QuietFollows DEF Midnight, trailVars, console
  <1>10. QED
    BY <1>2, <1>3, <1>4, <1>5, <1>6, <1>7, <1>8, <1>9, OpenFollows, WriteFollows, RotateFollows,
       ArchiveFollows, Bounds
       DEF TrailNext, Trail, Page

(* A page starts with nothing.                                             *)
LEMMA PageInit == ASSUME TrailInit PROVE PageInv
  <1> SUFFICES ASSUME NEW p \in Writers PROVE Followed(p)
    BY DEF PageInv
  <1> DEFINE S == <<>>
  <1>1. S \in Seq(Nat) /\ Len(S) = 0 /\ \A i \in 1..Len(S) : FALSE
    BY EmptySeq
  <1>2. /\ store[p].offset = 0 /\ store[p].dropped = 0 /\ store[p].ring = S
        /\ feed[p].seen = 0 /\ feed[p].shown = S /\ \A k \in 1..Polls : feed[p].asks[k].is # "answered"
    BY DEF TrailInit, NewStore, NewPage, Free
  <1> HIDE DEF S
  <1>3. IsStream(p, S) /\ OffsetIsOf(p)
    BY <1>1, <1>2 DEF IsStream, OffsetIsOf
  <1>4. PageIsPart(feed[p].seen, feed[p].shown, S, store[p].dropped)
    BY <1>1, <1>2 DEF PageIsPart
  <1>5. Follows(p, S)
    BY <1>1, <1>2, <1>3, <1>4 DEF Follows
  <1>6. QED
    BY <1>1, <1>3, <1>5 DEF Followed

(* A page that is a part of the stream is exact.                           *)
LEMMA PartIsExact == ASSUME OrderInv, PageInv PROVE PageIsExact
  <1> SUFFICES ASSUME NEW p \in Watched, ~feed[p].crossed, archive[p].is # "done"
               PROVE  /\ IsInjective(feed[p].shown)
                      /\ \A i \in 1..Len(store[p].ring) : store[p].dropped + i <= feed[p].seen =>
                           \E j \in 1..Len(feed[p].shown) : feed[p].shown[j] = store[p].ring[i]
    BY DEF PageIsExact
  <1>1. p \in Writers /\ TrailTypeOK
    BY Bounds DEF OrderInv
  <1>2. PICK S \in Seq(Nat) : Follows(p, S)
    BY <1>1 DEF PageInv, Followed
  <1>3. /\ PageIsPart(feed[p].seen, feed[p].shown, S, store[p].dropped)
        /\ \A i \in 1..Len(store[p].ring) : store[p].ring[i] = S[store[p].dropped + i]
    BY <1>2 DEF Follows, IsStream
  <1>4. IsInjective(feed[p].shown)
    <2>1. DOMAIN feed[p].shown = 1..Len(feed[p].shown)
      BY <1>1, PageTyped, LenProperties
    <2>2. QED
      BY <1>3, <2>1 DEF PageIsPart, IsInjective
  <1>5. ASSUME NEW i \in 1..Len(store[p].ring), store[p].dropped + i <= feed[p].seen
        PROVE  \E j \in 1..Len(feed[p].shown) : feed[p].shown[j] = store[p].ring[i]
    <2>1. store[p].dropped \in Nat /\ feed[p].seen \in Nat /\ Len(store[p].ring) \in Nat
      BY <1>1, PageTyped
    <2>2. store[p].dropped + i \in 1..feed[p].seen /\ store[p].dropped + i > store[p].dropped
      BY <1>5, <2>1
    <2>3. PICK k \in 1..feed[p].seen : k = store[p].dropped + i /\ k > store[p].dropped
      BY <2>2
    <2>4. store[p].ring[i] = S[k]
      BY <1>3, <2>3
    <2>5. QED
      BY <1>3, <2>3, <2>4 DEF PageIsPart
  <1>6. QED
    BY <1>4, <1>5

(* Unless answers overtook each other or an archive, a page shows no record *)
(* twice, and whatever its cursor has passed of the ring it has shown:      *)
(* audit-store.ts:220-252, audit-viewer.ts:1464-1492.                       *)
THEOREM PageHolds == TrailSpec => []PageIsExact
  <1>1. TrailInit => OrderInv /\ PageInv
    BY OrderInit, PageInit
  <1>2. OrderInv /\ PageInv /\ [TrailNext]_trailVars => OrderInv' /\ PageInv'
    BY OrderNext, PageNext
  <1>3. OrderInv /\ PageInv => PageIsExact
    BY PartIsExact
  <1>4. QED
    BY <1>1, <1>2, <1>3, PTL DEF TrailSpec
-----------------------------------------------------------------------------
(* The console.                                                            *)

(* A process has something to show only while it is up: before its start    *)
(* and after its end it listens nowhere.                                   *)
OnlyWhileUp(p) ==
  /\ life[p] # "up" => holder # p /\ role[p] = "none" /\ private[p] = "none" /\ busy[p] = "no"
  /\ life[p] = "new" => file[p] = NoFile

(* The role is the owner's exactly where the address is held.              *)
RoleIsTrue(p) == role[p] = "owner" <=> holder = p

(* What can be read of a living process is what it would write now, and it  *)
(* has nothing to read before it has a port.                               *)
FileIsCurrent(p) ==
  life[p] = "up" =>
    /\ file[p].is = "fresh" => busy[p] = "no" /\ file[p].port = Port(p) /\ file[p].role = role[p]
    /\ Port(p) = Nobody => file[p] = NoFile
    /\ file[p].is # "stale"

InOrder(p) == OnlyWhileUp(p) /\ RoleIsTrue(p) /\ FileIsCurrent(p)

(* A page stands under a name that has been up, and shows it while it is.   *)
PageIsTrue ==
  page.is = "open" =>
    /\ life[page.claims] # "new"
    /\ life[page.claims] = "up" => page.shows = page.claims

IInv == TypeOK /\ (\A p \in Procs : InOrder(p)) /\ PageIsTrue
-----------------------------------------------------------------------------
(* Helpers.                                                                *)

(* A published port is the address, the process's own, or none.            *)
LEMMA PortTyped ==
    ASSUME NEW p \in Procs
    PROVE  /\ Port(p) \in {Address, p, Nobody}
           /\ Port(p) = Nobody <=> role[p] # "owner" /\ private[p] # "on"
           /\ Port(p) = Address <=> role[p] = "owner"
BY AddressAssumption, ConsoleAssumption DEF Port

(* Whoever answers is up.                                                  *)
LEMMA ServerTyped ==
    ASSUME IInv, NEW port, Server(port) \in Procs
    PROVE  life[Server(port)] = "up"
BY ConsoleAssumption DEF Server, IInv, InOrder, TypeOK, OnlyWhileUp

(* At what a living process has published that process answers.            *)
LEMMA ServesItself ==
    ASSUME IInv, NEW p \in Procs, life[p] = "up", file[p].is = "fresh"
    PROVE  Server(file[p].port) = p
  <1>1. file[p].port = Port(p) /\ Port(p) # Nobody
    BY DEF IInv, InOrder, FileIsCurrent, NoFile
  <1>2. CASE role[p] = "owner"
    BY <1>1, <1>2 DEF Port, Server, IInv, InOrder, RoleIsTrue
  <1>3. CASE role[p] # "owner"
    BY <1>1, <1>3, AddressAssumption DEF Port, Server
  <1>4. QED
    BY <1>2, <1>3

(* A page is loaded under the name of the process that serves it.          *)
LEMMA LoadedTyped ==
    ASSUME TypeOK, NEW s \in Procs, NEW port \in Procs \cup {Address},
           NEW home \in Procs \cup {Nobody}
    PROVE  LET l == Loaded(s, port, home) IN
             l \in PageType /\ l.is = "open" /\ l.claims = s /\ l.shows = s /\ l.from = s
  <1>1. 0 \in 0 .. DeadAfter /\ token[s].no \in Nat
    BY ConsoleAssumption DEF TypeOK
  <1>2. QED
    BY <1>1 DEF Loaded, PageType

(* So is one that is handed over.                                          *)
LEMMA HandedTyped ==
    ASSUME IInv, NEW s \in Procs, life[s] = "up", NEW port \in Procs \cup {Address},
           NEW home \in Procs \cup {Nobody}
    PROVE  LET h == Handed(s, port, home) IN
             /\ h \in PageType /\ h.is = "open"
             /\ h.claims \in Procs /\ h.shows = h.claims /\ life[h.claims] = "up"
  <1> DEFINE t == Server(file[home].port)
  <1>1. TypeOK
    BY DEF IInv
  <1>2. CASE Handed(s, port, home) \in {Loaded(s, port, home), Loaded(s, port, Nobody)}
    BY <1>1, <1>2, LoadedTyped
  <1>3. CASE /\ home \in Listed /\ t \in Procs
             /\ Handed(s, port, home) = Loaded(t, file[home].port, home)
    <2>1. file[home] \in FileType /\ file[home].is = "fresh" /\ home \in Procs
      BY <1>1, <1>3 DEF Listed, TypeOK
    <2>2. file[home].port \in Procs \cup {Address}
      BY <2>1 DEF FileType, NoFile
    <2>3. life[t] = "up"
      BY <1>3, ServerTyped
    <2> HIDE DEF t
    <2>4. QED
      BY SMTT(30), <1>1, <1>3, <2>2, <2>3, LoadedTyped
  <1>4. QED
    BY <1>2, <1>3 DEF Handed

(* The page and what is up change as they may: nothing becomes new again,   *)
(* and what comes up was new.                                              *)
LEMMA PageStays ==
    ASSUME IInv, page' = page,
           \A p \in Procs : life'[p] = life[p] \/ life'[p] = "over" \/ life[p] = "new",
           \A p \in Procs : life[p] # "new" => life'[p] # "new"
    PROVE  PageIsTrue'
BY DEF IInv, TypeOK, PageIsTrue, PageType, NoPage

(* A step of one process leaves the others what they are, but for files     *)
(* that cannot be read, which it may remove.                               *)
LEMMA OthersKeep ==
    ASSUME IInv, NEW p \in Procs, NEW q \in Procs, q # p,
           life'[q] = life[q], role'[q] = role[q], private'[q] = private[q], busy'[q] = busy[q],
           (holder' = q) = (holder = q),
           file'[q] = file[q] \/ file'[q] = NoFile
    PROVE  InOrder(q)'
BY DEF IInv, InOrder, OnlyWhileUp, RoleIsTrue, FileIsCurrent, Port, NoFile

(* What a process writes, as long as it writes, tells nothing.             *)
LEMMA WritesKeeps ==
    ASSUME IInv, NEW p \in Procs, life[p] = "up", life' = life,
           NEW then \in {"write", "beat"}, Writes(p, then),
           holder' \in Procs \cup {Nobody, Stranger}, role' \in [Procs -> Roles],
           private' \in [Procs -> {"none", "asked", "on", "failed"}],
           \A q \in Procs \ {p} : /\ role'[q] = role[q] /\ private'[q] = private[q]
                                  /\ (holder' = q) = (holder = q),
           role'[p] = "owner" <=> holder' = p,
           Port(p)' = Nobody => Port(p) = Nobody
    PROVE  /\ file' \in [Procs -> FileType] /\ busy' \in [Procs -> {"no", "write", "beat"}]
           /\ \A q \in Procs : InOrder(q)'
  <1>1. /\ file \in [Procs -> FileType] /\ busy \in [Procs -> {"no", "write", "beat"}]
        /\ file' \in {file, [file EXCEPT ![p] = [is |-> "torn"]]}
        /\ busy' = [busy EXCEPT ![p] = then]
    BY DEF IInv, TypeOK, Writes
  <1>2. file' \in [Procs -> FileType] /\ busy' \in [Procs -> {"no", "write", "beat"}]
    BY <1>1 DEF FileType
  <1>3. ASSUME NEW q \in Procs \ {p} PROVE InOrder(q)'
    BY <1>1, OthersKeep
  <1>4. InOrder(p)'
    <2>1. Port(p)' = Nobody => file'[p] = NoFile
      BY <1>1 DEF Writes, IInv, InOrder, FileIsCurrent
    <2>2. Port(p)' # Nobody => file'[p].is = "torn"
      BY <1>1 DEF Writes
    <2>3. file'[p].is \in {"none", "torn"}
      BY <2>1, <2>2 DEF NoFile
    <2>4. QED
      BY <2>1, <2>3 DEF InOrder, OnlyWhileUp, RoleIsTrue, FileIsCurrent
  <1>5. QED
    BY <1>2, <1>3, <1>4

(* Only the page changes, and shows what it claims.                        *)
LEMMA BrowserStep ==
    ASSUME IInv, UNCHANGED <<life, holder, main, role, private, file, busy, token>>,
           page' \in PageType, PageIsTrue'
    PROVE  IInv'
BY DEF IInv, TypeOK, InOrder, OnlyWhileUp, RoleIsTrue, FileIsCurrent, Port
-----------------------------------------------------------------------------
(* The actions.                                                            *)

(* A process starts.                                                       *)
LEMMA StartKeeps == ASSUME IInv, NEW p \in Procs, Start(p) PROVE IInv'
  <1>1. TypeOK'
    BY DEF Start, IInv, TypeOK
  <1>2. ASSUME NEW q \in Procs \ {p} PROVE InOrder(q)'
    BY OthersKeep DEF Start, IInv, TypeOK
  <1>3. InOrder(p)'
    BY DEF Start, IInv, TypeOK, InOrder, OnlyWhileUp, RoleIsTrue, FileIsCurrent, NoFile
  <1>4. PageIsTrue'
    BY PageStays DEF Start, IInv, TypeOK
  <1>5. QED
    BY <1>1, <1>2, <1>3, <1>4 DEF IInv

(* A write ends, and a beat with it.                                       *)
LEMMA WrittenKeeps == ASSUME IInv, NEW p \in Procs, Written(p) PROVE IInv'
  <1> DEFINE files == IF file[p].is # "torn" THEN file
                      ELSE [file EXCEPT ![p] = [is |-> "fresh", port |-> Port(p), role |-> role[p]]]
  <1>1. /\ files \in [Procs -> FileType]
        /\ \A q \in Procs \ {p} : files[q] = file[q]
        /\ files[p].is = "fresh" => files[p].port = Port(p) /\ files[p].role = role[p]
        /\ Port(p) = Nobody => files[p] = NoFile
        /\ files[p].is # "stale"
    <2>1. CASE file[p].is # "torn"
      BY <2>1 DEF IInv, TypeOK, Written, InOrder, FileIsCurrent
    <2>2. CASE file[p].is = "torn"
      <3>1. Port(p) \in Procs \cup {Address} /\ role[p] \in Roles
        BY <2>2, PortTyped DEF IInv, TypeOK, Written, InOrder, FileIsCurrent, NoFile
      <3>2. [is |-> "fresh", port |-> Port(p), role |-> role[p]] \in FileType
        BY <3>1 DEF FileType
      <3>3. QED
        BY <2>2, <3>1, <3>2, ConsoleAssumption, AddressAssumption DEF IInv, TypeOK
    <2>3. QED
      BY <2>1, <2>2
  <1>2. PICK f \in {files, Pruned(p, files)} : file' = f
    BY DEF Written
  <1>3. /\ f \in [Procs -> FileType]
        /\ \A q \in Procs : f[q] = files[q] \/ f[q] = NoFile
    BY <1>1, <1>2 DEF Pruned, FileType
  <1>4. main' \in [Procs -> {"off", "trying", "idle", "bound"}]
    BY DEF Written, Takeover, IInv, TypeOK
  <1>5. TypeOK'
    BY <1>2, <1>3, <1>4 DEF Written, IInv, TypeOK
  <1> HIDE DEF files
  <1>6. ASSUME NEW q \in Procs \ {p} PROVE InOrder(q)'
    BY ZenonT(40), <1>1, <1>2, <1>3, OthersKeep DEF Written, IInv, TypeOK
  <1>7. InOrder(p)'
    BY <1>1, <1>2, <1>3
       DEF Written, IInv, TypeOK, InOrder, OnlyWhileUp, RoleIsTrue, FileIsCurrent, Port, NoFile
  <1>8. PageIsTrue'
    BY PageStays DEF Written
  <1>9. QED
    BY <1>5, <1>6, <1>7, <1>8 DEF IInv

(* A beat, a rotation and a listener that has come up are written down.    *)
LEMMA WritingKeeps ==
    ASSUME IInv, NEW p \in Procs, Beat(p) \/ Bind(p) \/ Listening(p) \/ Rotate(p)
    PROVE  IInv'
  <1>1. life[p] = "up" /\ life' = life /\ page' = page /\ TypeOK /\ InOrder(p)
    BY DEF Beat, Bind, Listening, Rotate, Idle, IInv
  <1>2. /\ holder' \in Procs \cup {Nobody, Stranger} /\ role' \in [Procs -> Roles]
        /\ private' \in [Procs -> {"none", "asked", "on", "failed"}]
        /\ \A q \in Procs \ {p} : /\ role'[q] = role[q] /\ private'[q] = private[q]
                                   /\ (holder' = q) = (holder = q)
        /\ role'[p] = "owner" <=> holder' = p
        /\ Port(p)' = Nobody => Port(p) = Nobody
    <2>1. CASE Beat(p) \/ Rotate(p)
      BY <1>1, <2>1 DEF Beat, Rotate, TypeOK, InOrder, RoleIsTrue, Port
    <2>2. CASE Bind(p)
      BY <1>1, <2>2, ConsoleAssumption, AddressAssumption DEF Bind, TypeOK, Port, Roles
    <2>3. CASE Listening(p)
      BY <1>1, <2>3, ConsoleAssumption, AddressAssumption
         DEF Listening, Afterwards, TypeOK, InOrder, RoleIsTrue, Port, Roles
    <2>4. QED
      BY <2>1, <2>2, <2>3
  <1>3. PICK then \in {"write", "beat"} : Writes(p, then)
    BY DEF Beat, Bind, Listening, Rotate
  <1>4. /\ file' \in [Procs -> FileType] /\ busy' \in [Procs -> {"no", "write", "beat"}]
        /\ \A q \in Procs : InOrder(q)'
    BY <1>1, <1>2, <1>3, WritesKeeps
  <1>5. main' \in [Procs -> {"off", "trying", "idle", "bound"}]
    BY <1>1 DEF Beat, Bind, Listening, Rotate, TypeOK
  <1>6. token' \in [Procs -> [no : Nat, expired : BOOLEAN]]
    <2>1. token \in [Procs -> [no : Nat, expired : BOOLEAN]]
      BY <1>1 DEF TypeOK
    <2>2. CASE token' = token
      BY <2>1, <2>2
    <2>3. CASE token' = [token EXCEPT ![p] = [no |-> @.no + 1, expired |-> FALSE]]
      <3>1. [no |-> token[p].no + 1, expired |-> FALSE] \in [no : Nat, expired : BOOLEAN]
        BY <2>1
      <3>2. QED
        BY <2>1, <2>3, <3>1
    <2>4. QED
      BY <2>2, <2>3 DEF Beat, Bind, Listening, Rotate
  <1>7. TypeOK'
    BY <1>1, <1>2, <1>4, <1>5, <1>6 DEF TypeOK
  <1>8. PageIsTrue'
    BY <1>1, PageStays
  <1>9. QED
    BY <1>4, <1>7, <1>8 DEF IInv

(* An attempt to listen that fails, and a token that expires, are not.     *)
LEMMA QuietKeeps ==
    ASSUME IInv, NEW p \in Procs, Adopt(p) \/ NotListening(p) \/ Expire(p)
    PROVE  IInv'
  <1>1. TypeOK'
    BY ZenonT(40), SMTT(30) DEF Adopt, NotListening, Expire, IInv, TypeOK
  <1>2. /\ UNCHANGED <<life, holder, role, file, busy, page>> /\ life[p] = "up"
        /\ \A q \in Procs : private'[q] = "on" <=> private[q] = "on"
        /\ \A q \in Procs : q # p => private'[q] = private[q]
    BY DEF Adopt, NotListening, Expire, Idle, IInv, TypeOK
  <1>3. ASSUME NEW q \in Procs PROVE InOrder(q)'
    BY <1>2 DEF IInv, InOrder, OnlyWhileUp, RoleIsTrue, FileIsCurrent, Port
  <1>4. PageIsTrue'
    BY <1>2, PageStays
  <1>5. QED
    BY <1>1, <1>3, <1>4 DEF IInv

(* A process ends, and lets go of everything but, perhaps, its file.       *)
LEMMA EndsKeeps ==
    ASSUME IInv, NEW p \in Procs, NEW leaves \in BOOLEAN, Ends(p, leaves)
    PROVE  IInv'
  <1>1. TypeOK'
    BY DEF Ends, IInv, TypeOK, FileType, Roles
  <1>2. ASSUME NEW q \in Procs \ {p} PROVE InOrder(q)'
    BY OthersKeep, ConsoleAssumption DEF Ends, IInv, TypeOK
  <1>3. InOrder(p)'
    BY ConsoleAssumption DEF Ends, IInv, TypeOK, InOrder, OnlyWhileUp, RoleIsTrue, FileIsCurrent
  <1>4. PageIsTrue'
    BY PageStays DEF Ends, IInv, TypeOK
  <1>5. QED
    BY <1>1, <1>2, <1>3, <1>4 DEF IInv

(* The file of the dead grows old, and the stranger leaves.                *)
LEMMA OutsideKeeps ==
    ASSUME IInv, StrangerLeaves \/ \E p \in Procs : Stale(p)
    PROVE  IInv'
  <1>1. CASE StrangerLeaves
    <2>1. TypeOK' /\ PageIsTrue'
      BY <1>1, PageStays DEF StrangerLeaves, IInv, TypeOK
    <2>2. ASSUME NEW q \in Procs PROVE InOrder(q)'
      BY <1>1, ConsoleAssumption
         DEF StrangerLeaves, IInv, InOrder, OnlyWhileUp, RoleIsTrue, FileIsCurrent, Port
    <2>3. QED
      BY <2>1, <2>2 DEF IInv
  <1>2. ASSUME NEW p \in Procs, Stale(p) PROVE IInv'
    <2>1. TypeOK'
      BY <1>2 DEF Stale, IInv, TypeOK, FileType
    <2>2. ASSUME NEW q \in Procs \ {p} PROVE InOrder(q)'
      BY <1>2, OthersKeep DEF Stale, IInv, TypeOK
    <2>3. InOrder(p)'
      BY <1>2 DEF Stale, IInv, TypeOK, InOrder, OnlyWhileUp, RoleIsTrue, FileIsCurrent
    <2>4. PageIsTrue'
      BY <1>2, PageStays DEF Stale
    <2>5. QED
      BY <2>1, <2>2, <2>3, <2>4 DEF IInv
  <1>3. QED
    BY <1>1, <1>2

(* What the browser does to its page.                                      *)
LEMMA BrowserKeeps == ASSUME IInv, Browser PROVE IInv'
  <1>1. ASSUME NEW home \in Procs \cup {Nobody}, Open(home) PROVE IInv'
    <2>1. holder \in Procs /\ life[holder] = "up"
      BY <1>1 DEF Open, Idle
    <2>2. page' \in PageType /\ PageIsTrue'
      BY <1>1, <2>1, HandedTyped DEF Open, PageIsTrue
    <2>3. QED
      BY <1>1, <2>2, BrowserStep DEF Open
  <1>2. ASSUME page.is = "open" PROVE page \in PageType \ {NoPage}
    BY <1>2 DEF IInv, TypeOK, NoPage
  <1>3. CASE Answered
    <2> DEFINE s == Server(page.at)
    <2>1. s \in Procs /\ life[s] = "up"
      BY <1>3 DEF Answered, Idle
    <2>2. page \in PageType \ {NoPage}
      BY <1>2, <1>3 DEF Answered
    <2>3. CASE page' = Loaded(s, page.at, page.home)
      <3>1. page.at \in Procs \cup {Address} /\ page.home \in Procs \cup {Nobody}
        BY <2>2 DEF PageType
      <3>2. page' \in PageType /\ page'.claims = s /\ page'.shows = s
        BY <2>1, <2>3, <3>1, LoadedTyped DEF IInv
      <3>3. PageIsTrue'
        BY <1>3, <2>1, <3>2 DEF Answered, PageIsTrue
      <3>4. QED
        BY <1>3, <3>2, <3>3, BrowserStep DEF Answered
    <2>4. CASE page' = [page EXCEPT !.fails = 0, !.overlay = FALSE,
                          !.last = IF Granted(s) THEN "answered" ELSE "refused"]
      <3>1. 0 \in 0 .. DeadAfter
        BY ConsoleAssumption
      <3>2. /\ page' \in PageType /\ page'.claims = page.claims /\ page'.shows = page.shows
            /\ page'.is = page.is
        BY <2>2, <2>4, <3>1 DEF PageType
      <3>3. PageIsTrue'
        BY <1>3, <3>2 DEF Answered, IInv, PageIsTrue
      <3>4. QED
        BY <1>3, <3>2, <3>3, BrowserStep DEF Answered
    <2>5. QED
      BY <1>3, <2>3, <2>4 DEF Answered
  <1>4. CASE Missed
    <2>1. page \in PageType \ {NoPage}
      BY <1>2, <1>4 DEF Missed
    <2>2. page.fails + 1 \in 0 .. DeadAfter
      BY <1>4, <2>1, ConsoleAssumption DEF Missed, PageType
    <2>3. /\ page' \in PageType /\ page'.claims = page.claims /\ page'.shows = page.shows
          /\ page'.is = page.is
      BY <1>4, <2>1, <2>2 DEF Missed, PageType
    <2>4. PageIsTrue'
      BY <1>4, <2>3 DEF Missed, IInv, PageIsTrue
    <2>5. QED
      BY <1>4, <2>3, <2>4, BrowserStep DEF Missed
  <1>5. CASE Look
    <2> DEFINE s == page.from
               moved == Handed(s, page.at, page.home)
               there == Server(file[page.home].port)
    <2>1. /\ page \in PageType \ {NoPage} /\ life[s] = "up" /\ s \in Procs
          /\ page.home \in Procs /\ page.at \in Procs \cup {Address}
      BY <1>2, <1>5 DEF Look, Idle, PageType
    <2>2. CASE page' = [page EXCEPT !.claims = s, !.shows = s]
      <3>1. page' \in PageType /\ page'.claims = s /\ page'.shows = s
        BY <2>1, <2>2 DEF PageType
      <3>2. PageIsTrue'
        BY <1>5, <2>1, <3>1 DEF Look, PageIsTrue
      <3>3. QED
        BY <1>5, <3>1, <3>2, BrowserStep DEF Look
    <2>3. CASE page' = moved
      <3>1. /\ moved \in PageType /\ moved.claims \in Procs /\ moved.shows = moved.claims
            /\ life[moved.claims] = "up"
        <4>1. /\ s \in Procs /\ life[s] = "up" /\ page.at \in Procs \cup {Address}
              /\ page.home \in Procs \cup {Nobody}
          BY <2>1
        <4>2. QED
          BY <4>1, HandedTyped
      <3> HIDE DEF moved
      <3>2. page' \in PageType /\ PageIsTrue'
        BY <1>5, <2>3, <3>1 DEF Look, PageIsTrue
      <3>3. QED
        BY <1>5, <3>2, BrowserStep DEF Look
    <2>4. CASE page' = page
      <3>1. page' \in PageType /\ PageIsTrue'
        BY <1>5, <2>4 DEF Look, IInv, TypeOK, PageIsTrue
      <3>2. QED
        BY <1>5, <3>1, BrowserStep DEF Look
    <2>5. CASE /\ page.home \in Listed /\ there \in Procs
               /\ page' = [page EXCEPT !.claims = page.home, !.shows = there]
      <3>1. page' \in PageType /\ page'.claims = page.home /\ page'.shows = there
        BY <2>1, <2>5 DEF PageType
      <3>2. file[page.home].is = "fresh"
        BY <2>5 DEF Listed
      <3>3. life[page.home] # "new"
        BY <2>1, <3>2 DEF IInv, InOrder, OnlyWhileUp, NoFile
      <3>4. life[page.home] = "up" => there = page.home
        BY <2>1, <3>2, ServesItself
      <3>5. PageIsTrue'
        BY <1>5, <3>1, <3>3, <3>4 DEF Look, PageIsTrue
      <3>6. QED
        BY <1>5, <3>1, <3>5, BrowserStep DEF Look
    <2>6. QED
      BY <1>5, <2>2, <2>3, <2>4, <2>5 DEF Look
  <1>6. CASE Close
    <2>1. page' \in PageType /\ PageIsTrue'
      BY <1>6 DEF Close, PageType, PageIsTrue, NoPage
    <2>2. QED
      BY <1>6, <2>1, BrowserStep DEF Close
  <1>7. QED
    BY <1>1, <1>3, <1>4, <1>5, <1>6 DEF Browser

(* Nothing has been started.                                               *)
LEMMA InitKeeps == ASSUME Init PROVE IInv
  <1>1. TypeOK
    BY DEF Init, TypeOK, FileType, PageType, Roles
  <1>2. ASSUME NEW p \in Procs PROVE InOrder(p)
    BY ConsoleAssumption DEF Init, InOrder, OnlyWhileUp, RoleIsTrue, FileIsCurrent
  <1>3. PageIsTrue
    BY DEF Init, PageIsTrue, NoPage
  <1>4. QED
    BY <1>1, <1>2, <1>3 DEF IInv

(* Every step keeps the invariant.                                         *)
LEMMA NextKeeps == ASSUME IInv, [Next]_vars PROVE IInv'
  <1>1. ASSUME NEW p \in Procs,
               Start(p) \/ Turn(p) \/ Rotate(p) \/ Expire(p) \/ \E l \in BOOLEAN : Ends(p, l)
        PROVE  IInv'
    BY <1>1, StartKeeps, WrittenKeeps, WritingKeeps, QuietKeeps, EndsKeeps DEF Turn
  <1>2. CASE UNCHANGED vars
    BY <1>2, BrowserStep DEF vars, IInv, TypeOK, PageIsTrue
  <1>3. QED
    BY <1>1, <1>2, OutsideKeeps, BrowserKeeps DEF Next

(* The invariant holds in every behaviour.                                 *)
THEOREM Invariance == Spec => []IInv
BY InitKeeps, NextKeeps, PTL DEF Spec

(* The variables of the console keep their types: no page counts more       *)
(* failures than it takes to call a process dead.                          *)
THEOREM TypeCorrect == Spec => []TypeOK
  <1>1. IInv => TypeOK
    BY DEF IInv
  <1>2. QED
    BY <1>1, Invariance, PTL

(* Whenever a process's file can be read it says whether the process holds  *)
(* the address (audit-viewer.ts:2202-2220, 2460-2468).                     *)
THEOREM HolderIsTold == Spec => []HolderSaysSo
  <1>1. IInv => HolderSaysSo
    BY PortTyped DEF IInv, InOrder, RoleIsTrue, FileIsCurrent, HolderSaysSo
  <1>2. QED
    BY <1>1, Invariance, PTL

(* A page under the name of a living process shows that process             *)
(* (audit-viewer.ts:2425-2448, 643-735).                                   *)
THEOREM PageIsHonest == Spec => []UnderItsOwnName
  <1>1. IInv => UnderItsOwnName
    BY DEF IInv, PageIsTrue, UnderItsOwnName
  <1>2. QED
    BY <1>1, Invariance, PTL
=============================================================================
