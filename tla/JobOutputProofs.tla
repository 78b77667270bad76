---------------------------- MODULE JobOutputProofs ----------------------------
(***************************************************************************)
(* For any window, ring, sizes of reads and bounds: a job's log holds only  *)
(* what its own command printed, no harvest leaves a gap or shows a         *)
(* character twice, and the job with its readers implements CursorLog: an   *)
(* append-only log that every reader pages through without a gap, or is     *)
(* told from where.                                                        *)
(*                                                                         *)
(* A harvest copies what is new in the terminal's ring.  That it fits on    *)
(* the last one is a fact about the ring, seen from the job's cursor        *)
(* (Aligned): the first event behind the cursor begins where the last       *)
(* harvest ended, unless the ring has dropped it, which snapshotSince       *)
(* notices.  A completed job prints no more, and so may be harvested late   *)
(* (ended = printed).  A reader that leaves its cursor to the store reads    *)
(* on where the store thinks it is (CursorsMatch).                         *)
(***************************************************************************)
EXTENDS JobOutput, SequenceTheorems, WellFoundedInduction, TLAPS

(* The events kept, seen from the job's cursor: they end where the terminal  *)
(* does, none that is still to be harvested is from before the command, and *)
(* the next one, where it is still there, begins where the last harvest ended. *)
Aligned(events, last, shown, lastSeq, h) ==
  /\ \A i \in 1..Len(events) :
       /\ events[i].from <= shown
       /\ events[i].seq > lastSeq => events[i].from >= 0
       /\ events[i].seq = lastSeq + 1 => events[i].from = h
  /\ events # <<>> => events[Len(events)].to = shown
  /\ lastSeq = last => h = shown

(* Nobody reads ahead of the log, and the two cursors of a reader that uses  *)
(* the store's are one.                                                    *)
CursorsMatch(j, rd, n) ==
  /\ rd.next <= n /\ j.readCursor <= n
  /\ rd.style = "implicit" => j.readCursor = rd.next

IInv ==
  /\ TypeOK
  /\ Aligned(ring, cursor, printed, job.lastSeq, harvested)
  /\ Harvests => ended = printed
  /\ OnlyItsOwn
  /\ CursorsMatch(job, reader, Len(log))
-----------------------------------------------------------------------------
(* Numbers.                                                                *)

(* There is a well-founded relation that holds wherever < does.            *)
LEMMA LessIsWellFounded ==
    \E R : IsWellFoundedOn(R, Nat) /\ \A x, y \in Nat : x < y => <<x, y>> \in R
  <1>1. \A x, y \in Nat : x < y => <<x, y>> \in OpToRel(<, Nat)
    BY DEF OpToRel
  <1>2. QED
    BY <1>1, NatLessThanWellFounded, Zenon

(* A set of naturals with something in it has its least.                   *)
LEMMA MinOfNats ==
    ASSUME NEW S, S \subseteq Nat, S # {}
    PROVE  Min(S) \in S /\ \A n \in S : Min(S) <= n
  <1>1. PICK R : IsWellFoundedOn(R, Nat) /\ \A x, y \in Nat : x < y => <<x, y>> \in R
    BY LessIsWellFounded
  <1>2. IsWellFoundedOn(R, Nat)
    BY <1>1
  <1>3. \E m \in S : \A n \in S : ~(<<n, m>> \in R)
    BY <1>2, WFMin, Zenon
  <1>4. PICK m \in S : \A n \in S : ~(<<n, m>> \in R)
    BY <1>3
  <1>5. ASSUME NEW n \in S PROVE m <= n
    <2>1. m \in Nat /\ n \in Nat
      OBVIOUS
    <2>2. ~(n < m)
      BY <1>1, <1>4, <2>1, Zenon
    <2>3. QED
      BY <2>1, <2>2
  <1>6. QED
    BY <1>5 DEF Min

(* The greater and the lesser of two.                                      *)
LEMMA OfTwo ==
    ASSUME NEW a \in Int, NEW b \in Int
    PROVE  /\ Max({a, b}) = IF a >= b THEN a ELSE b
           /\ Min({a, b}) = IF a <= b THEN a ELSE b
  <1>1. CASE a >= b
    BY <1>1 DEF Max, Min
  <1>2. CASE ~(a >= b)
    BY <1>2 DEF Max, Min
  <1>3. QED
    BY <1>1, <1>2
-----------------------------------------------------------------------------
(* Sequences: the ring's events and the buffer's characters.               *)

(* Trimming drops from the front, and respects both caps.                  *)
LEMMA TrimmedTyped ==
    ASSUME NEW events \in Seq(Events), NEW cap \in Nat
    PROVE  LET t == Trimmed(events, cap)
           IN  /\ t \in Seq(Events) /\ Len(t) <= Len(events) /\ Len(t) <= cap /\ Bytes(t) <= RingBytes
               /\ \A i \in 1..Len(t) : t[i] = events[Len(events) - Len(t) + i]
  <1> DEFINE Ok == {n \in 0..Len(events) : /\ Len(events) - n <= cap
                                           /\ Bytes(Dropping(events, n)) <= RingBytes}
             m == Min(Ok)
             t == SubSeq(events, m + 1, Len(events))
  <1>1. Len(events) \in Nat /\ \A i \in 1..Len(events) : events[i] \in Events
    BY LenProperties, ElementOfSeq
  <1>2. Len(events) \in Ok
    <2>1. Dropping(events, Len(events)) = <<>>
      BY <1>1, SubSeqEmpty DEF Dropping
    <2>2. Bytes(<<>>) <= RingBytes
      BY JobOutputAssumption DEF Bytes
    <2>3. QED
      BY <1>1, <2>1, <2>2
  <1>3. Ok \subseteq Nat
    BY <1>1
  <1>4. m \in Ok
    <2> HIDE DEF Ok
    <2>1. QED
      BY <1>2, <1>3, MinOfNats
  <1>5. Trimmed(events, cap) = t
    BY DEF Trimmed, Dropping
  <1>6. m \in 0..Len(events) /\ Len(events) - m <= cap /\ Bytes(t) <= RingBytes
    BY <1>4 DEF Dropping
  <1> HIDE DEF m
  <1>7. /\ t \in Seq(Events) /\ Len(t) = Len(events) - m
        /\ \A i \in 1..(Len(events) - m) : t[i] = events[m + i]
    <2>1. \A i \in (m + 1)..Len(events) : events[i] \in Events
      BY <1>1, <1>6
    <2>2. m + 1 \in Int /\ Len(events) \in Int
      BY <1>1, <1>6
    <2>3. /\ t \in Seq(Events) /\ Len(t) = IF m + 1 <= Len(events) THEN Len(events) - (m + 1) + 1 ELSE 0
          /\ \A i \in 1..(Len(events) - (m + 1) + 1) : t[i] = events[(m + 1) + i - 1]
      BY <2>1, <2>2, SubSeqProperties
    <2> HIDE DEF t
    <2>4. QED
      BY <1>1, <1>6, <2>3
  <1> HIDE DEF t
  <1>8. QED
    BY <1>1, <1>5, <1>6, <1>7

(* The last n of a sequence.                                               *)
LEMMA LastTyped ==
    ASSUME NEW s \in Seq(Int), NEW n \in Nat \ {0}
    PROVE  /\ Last(s, n) \in Seq(Int)
           /\ Len(Last(s, n)) = IF Len(s) <= n THEN Len(s) ELSE n
           /\ \A i \in 1..Len(Last(s, n)) : Last(s, n)[i] = s[Len(s) - Len(Last(s, n)) + i]
  <1>1. Len(s) \in Nat /\ \A i \in 1..Len(s) : s[i] \in Int
    BY LenProperties, ElementOfSeq
  <1> DEFINE m == Max({1, Len(s) - n + 1})
             t == SubSeq(s, m, Len(s))
  <1>2. m = IF 1 >= Len(s) - n + 1 THEN 1 ELSE Len(s) - n + 1
    BY <1>1, OfTwo
  <1> HIDE DEF m
  <1>3. m \in Nat \ {0} /\ \A i \in m..Len(s) : s[i] \in Int
    BY <1>1, <1>2
  <1>4. /\ t \in Seq(Int) /\ Len(t) = IF m <= Len(s) THEN Len(s) - m + 1 ELSE 0
        /\ \A i \in 1..(Len(s) - m + 1) : t[i] = s[m + i - 1]
    BY <1>1, <1>3, SubSeqProperties
  <1>5. Last(s, n) = t
    BY DEF Last, m
  <1> HIDE DEF t
  <1>6. Len(t) = Len(s) - m + 1 /\ Len(t) = IF Len(s) <= n THEN Len(s) ELSE n
    <2>1. Len(t) = IF m <= Len(s) THEN Len(s) - m + 1 ELSE 0
      BY <1>4
    <2>2. Len(s) \in Nat /\ m \in Nat /\ n \in Nat /\ n > 0
      BY <1>1, <1>3
    <2>3. CASE Len(s) <= n
      <3>1. m = 1
        BY <1>2, <2>2, <2>3
      <3>2. QED
        BY <2>1, <2>2, <2>3, <3>1
    <2>4. CASE ~(Len(s) <= n)
      <3>1. m = Len(s) - n + 1
        BY <1>2, <2>2, <2>4
      <3>2. QED
        BY <2>1, <2>2, <2>4, <3>1
    <2>5. QED
      BY <2>3, <2>4
  <1>7. ASSUME NEW i \in 1..Len(t)
        PROVE  t[i] = s[Len(s) - Len(t) + i]
    <2>1. t[i] = s[m + i - 1]
      BY <1>4, <1>6
    <2>2. Len(s) - Len(t) + i = m + i - 1
      BY <1>1, <1>3, <1>6
    <2>3. QED
      BY <2>1, <2>2
  <1>8. QED
    BY <1>4, <1>5, <1>6, <1>7

(* What the buffer holds of a log that grows is the end of the log.        *)
LEMMA LastOfConcat ==
    ASSUME NEW s \in Seq(Int), NEW t \in Seq(Int), NEW n \in Nat \ {0}
    PROVE  Last(Last(s, n) \o t, n) = Last(s \o t, n)
  <1> DEFINE l == Last(s, n)
             a == Last(l \o t, n)
             b == Last(s \o t, n)
  <1>1. /\ l \in Seq(Int) /\ Len(l) = IF Len(s) <= n THEN Len(s) ELSE n
        /\ \A i \in 1..Len(l) : l[i] = s[Len(s) - Len(l) + i]
    BY LastTyped
  <1> HIDE DEF l
  <1>2. /\ Len(s) \in Nat /\ Len(t) \in Nat /\ Len(l) \in Nat
        /\ s \o t \in Seq(Int) /\ l \o t \in Seq(Int)
        /\ Len(s \o t) = Len(s) + Len(t) /\ Len(l \o t) = Len(l) + Len(t)
        /\ \A i \in 1..(Len(s) + Len(t)) : (s \o t)[i] = IF i <= Len(s) THEN s[i] ELSE t[i - Len(s)]
        /\ \A i \in 1..(Len(l) + Len(t)) : (l \o t)[i] = IF i <= Len(l) THEN l[i] ELSE t[i - Len(l)]
    BY ZenonT(40), <1>1, LenProperties, ConcatProperties
  <1>3. /\ a \in Seq(Int) /\ Len(a) = IF Len(l \o t) <= n THEN Len(l \o t) ELSE n
        /\ \A i \in 1..Len(a) : a[i] = (l \o t)[Len(l \o t) - Len(a) + i]
    BY <1>2, LastTyped
  <1>4. /\ b \in Seq(Int) /\ Len(b) = IF Len(s \o t) <= n THEN Len(s \o t) ELSE n
        /\ \A i \in 1..Len(b) : b[i] = (s \o t)[Len(s \o t) - Len(b) + i]
    BY <1>2, LastTyped
  <1> HIDE DEF a, b
  <1> DEFINE ls == Len(s)  lt == Len(t)  ll == Len(l)  la == Len(a)
  <1>5. /\ ls \in Nat /\ lt \in Nat /\ ll \in Nat /\ la \in Nat
        /\ ll = (IF ls <= n THEN ls ELSE n) /\ la = (IF ll + lt <= n THEN ll + lt ELSE n)
        /\ Len(b) = (IF ls + lt <= n THEN ls + lt ELSE n)
    BY <1>1, <1>2, <1>3, <1>4
  <1>9. Len(b) = la
    BY <1>5
  <1>6. ASSUME NEW i \in 1..la
        PROVE  a[i] = b[i]
    <2> DEFINE x == ll + lt - la + i
               y == ls + lt - la + i
    <2>2. a[i] = (l \o t)[x] /\ b[i] = (s \o t)[y]
      <3>1. a[i] = (l \o t)[Len(l \o t) - la + i]
        BY <1>3
      <3>2. b[i] = (s \o t)[Len(s \o t) - la + i]
        BY <1>4, <1>9
      <3>3. Len(l \o t) = ll + lt /\ Len(s \o t) = ls + lt
        BY <1>2
      <3>4. QED
        BY <3>1, <3>2, <3>3
    <2>3. /\ (x <= ll /\ x \in 1..ll /\ x \in 1..(ll + lt) /\ y \in 1..(ls + lt) /\ y <= ls /\ y = ls - ll + x)
             \/ (~(x <= ll) /\ x \in 1..(ll + lt) /\ y \in 1..(ls + lt) /\ ~(y <= ls) /\ x - ll = y - ls)
      <3> HIDE DEF ls, lt, ll, la
      <3>1. QED
        BY <1>5
    <2> HIDE DEF x, y
    <2>4. CASE x <= ll
      <3>1. x \in 1..ll /\ x \in 1..(ll + lt) /\ y \in 1..(ls + lt) /\ y <= ls /\ y = ls - ll + x
        BY <2>3, <2>4
      <3>2. (l \o t)[x] = l[x] /\ (s \o t)[y] = s[y]
        BY <1>2, <3>1
      <3>3. l[x] = s[y]
        BY <1>1, <3>1
      <3>4. QED
        BY <2>2, <3>2, <3>3
    <2>5. CASE ~(x <= ll)
      <3>1. x \in 1..(ll + lt) /\ y \in 1..(ls + lt) /\ ~(y <= ls) /\ x - ll = y - ls
        BY <2>3, <2>5
      <3>2. (l \o t)[x] = t[x - ll] /\ (s \o t)[y] = t[y - ls]
        BY <1>2, <2>5, <3>1
      <3>3. QED
        BY <2>2, <3>1, <3>2
    <2>6. QED
      BY <2>4, <2>5
  <1>7. a = b
    BY <1>3, <1>4, <1>9, <1>6, SeqEqual
  <1>8. QED
    BY <1>7 DEF a, b, l
-----------------------------------------------------------------------------
(* The harvest.                                                            *)

Jobs(last) == [state : {"RUNNING", "VERIFYING", "STOPPED", "LOST", "DELETED"},
               lastSeq : 0..last, output : Seq(Int), producedChars : Nat, readCursor : Nat]

(* The ring, event by event.                                               *)
LEMMA RingTyped ==
    ASSUME TypeOK
    PROVE  /\ Len(ring) \in Nat /\ cursor \in Nat /\ printed \in Nat
           /\ \A i \in 1..Len(ring) : /\ ring[i] \in Events /\ ring[i].seq = cursor - Len(ring) + i
                                      /\ ring[i].from \in Int /\ ring[i].to \in Int
           /\ ring # <<>> => Len(ring) \in 1..Len(ring) /\ ring[Len(ring)].seq = cursor
  <1>1. ring \in Seq(Events) /\ cursor \in Nat /\ printed \in Nat
        /\ \A i \in 1..Len(ring) : ring[i].seq = cursor - Len(ring) + i
    BY DEF TypeOK
  <1>2. Len(ring) \in Nat /\ \A i \in 1..Len(ring) : ring[i] \in Events
    BY <1>1, LenProperties, ElementOfSeq
  <1>3. \A i \in 1..Len(ring) : ring[i].from \in Int /\ ring[i].to \in Int
    BY <1>2 DEF Events
  <1>4. ring # <<>> => Len(ring) \in Nat \ {0}
    BY <1>1, EmptySeq
  <1>5. ring # <<>> => Len(ring) \in 1..Len(ring) /\ ring[Len(ring)].seq = cursor
    BY <1>1, <1>2, <1>4
  <1>6. QED
    BY <1>1, <1>2, <1>3, <1>5

(* The characters from an event on are those up to where the terminal is.    *)
LEMMA CharactersTyped ==
    ASSUME TypeOK, NEW lastSeq, NEW h, Aligned(ring, cursor, printed, lastSeq, h),
           NEW i \in 1..Len(ring), ring[i].seq > lastSeq
    PROVE  /\ CharactersFrom(i) = [k \in 1..(printed - ring[i].from) |-> ring[i].from + k]
           /\ printed - ring[i].from \in Nat /\ ring[i].from \in Nat
           /\ CharactersFrom(i) \in Seq(Int) /\ Len(CharactersFrom(i)) = printed - ring[i].from
           /\ \A k \in 1..Len(CharactersFrom(i)) : CharactersFrom(i)[k] \in 1..printed
  <1>1. /\ ring[i].from \in Int /\ printed \in Nat /\ ring[i].from <= printed /\ ring[i].from >= 0
    BY RingTyped DEF Aligned
  <1>2. ring # <<>>
    BY RingTyped
  <1>3. ring[Len(ring)].to = printed
    BY <1>2 DEF Aligned
  <1> DEFINE from == ring[i].from
             n == printed - from
             f == [k \in 1..n |-> from + k]
  <1>4. CharactersFrom(i) = f
    BY <1>3 DEF CharactersFrom
  <1>5. n \in Nat /\ from \in Nat
    BY <1>1
  <1> HIDE DEF from
  <1>6. \A k \in 1..n : from + k \in Int /\ from + k \in 1..printed
    BY <1>1, <1>5 DEF from
  <1> HIDE DEF n
  <1>7. f \in [1..n -> Int]
    BY <1>6
  <1>8. f \in Seq(Int) /\ Len(f) = n
    BY SMTT(30), <1>5, <1>7, SeqDef
  <1>9. \A k \in 1..Len(f) : f[k] \in 1..printed
    BY <1>6, <1>8
  <1>10. QED
    BY <1>4, <1>5, <1>8, <1>9 DEF n, from

(* What a harvest takes up is on the terminal, and not from before the       *)
(* command.                                                                *)
LEMMA FreshTyped ==
    ASSUME TypeOK, NEW lastSeq, NEW h, Aligned(ring, cursor, printed, lastSeq, h)
    PROVE  Fresh(lastSeq) \in Seq(Int) /\ \A i \in 1..Len(Fresh(lastSeq)) : Fresh(lastSeq)[i] \in 1..printed
  <1>1. CASE Newer(lastSeq) = {}
    <2>1. Fresh(lastSeq) = <<>> /\ <<>> \in Seq(Int) /\ Len(<<>>) = 0
      BY <1>1, EmptySeq DEF Fresh
    <2>2. QED
      BY <2>1
  <1>2. CASE Newer(lastSeq) # {}
    <2> DEFINE m == Min(Newer(lastSeq))
    <2>1. Newer(lastSeq) \subseteq Nat
      BY RingTyped DEF Newer
    <2>2. m \in Newer(lastSeq)
      BY <1>2, <2>1, MinOfNats
    <2>3. m \in 1..Len(ring) /\ ring[m].seq > lastSeq
      BY <2>2 DEF Newer
    <2>4. Fresh(lastSeq) = CharactersFrom(m)
      BY <1>2 DEF Fresh
    <2> HIDE DEF m
    <2>5. QED
      BY <2>3, <2>4, CharactersTyped
  <1>3. QED
    BY <1>1, <1>2

(* Where the ring reaches back, it is all since the last harvest.           *)
LEMMA FreshIsWhole ==
    ASSUME TypeOK, Aligned(ring, cursor, printed, job.lastSeq, harvested),
           cursor # job.lastSeq, ring # <<>>, ring[1].seq <= job.lastSeq + 1
    PROVE  Fresh(job.lastSeq) = [i \in 1..(printed - harvested) |-> harvested + i]
  <1> DEFINE last == job.lastSeq
             m == last + 1 - cursor + Len(ring)
  <1>1. last \in 0..cursor
    BY DEF TypeOK
  <1>2. last \in Nat /\ last < cursor /\ Len(ring) \in Nat \ {0}
    BY <1>1, RingTyped
  <1> HIDE DEF last
  <1>3. ring[1].seq = cursor - Len(ring) + 1
    BY <1>2, RingTyped
  <1>4. m \in 1..Len(ring) /\ cursor - Len(ring) + m = last + 1
    BY SMTT(30), <1>2, <1>3, RingTyped DEF last
  <1> HIDE DEF m
  <1>5. ring[m].seq = last + 1
    BY <1>4, RingTyped
  <1>6. m \in Newer(last)
    BY <1>2, <1>4, <1>5 DEF Newer
  <1>7. ASSUME NEW k \in Newer(last)
        PROVE  m <= k
    <2>1. k \in 1..Len(ring) /\ ring[k].seq > last /\ ring[k].seq = cursor - Len(ring) + k
      BY <1>7, RingTyped DEF Newer
    <2>2. QED
      BY <1>2, <1>4, <2>1, RingTyped
  <1>8. Newer(last) \subseteq Nat
    BY RingTyped DEF Newer
  <1>9. Min(Newer(last)) = m
    <2>1. Min(Newer(last)) \in Newer(last) /\ \A n \in Newer(last) : Min(Newer(last)) <= n
      BY <1>6, <1>8, MinOfNats
    <2>2. Min(Newer(last)) <= m /\ m <= Min(Newer(last)) /\ Min(Newer(last)) \in Nat /\ m \in Nat
      BY <1>6, <1>7, <1>8, <2>1
    <2>3. QED
      BY <2>2
  <1>10. Fresh(last) = CharactersFrom(m)
    BY <1>6, <1>9 DEF Fresh
  <1>11. ring[m].from = harvested
    BY <1>4, <1>5 DEF Aligned, last
  <1>12. ring[m].seq > last
    BY <1>2, <1>5
  <1>13. CharactersFrom(m) = [k \in 1..(printed - ring[m].from) |-> ring[m].from + k]
    BY <1>4, <1>12, CharactersTyped DEF last
  <1>14. QED
    BY <1>10, <1>11, <1>13 DEF last
-----------------------------------------------------------------------------
(* The ring: what is recorded, and what is dropped.                        *)

Listed(events, last) ==
  events \in Seq(Events) /\ \A i \in 1..Len(events) : events[i].seq = last - Len(events) + i

(* What is left of an aligned ring is aligned, and within the caps.         *)
LEMMA TrimKept ==
    ASSUME NEW events, NEW last \in Nat, Listed(events, last), NEW cap \in Nat,
           NEW shown, NEW lastSeq, NEW h, Aligned(events, last, shown, lastSeq, h)
    PROVE  LET t == Trimmed(events, cap)
           IN  /\ Listed(t, last) /\ Len(t) <= cap /\ Bytes(t) <= RingBytes
               /\ Aligned(t, last, shown, lastSeq, h)
  <1> DEFINE t == Trimmed(events, cap)
             d == Len(events) - Len(t)
  <1>1. /\ t \in Seq(Events) /\ Len(t) <= Len(events) /\ Len(t) <= cap /\ Bytes(t) <= RingBytes
        /\ \A i \in 1..Len(t) : t[i] = events[Len(events) - Len(t) + i]
    BY TrimmedTyped DEF Listed
  <1> HIDE DEF t
  <1>2. Len(t) \in Nat /\ Len(events) \in Nat /\ d \in Nat
    BY <1>1, LenProperties DEF Listed
  <1>3. \A i \in 1..Len(t) : d + i \in 1..Len(events) /\ t[i] = events[d + i]
    BY <1>1, <1>2
  <1>4. ASSUME NEW i \in 1..Len(t)
        PROVE  /\ t[i].seq = last - Len(t) + i
               /\ t[i].from <= shown
               /\ t[i].seq > lastSeq => t[i].from >= 0
               /\ t[i].seq = lastSeq + 1 => t[i].from = h
    <2>1. d + i \in 1..Len(events) /\ t[i] = events[d + i]
      BY <1>3
    <2>2. events[d + i].seq = last - Len(events) + (d + i)
      BY <2>1 DEF Listed
    <2>3. last - Len(events) + (d + i) = last - Len(t) + i
      BY <1>2
    <2>4. QED
      BY <2>1, <2>2, <2>3 DEF Aligned
  <1>5. ASSUME t # <<>>
        PROVE  t[Len(t)].to = shown
    <2>1. Len(t) \in Nat \ {0}
      BY <1>1, <1>5, EmptySeq
    <2>2. t[Len(t)] = events[Len(events)]
      BY <1>2, <1>3, <2>1
    <2>3. events # <<>>
      BY <1>2, <1>1, <2>1, EmptySeq
    <2>4. QED
      BY <2>2, <2>3 DEF Aligned
  <1>6. lastSeq = last => h = shown
    BY DEF Aligned
  <1>7. QED
    BY <1>1, <1>4, <1>5, <1>6 DEF Listed, Aligned, t

(* A recorded event is aligned with those before it.                       *)
LEMMA PushKept ==
    ASSUME TypeOK, NEW lastSeq \in 0..cursor, NEW h, Aligned(ring, cursor, printed, lastSeq, h),
           NEW n \in Nat, Push(n)
    PROVE  /\ Listed(ring', cursor') /\ Len(ring') <= maxEvents' /\ Bytes(ring') <= RingBytes
           /\ Aligned(ring', cursor', printed', lastSeq, h)
           /\ cursor' = cursor + 1 /\ printed' = printed + n /\ maxEvents' = maxEvents
  <1> DEFINE e == [seq |-> cursor + 1, from |-> printed, to |-> printed + n]
             events == Append(ring, e)
  <1>1. /\ ring \in Seq(Events) /\ cursor \in Nat /\ printed \in Nat /\ maxEvents \in Nat
        /\ Len(ring) \in Nat
    BY RingTyped, JobOutputAssumption DEF TypeOK
  <1>2. /\ e \in Events /\ e.seq = cursor + 1 /\ e.from = printed /\ e.to = printed + n
    BY <1>1 DEF Events
  <1>3. /\ cursor' = cursor + 1 /\ printed' = printed + n /\ maxEvents' = maxEvents
        /\ ring' = Trimmed(events, maxEvents)
    BY DEF Push
  <1> HIDE DEF e
  <1>4. /\ events \in Seq(Events) /\ Len(events) = Len(ring) + 1 /\ events # <<>>
        /\ \A i \in 1..Len(ring) : events[i] = ring[i]
        /\ events[Len(ring) + 1] = e
    BY <1>1, <1>2, AppendProperties
  <1> HIDE DEF events
  <1>5. ASSUME NEW i \in 1..Len(events)
        PROVE  /\ events[i].seq = (cursor + 1) - Len(events) + i
               /\ events[i].from <= printed + n
               /\ events[i].seq > lastSeq => events[i].from >= 0
               /\ events[i].seq = lastSeq + 1 => events[i].from = h
    <2>1. CASE i \in 1..Len(ring)
      <3>1. events[i] = ring[i] /\ ring[i].seq = cursor - Len(ring) + i /\ ring[i].from \in Int
        BY <1>4, <2>1, RingTyped
      <3>2. (cursor + 1) - Len(events) + i = cursor - Len(ring) + i
        BY <1>1, <1>4
      <3>3. /\ ring[i].from <= printed
            /\ ring[i].seq > lastSeq => ring[i].from >= 0
            /\ ring[i].seq = lastSeq + 1 => ring[i].from = h
        BY <2>1 DEF Aligned
      <3>4. ring[i].from <= printed + n
        BY <1>1, <3>1, <3>3
      <3>5. QED
        BY <3>1, <3>2, <3>3, <3>4
    <2>2. CASE i = Len(ring) + 1
      <3>1. events[i] = e
        BY <1>4, <2>2
      <3>2. lastSeq = cursor => h = printed
        BY DEF Aligned
      <3>3. (cursor + 1) - Len(events) + i = cursor + 1
        BY <1>1, <1>4, <2>2
      <3>4. QED
        BY <1>1, <1>2, <3>1, <3>2, <3>3
    <2>3. QED
      BY <1>1, <1>4, <2>1, <2>2
  <1>6. Listed(events, cursor + 1)
    <2>1. \A i \in 1..Len(events) : events[i].seq = (cursor + 1) - Len(events) + i
      BY <1>5
    <2>2. cursor + 1 \in Nat /\ Len(events) \in Nat
      BY <1>1, <1>4
    <2>3. QED
      BY <1>4, <2>1, <2>2 DEF Listed
  <1>7. events[Len(events)].to = printed + n
    BY <1>2, <1>4
  <1>8. lastSeq # cursor + 1
    BY <1>1
  <1>9. Aligned(events, cursor + 1, printed + n, lastSeq, h)
    BY <1>5, <1>7, <1>8 DEF Aligned
  <1>10. cursor + 1 \in Nat
    BY <1>1
  <1>11. QED
    BY <1>1, <1>3, <1>6, <1>9, <1>10, TrimKept
-----------------------------------------------------------------------------
(* The pump.                                                               *)

(* What a pump leaves, as a record and as history.                         *)
Pumps(j) ==
  /\ \E f \in Seq(Int) : log' = log \o f
  /\ log' \in Seq(Int) /\ harvested' \in 0..printed
  /\ \A i \in 1..Len(log') : log'[i] \in 1..ended
  /\ j \in Jobs(cursor) /\ j.producedChars = Len(log') /\ j.output = Last(log', Window)
  /\ j.readCursor = job.readCursor
  /\ Aligned(ring, cursor, printed, j.lastSeq, harvested')
  /\ j.state = "RUNNING" /\ owned => ended = printed

(* What TypeOK says of the job and its counters, as facts to cite.         *)
LEMMA JobTyped ==
    ASSUME TypeOK
    PROVE  /\ job \in Jobs(cursor) /\ job.lastSeq \in 0..cursor /\ cursor \in Nat
           /\ log \in Seq(Int) /\ job.producedChars = Len(log) /\ job.output = Last(log, Window)
           /\ Window \in Nat \ {0} /\ job.readCursor \in Nat
           /\ {ended, harvested} \subseteq 0..printed /\ printed \in Nat /\ owned \in BOOLEAN
BY JobOutputAssumption DEF TypeOK, Jobs

(* A harvest is a pump.                                                    *)
LEMMA HarvestPumps ==
    ASSUME IInv, Harvests, Remember
    PROVE  Pumps(Harvest) /\ Pumps([Harvest EXCEPT !.state = "VERIFYING"])
  <1> DEFINE f == Fresh(job.lastSeq)
             new == log \o f
             last == IF ring = <<>> THEN job.lastSeq ELSE Max({job.lastSeq, ring[Len(ring)].seq})
             out == Last(job.output \o f, Window)
             n == job.producedChars + Len(f)
             j == [job EXCEPT !.lastSeq = last, !.output = out, !.producedChars = n]
  <1>1. TypeOK /\ Aligned(ring, cursor, printed, job.lastSeq, harvested) /\ ended = printed /\ OnlyItsOwn
    BY DEF IInv
  <1>2. f \in Seq(Int) /\ \A i \in 1..Len(f) : f[i] \in 1..printed
    BY <1>1, FreshTyped
  <1>3. log' = new /\ harvested' = printed
    BY DEF Remember
  <1>4. Harvest = j
    BY DEF Harvest
  <1> HIDE DEF f
  <1>5. Len(f) \in Nat /\ Len(log) \in Nat /\ log \in Seq(Int)
    BY <1>1, <1>2, JobTyped, LenProperties
  <1>6. /\ new \in Seq(Int) /\ Len(new) = Len(log) + Len(f)
        /\ \A i \in 1..(Len(log) + Len(f)) : new[i] = IF i <= Len(log) THEN log[i] ELSE f[i - Len(log)]
    BY <1>2, <1>5, ConcatProperties
  <1> HIDE DEF new
  <1>7. ASSUME NEW i \in 1..Len(new)
        PROVE  new[i] \in 1..ended
    <2>1. CASE i <= Len(log)
      BY SMTT(30), <1>1, <1>5, <1>6, <2>1 DEF OnlyItsOwn
    <2>2. CASE ~(i <= Len(log))
      <3>1. i - Len(log) \in 1..Len(f)
        BY <1>5, <1>6, <2>2
      <3>2. QED
        BY <1>1, <1>2, <1>5, <1>6, <2>2, <3>1
    <2>3. QED
      BY <2>1, <2>2
  <1>8. out = Last(new, Window) /\ out \in Seq(Int)
    <2>1. Window \in Nat \ {0} /\ job.output = Last(log, Window)
      BY <1>1, JobTyped
    <2>2. Last(Last(log, Window) \o f, Window) = Last(log \o f, Window)
      BY <1>2, <1>5, <2>1, LastOfConcat
    <2>3. out = Last(new, Window)
      BY <2>1, <2>2 DEF new
    <2>4. QED
      BY <1>6, <2>1, <2>3, LastTyped
  <1>9. n = Len(new) /\ n \in Nat
    BY <1>1, <1>5, <1>6, JobTyped
  <1>10. last \in 0..cursor /\ (ring # <<>> => last = cursor) /\ (ring = <<>> => last = job.lastSeq)
    <2>1. job.lastSeq \in Int /\ job.lastSeq <= cursor /\ job.lastSeq >= 0 /\ cursor \in Nat
      BY <1>1, JobTyped
    <2>2. CASE ring = <<>>
      BY <1>1, <2>2, JobTyped
    <2>3. CASE ring # <<>>
      <3>1. ring[Len(ring)].seq = cursor
        BY <1>1, <2>3, RingTyped
      <3>2. Max({job.lastSeq, cursor}) = cursor
        BY <2>1, OfTwo
      <3>3. QED
        BY <2>1, <2>3, <3>1, <3>2
    <2>4. QED
      BY <2>2, <2>3
  <1> HIDE DEF out, n, last
  <1>11. Aligned(ring, cursor, printed, last, printed)
    <2>1. CASE ring = <<>>
      <3>1. Len(ring) = 0
        BY <2>1
      <3>2. QED
        BY <2>1, <3>1 DEF Aligned
    <2>2. CASE ring # <<>>
      <3>1. last = cursor
        BY <1>10, <2>2
      <3>2. ASSUME NEW i \in 1..Len(ring)
            PROVE  ~(ring[i].seq > cursor) /\ ring[i].seq # cursor + 1
        <4>1. Len(ring) \in Nat /\ cursor \in Nat /\ ring[i].seq = cursor - Len(ring) + i
          BY <1>1, RingTyped
        <4>2. QED
          BY <4>1
      <3>3. QED
        BY <1>1, <3>1, <3>2 DEF Aligned
    <2>3. QED
      BY <2>1, <2>2
  <1>12. ASSUME NEW state \in {"RUNNING", "VERIFYING"}, NEW k, k = [j EXCEPT !.state = state]
         PROVE  Pumps(k)
    <2>1. /\ k \in Jobs(cursor) /\ k.lastSeq = last /\ k.output = out /\ k.producedChars = n
          /\ k.readCursor = job.readCursor
      BY <1>1, <1>8, <1>9, <1>10, <1>12, JobTyped DEF Jobs
    <2>2. \E g \in Seq(Int) : log' = log \o g
      BY <1>2, <1>3 DEF new
    <2>3. printed \in 0..printed
      BY <1>1, JobTyped
    <2>4. QED
      BY <1>1, <1>3, <1>6, <1>7, <1>8, <1>9, <1>11, <2>1, <2>2, <2>3 DEF Pumps
  <1>13. j = [j EXCEPT !.state = "RUNNING"]
    <2>1. job \in Jobs(cursor) /\ job.state = "RUNNING"
      BY <1>1, JobTyped DEF Harvests
    <2>2. QED
      BY <2>1 DEF Jobs
  <1>14. QED
    BY <1>4, <1>12, <1>13

(* So is everything that may become of a job.                              *)
LEMMA PumpedPumps ==
    ASSUME IInv, Remember, NEW j \in Pumped
    PROVE  Pumps(j)
  <1>1. CASE Harvests
    <2>1. job.state = "RUNNING" /\ ~Over
      BY <1>1 DEF Harvests, Over
    <2>2. j \in {Harvest, [Harvest EXCEPT !.state = "VERIFYING"]}
      BY <1>1, <2>1 DEF Pumped
    <2>3. QED
      BY <1>1, <2>2, HarvestPumps
  <1>2. CASE ~Harvests
    <2>1. \/ j = job
          \/ j = [job EXCEPT !.state = "LOST"]
          \/ j = [job EXCEPT !.state = "DELETED"]
      BY <1>2 DEF Pumped
    <2>2. TypeOK /\ Aligned(ring, cursor, printed, job.lastSeq, harvested) /\ OnlyItsOwn
      BY DEF IInv
    <2>3. log' = log \o <<>> /\ harvested' = harvested
      BY <1>2 DEF Remember
    <2>4. log' = log /\ <<>> \in Seq(Int)
      BY <2>2, <2>3, JobTyped, ConcatEmptySeq, EmptySeq
    <2>5. job \in Jobs(cursor) /\ (job.state = "RUNNING" /\ owned => ended = printed)
      BY <2>2, JobTyped DEF IInv, Harvests
    <2>6. /\ j \in Jobs(cursor) /\ j.lastSeq = job.lastSeq /\ j.output = job.output
          /\ j.producedChars = job.producedChars /\ j.readCursor = job.readCursor
          /\ j.state = "RUNNING" => job.state = "RUNNING"
      BY <2>1, <2>5 DEF Jobs
    <2>7. QED
      BY <2>2, <2>3, <2>4, <2>5, <2>6, JobTyped DEF Pumps, OnlyItsOwn
  <1>3. QED
    BY <1>1, <1>2
-----------------------------------------------------------------------------
(* The reader.                                                             *)

(* A piece of a sequence, read from behind a place to another.             *)
LEMMA PieceTyped ==
    ASSUME NEW s, NEW a \in Nat, NEW b \in Nat, a <= b, \A i \in (a + 1)..b : s[i] \in Int
    PROVE  /\ SubSeq(s, a + 1, b) \in Seq(Int) /\ Len(SubSeq(s, a + 1, b)) = b - a
           /\ \A i \in 1..(b - a) : SubSeq(s, a + 1, b)[i] = s[a + i]
  <1> DEFINE piece == SubSeq(s, a + 1, b)
  <1>1. a + 1 \in Int /\ b \in Int
    OBVIOUS
  <1>2. /\ piece \in Seq(Int) /\ Len(piece) = IF a + 1 <= b THEN b - (a + 1) + 1 ELSE 0
        /\ \A i \in 1..(b - (a + 1) + 1) : piece[i] = s[(a + 1) + i - 1]
    BY <1>1, SubSeqProperties
  <1> HIDE DEF piece
  <1>3. b - (a + 1) + 1 = b - a /\ (~(a + 1 <= b) => b - a = 0)
    OBVIOUS
  <1>4. ASSUME NEW i \in 1..(b - a) PROVE piece[i] = s[a + i]
    <2>1. (a + 1) + i - 1 = a + i
      OBVIOUS
    <2>2. QED
      BY <1>2, <1>3, <2>1
  <1>5. QED
    BY <1>2, <1>3, <1>4 DEF piece

(* An answer is the part of the log from where it was asked for, or from the *)
(* first character the buffer still has, and says how many it leaves out.    *)
LEMMA WindowTyped ==
    ASSUME NEW s \in Seq(Int), NEW j, j.output = Last(s, Window), j.producedChars = Len(s),
           NEW requested \in 0..Len(s), NEW maxChars \in Nat \ {0}
    PROVE  LET w == WindowOf(j, requested, maxChars)
           IN  \E first \in requested..Len(s) : \E last \in first..Len(s) :
                 /\ w.chunk = SubSeq(s, first + 1, last) /\ w.nextSeq = last
                 /\ w.droppedChars = first - requested
  <1> DEFINE all == Len(s)
             out == Last(s, Window)
             held == Len(out)
             start == all - held
             begin == Max({requested, start})
             offset == Min({begin - start, held})
             end == Min({offset + maxChars, held})
             chunk == SubSeq(out, offset + 1, end)
             last == begin + Len(chunk)
             part == SubSeq(s, begin + 1, last)
  <1>1. /\ out \in Seq(Int) /\ all \in Nat /\ held \in Nat /\ held <= all
        /\ \A i \in 1..held : out[i] = s[start + i]
    <2>1. Window \in Nat \ {0}
      BY JobOutputAssumption
    <2>2. all \in Nat
      BY LenProperties
    <2>3. /\ out \in Seq(Int) /\ held = (IF all <= Window THEN all ELSE Window)
          /\ \A i \in 1..held : out[i] = s[start + i]
      BY <2>1, LastTyped
    <2>4. held \in Nat /\ held <= all
      BY <2>1, <2>2, <2>3
    <2>5. QED
      BY <2>2, <2>3, <2>4
  <1>2. \A i \in 1..all : s[i] \in Int
    BY ElementOfSeq
  <1>3. \A i \in 1..held : out[i] \in Int
    BY <1>1, ElementOfSeq
  <1> HIDE DEF all, out, held
  <1>4. requested \in Nat /\ requested <= all /\ start \in Nat /\ start <= all
    BY <1>1 DEF all
  <1>5. /\ begin = (IF requested >= start THEN requested ELSE start)
        /\ Max({0, start - requested}) = IF 0 >= start - requested THEN 0 ELSE start - requested
    BY <1>4, OfTwo
  <1> HIDE DEF begin
  <1>6. /\ begin \in requested..all /\ begin \in Nat /\ begin >= start
        /\ Max({0, start - requested}) = begin - requested
    BY <1>1, <1>4, <1>5
  <1>7. offset = begin - start /\ offset \in Nat /\ offset <= held
    <2>1. offset = IF begin - start <= held THEN begin - start ELSE held
      <3>1. begin - start \in Int /\ held \in Int
        BY <1>1, <1>4, <1>6
      <3> HIDE DEF start
      <3>2. QED
        BY <3>1, OfTwo
    <2>2. begin - start <= held
      BY <1>1, <1>4, <1>6
    <2>3. QED
      BY <1>1, <1>4, <1>6, <2>1, <2>2
  <1> HIDE DEF offset
  <1>8. end \in Nat /\ offset <= end /\ end <= held
    <2>1. end = IF offset + maxChars <= held THEN offset + maxChars ELSE held
      <3>1. offset + maxChars \in Int /\ held \in Int
        BY <1>1, <1>7
      <3>2. QED
        BY <3>1, OfTwo
    <2>2. QED
      BY <1>1, <1>7, <2>1
  <1> HIDE DEF end
  <1>9. /\ chunk \in Seq(Int) /\ Len(chunk) = end - offset
        /\ \A i \in 1..(end - offset) : chunk[i] = out[offset + i]
    <2>1. \A i \in (offset + 1)..end : out[i] \in Int
      BY <1>1, <1>3, <1>7, <1>8
    <2>2. QED
      BY <1>7, <1>8, <2>1, PieceTyped
  <1> HIDE DEF chunk
  <1>10. last = begin + (end - offset) /\ last \in begin..all
    BY <1>1, <1>4, <1>6, <1>7, <1>8, <1>9
  <1> HIDE DEF last
  <1>11. /\ part \in Seq(Int) /\ Len(part) = end - offset
         /\ \A i \in 1..(end - offset) : part[i] = s[begin + i]
    <2>1. \A i \in (begin + 1)..last : s[i] \in Int
      BY <1>1, <1>2, <1>6, <1>10
    <2>2. last \in Nat /\ begin <= last /\ last - begin = end - offset
      BY <1>1, <1>6, <1>7, <1>8, <1>10
    <2>3. /\ part \in Seq(Int) /\ Len(part) = last - begin
          /\ \A i \in 1..(last - begin) : part[i] = s[begin + i]
      BY <1>6, <2>1, <2>2, PieceTyped
    <2> HIDE DEF part
    <2>4. QED
      BY <2>2, <2>3
  <1> HIDE DEF part
  <1>12. \A i \in 1..Len(chunk) : chunk[i] = part[i]
    <2>1. SUFFICES ASSUME NEW i \in 1..(end - offset) PROVE chunk[i] = part[i]
      BY <1>9
    <2>2. offset + i \in 1..held /\ start + (offset + i) = begin + i
      BY <1>1, <1>4, <1>6, <1>7, <1>8
    <2>3. QED
      BY <1>1, <1>9, <1>11, <2>2
  <1>13. chunk = part
    BY <1>9, <1>11, <1>12, SeqEqual
  <1>14. WindowOf(j, requested, maxChars) = [chunk |-> chunk, nextSeq |-> last, droppedChars |-> begin - requested]
    BY <1>6 DEF WindowOf, OutputStart, all, out, held, begin, offset, end, chunk, last
  <1>15. QED
    BY SMTT(30), <1>6, <1>10, <1>13, <1>14 DEF part, all

(* The buffer is the end of the log.                                       *)
LEMMA BufferIsTheEnd ==
    ASSUME NEW s \in Seq(Int), NEW j, j.output = Last(s, Window), j.producedChars = Len(s)
    PROVE  OutputStart(j) \in 0..Len(s) /\ j.output = SubSeq(s, OutputStart(j) + 1, Len(s))
  <1> DEFINE m == Max({1, Len(s) - Window + 1})
  <1>1. Len(s) \in Nat /\ Window \in Nat \ {0}
    BY LenProperties, JobOutputAssumption
  <1>2. Len(j.output) = IF Len(s) <= Window THEN Len(s) ELSE Window
    BY <1>1, LastTyped
  <1>3. m = IF 1 >= Len(s) - Window + 1 THEN 1 ELSE Len(s) - Window + 1
    <2>1. Len(s) - Window + 1 \in Int
      BY <1>1
    <2>2. QED
      BY <2>1, OfTwo
  <1>4. j.output = SubSeq(s, m, Len(s))
    BY DEF Last
  <1> HIDE DEF m
  <1>5. CASE Len(s) <= Window
    <2>1. m = 1 /\ OutputStart(j) = 0
      BY <1>1, <1>2, <1>3, <1>5 DEF OutputStart
    <2>2. QED
      BY <1>1, <1>4, <2>1
  <1>6. CASE ~(Len(s) <= Window)
    <2>1. m = Len(s) - Window + 1 /\ OutputStart(j) = Len(s) - Window
      BY <1>1, <1>2, <1>3, <1>6 DEF OutputStart
    <2>2. QED
      BY <1>1, <1>4, <1>6, <2>1
  <1>7. QED
    BY <1>5, <1>6

Readers == [style : Styles, got : Seq(Int), told : Nat, next : Nat, lost : 0..MaxLost]

(* What a read leaves: a pumped job whose cursor has moved, and a reader that *)
(* has an answer of the log, or none.                                      *)
Reads(j) ==
  /\ Pumps(j) /\ \E r \in Nat : job' = [j EXCEPT !.readCursor = r]
  /\ reader' \in Readers /\ CursorsMatch(job', reader', Len(log'))
  /\ UNCHANGED <<reader.got, reader.told, reader.next>> \/ Log!Answer \/ Log!StartOver

(* An answer that does not arrive leaves the reader what it was.            *)
LEMMA NothingArrives ==
    ASSUME reader \in Readers, NEW known, Arrives(FALSE, known)
    PROVE  /\ reader' \in Readers /\ reader.style = "explicit" /\ reader'.style = "explicit"
           /\ UNCHANGED <<reader.got, reader.told, reader.next>>
  <1>1. reader' = [reader EXCEPT !.lost = @ + 1] /\ reader.style = "explicit" /\ reader.lost < MaxLost
    BY DEF Arrives
  <1>2. MaxLost \in Nat
    BY JobOutputAssumption
  <1>3. reader.lost \in 0..MaxLost
    BY DEF Readers
  <1>4. reader.lost + 1 \in 0..MaxLost
    BY <1>1, <1>2, <1>3
  <1>5. QED
    BY <1>1, <1>4 DEF Readers

(* A read from a cursor is a read.                                         *)
LEMMA CursorReads ==
    ASSUME IInv, NEW maxChars \in ReadSizes, NEW arrived \in BOOLEAN, CursorRead(maxChars, arrived)
    PROVE  \E j : Reads(j)
  <1>1. Remember
    BY DEF CursorRead
  <1> DEFINE Requested(k) == IF reader.style = "implicit" THEN k.readCursor ELSE reader.next
             Window1(k) == WindowOf(k, Requested(k), maxChars)
  <1>2. PICK j \in Pumped :
          /\ job' = [j EXCEPT !.readCursor = MovedTo(j, Window1(j).nextSeq)]
          /\ Arrives(arrived, [reader EXCEPT !.got = @ \o Window1(j).chunk,
                                             !.told = @ + Window1(j).droppedChars,
                                             !.next = Window1(j).nextSeq])
    BY DEF CursorRead
  <1>3. Pumps(j)
    BY <1>1, PumpedPumps
  <1>4. /\ log' \in Seq(Int) /\ j \in Jobs(cursor) /\ j.output = Last(log', Window) /\ j.producedChars = Len(log')
        /\ j.readCursor = job.readCursor
    BY <1>3 DEF Pumps
  <1>5. /\ reader \in Readers /\ CursorsMatch(job, reader, Len(log)) /\ log \in Seq(Int)
        /\ job.readCursor \in Nat
    BY JobTyped DEF IInv, TypeOK, Readers
  <1>6. Len(log) \in Nat /\ Len(log') \in Nat /\ Len(log) <= Len(log')
    <2>1. PICK f \in Seq(Int) : log' = log \o f
      BY <1>3 DEF Pumps
    <2>2. Len(log') = Len(log) + Len(f) /\ Len(f) \in Nat /\ Len(log) \in Nat
      BY <1>5, <2>1, ConcatProperties, LenProperties
    <2>3. QED
      BY <2>2
  <1>7. reader.next \in Nat /\ reader.next <= Len(log') /\ j.readCursor <= Len(log')
    BY <1>4, <1>5, <1>6 DEF CursorsMatch, Readers
  <1>8. Requested(j) = reader.next
    BY <1>4, <1>5 DEF CursorsMatch
  <1>9. maxChars \in Nat \ {0} /\ reader.next \in 0..Len(log')
    BY <1>6, <1>7, JobOutputAssumption
  <1> DEFINE w == Window1(j)
  <1>10. \E first \in reader.next..Len(log') : \E last \in first..Len(log') :
           /\ w.chunk = SubSeq(log', first + 1, last) /\ w.nextSeq = last
           /\ w.droppedChars = first - reader.next
    <2> HIDE DEF Requested
    <2>1. w = WindowOf(j, reader.next, maxChars)
      BY <1>8
    <2> HIDE DEF w, Window1
    <2>2. j.output = Last(log', Window) /\ j.producedChars = Len(log') /\ log' \in Seq(Int)
      BY <1>4
    <2>3. \E first \in reader.next..Len(log') : \E last \in first..Len(log') :
            LET v == WindowOf(j, reader.next, maxChars)
            IN  /\ v.chunk = SubSeq(log', first + 1, last) /\ v.nextSeq = last
                /\ v.droppedChars = first - reader.next
      <3>1. PICK s : s = log'
        OBVIOUS
      <3>2. PICK q : q = reader.next
        OBVIOUS
      <3>3. /\ s \in Seq(Int) /\ j.output = Last(s, Window) /\ j.producedChars = Len(s)
            /\ q \in 0..Len(s) /\ maxChars \in Nat \ {0}
        BY <1>9, <2>2, <3>1, <3>2
      <3>4. \E first \in q..Len(s) : \E last \in first..Len(s) :
              LET v == WindowOf(j, q, maxChars)
              IN  /\ v.chunk = SubSeq(s, first + 1, last) /\ v.nextSeq = last
                  /\ v.droppedChars = first - q
        BY SMTT(30), <3>3, WindowTyped
      <3>5. QED
        BY <3>1, <3>2, <3>4
    <2>4. QED
      BY <2>1, <2>3
  <1> HIDE DEF Window1, Requested
  <1>18. PICK first \in reader.next..Len(log') : \E last \in first..Len(log') :
           /\ w.chunk = SubSeq(log', first + 1, last) /\ w.nextSeq = last
           /\ w.droppedChars = first - reader.next
    BY <1>10
  <1>11. PICK last \in first..Len(log') :
           /\ w.chunk = SubSeq(log', first + 1, last) /\ w.nextSeq = last
           /\ w.droppedChars = first - reader.next
    BY <1>18
  <1>12. first \in Nat /\ last \in Nat /\ last <= Len(log') /\ reader.next <= first /\ first <= last
    BY <1>6, <1>7
  <1>13. MovedTo(j, last) \in Nat /\ MovedTo(j, last) <= Len(log') /\ (reader.style = "implicit" => MovedTo(j, last) = last)
    <2>1. CASE reader.style = "implicit"
      BY <1>12, <2>1 DEF MovedTo
    <2>2. CASE reader.style # "implicit"
      <3>1. j.readCursor \in Int /\ last \in Int
        BY <1>4, <1>5, <1>12
      <3>2. MovedTo(j, last) = IF j.readCursor >= last THEN j.readCursor ELSE last
        BY <2>2, <3>1, OfTwo DEF MovedTo
      <3>3. QED
        BY <1>4, <1>5, <1>7, <1>12, <2>2, <3>2
    <2>3. QED
      BY <2>1, <2>2
  <1> DEFINE r == MovedTo(j, last)
  <1>14. job' = [j EXCEPT !.readCursor = r] /\ job'.readCursor = r /\ r \in Nat
    BY <1>2, <1>4, <1>11, <1>13 DEF Jobs
  <1> HIDE DEF r
  <1>15. CASE arrived = TRUE
    <2> DEFINE known == [reader EXCEPT !.got = @ \o w.chunk, !.told = @ + w.droppedChars, !.next = w.nextSeq]
    <2>1. reader' = known
      BY <1>2, <1>15 DEF Arrives
    <2>2. w.chunk \in Seq(Int) /\ reader.got \in Seq(Int) /\ reader.told \in Nat
      <3>1. \A i \in (first + 1)..last : log'[i] \in Int
        BY <1>4, <1>6, <1>12, ElementOfSeq
      <3>2. first + 1 \in Int /\ last \in Int
        BY <1>12
      <3>3. QED
        BY <1>5, <1>11, <3>1, <3>2, SubSeqProperties DEF Readers
    <2>3. reader.got \o w.chunk \in Seq(Int) /\ reader.told + w.droppedChars \in Nat
      BY <1>7, <1>11, <1>12, <2>2, ConcatProperties
    <2>4. /\ reader' \in Readers /\ reader'.style = reader.style /\ reader'.next = last
          /\ reader'.got = reader.got \o SubSeq(log', first + 1, last)
          /\ reader'.told = reader.told + (first - reader.next)
      BY <1>5, <1>11, <1>12, <2>1, <2>3 DEF Readers
    <2>5. CursorsMatch(job', reader', Len(log'))
      BY <1>12, <1>13, <1>14, <2>4 DEF CursorsMatch, r
    <2>6. Log!Answer
      BY <2>4 DEF Log!Answer
    <2>7. QED
      BY <1>3, <1>14, <2>4, <2>5, <2>6 DEF Reads
  <1>16. CASE arrived = FALSE
    <2>1. /\ reader' \in Readers /\ reader.style = "explicit" /\ reader'.style = "explicit"
          /\ UNCHANGED <<reader.got, reader.told, reader.next>>
      BY <1>2, <1>5, <1>16, NothingArrives
    <2>2. CursorsMatch(job', reader', Len(log'))
      BY <1>7, <1>13, <1>14, <2>1 DEF CursorsMatch, r
    <2>3. QED
      BY <1>3, <1>14, <2>1, <2>2 DEF Reads
  <1>17. QED
    BY <1>15, <1>16

(* So is one of all the output there is.                                   *)
LEMMA FullReads ==
    ASSUME IInv, NEW arrived \in BOOLEAN, FullRead(arrived)
    PROVE  \E j : Reads(j)
  <1>1. Remember
    BY DEF FullRead
  <1>2. PICK j \in Pumped :
          /\ job' = [j EXCEPT !.readCursor = j.producedChars]
          /\ Arrives(arrived, [reader EXCEPT !.got = j.output, !.told = OutputStart(j),
                                             !.next = j.producedChars])
    BY DEF FullRead
  <1>3. Pumps(j)
    BY <1>1, PumpedPumps
  <1>4. /\ log' \in Seq(Int) /\ j \in Jobs(cursor) /\ j.output = Last(log', Window) /\ j.producedChars = Len(log')
        /\ j.readCursor = job.readCursor
    BY <1>3 DEF Pumps
  <1>5. /\ reader \in Readers /\ CursorsMatch(job, reader, Len(log)) /\ log \in Seq(Int)
    BY JobTyped DEF IInv, TypeOK, Readers
  <1>6. Len(log) \in Nat /\ Len(log') \in Nat /\ Len(log) <= Len(log')
    <2>1. PICK f \in Seq(Int) : log' = log \o f
      BY <1>3 DEF Pumps
    <2>2. Len(log') = Len(log) + Len(f) /\ Len(f) \in Nat /\ Len(log) \in Nat
      BY <1>5, <2>1, ConcatProperties, LenProperties
    <2>3. QED
      BY <2>2
  <1>7. job' = [j EXCEPT !.readCursor = Len(log')] /\ job'.readCursor = Len(log')
    BY <1>2, <1>4 DEF Jobs
  <1>8. CASE arrived = TRUE
    <2>1. reader' = [reader EXCEPT !.got = j.output, !.told = OutputStart(j), !.next = j.producedChars]
      BY <1>2, <1>8 DEF Arrives
    <2>2. OutputStart(j) \in 0..Len(log') /\ j.output = SubSeq(log', OutputStart(j) + 1, Len(log'))
      BY <1>4, BufferIsTheEnd
    <2>3. j.output \in Seq(Int) /\ OutputStart(j) \in Nat
      BY SMTT(30), <1>4, <1>6, <2>2 DEF Jobs
    <2>4. /\ reader' \in Readers /\ reader'.style = reader.style /\ reader'.next = Len(log')
          /\ reader'.got = j.output /\ reader'.told = OutputStart(j)
      BY <1>4, <1>5, <1>6, <2>1, <2>3 DEF Readers
    <2>5. CursorsMatch(job', reader', Len(log'))
      BY <1>6, <1>7, <2>4 DEF CursorsMatch
    <2>6. Log!StartOver
      BY <2>2, <2>4 DEF Log!StartOver
    <2>7. QED
      BY <1>3, <1>6, <1>7, <2>4, <2>5, <2>6 DEF Reads
  <1>9. CASE arrived = FALSE
    <2>1. /\ reader' \in Readers /\ reader.style = "explicit" /\ reader'.style = "explicit"
          /\ UNCHANGED <<reader.got, reader.told, reader.next>>
      BY <1>2, <1>5, <1>9, NothingArrives
    <2>2. CursorsMatch(job', reader', Len(log'))
      BY <1>5, <1>6, <1>7, <2>1 DEF CursorsMatch, Readers
    <2>3. QED
      BY <1>3, <1>6, <1>7, <2>1, <2>2 DEF Reads
  <1>10. QED
    BY <1>8, <1>9
-----------------------------------------------------------------------------
(* The steps.                                                              *)

(* A job begins with nothing harvested, and its cursor at the ring's end.   *)
LEMMA InvInit ==
    ASSUME Init
    PROVE  IInv
  <1>1. /\ cursor \in {0, 1} /\ maxEvents \in Budgets /\ maxEvents \in Nat \ {0} /\ printed = 0
        /\ ended = 0 /\ harvested = 0 /\ owned = TRUE /\ log = <<>>
        /\ RingBytes \in Nat \ {0} /\ Window \in Nat \ {0} /\ MaxLost \in Nat
    BY JobOutputAssumption DEF Init
  <1>2. ring = [i \in 1..cursor |-> [seq |-> i, from |-> -1, to |-> 0]]
    BY DEF Init
  <1>3. /\ ring \in Seq(Events) /\ Len(ring) = cursor
    <2>1. \A i \in 1..cursor : [seq |-> i, from |-> -1, to |-> 0] \in Events
      BY <1>1 DEF Events
    <2>2. ring \in [1..cursor -> Events]
      BY <1>2, <2>1
    <2>3. cursor \in Nat
      BY <1>1
    <2>4. QED
      BY <2>2, <2>3, SeqDef, LenProperties
  <1>4. \A i \in 1..Len(ring) : ring[i].seq = i /\ ring[i].from = -1 /\ ring[i].to = 0
    BY <1>2, <1>3
  <1>5. \A i \in 1..Len(ring) : ring[i].seq = cursor - Len(ring) + i
    BY <1>1, <1>3, <1>4
  <1>6. Bytes(ring) <= RingBytes
    <2>1. CASE ring = <<>>
      BY <1>1, <2>1 DEF Bytes
    <2>2. CASE ring # <<>>
      <3>1. Len(ring) \in Nat \ {0}
        BY <1>3, <2>2, EmptySeq
      <3>2. Len(ring) = 1
        BY <1>1, <1>3, <3>1
      <3>3. ring[1].to = 0 /\ ring[1].from = -1
        BY <1>4, <3>2
      <3>4. QED
        BY <1>1, <2>2, <3>2, <3>3 DEF Bytes
    <2>3. QED
      BY <2>1, <2>2
  <1>7. job = [state |-> "RUNNING", lastSeq |-> cursor, output |-> <<>>, producedChars |-> 0, readCursor |-> 0]
    BY DEF Init
  <1>8. <<>> \in Seq(Int) /\ Len(<<>>) = 0 /\ Last(<<>>, Window) = <<>>
    <2>1. <<>> \in Seq(Int) /\ Len(<<>>) = 0
      BY EmptySeq
    <2>2. Last(<<>>, Window) \in Seq(Int) /\ Len(Last(<<>>, Window)) = 0
      <3>1. PICK s : s = <<>>
        OBVIOUS
      <3>2. s \in Seq(Int) /\ Len(s) = 0 /\ Window \in Nat \ {0}
        BY <1>1, <2>1, <3>1
      <3>3. Last(s, Window) \in Seq(Int) /\ Len(Last(s, Window)) = IF Len(s) <= Window THEN Len(s) ELSE Window
        BY <3>2, LastTyped
      <3> HIDE DEF Last
      <3>4. Len(Last(s, Window)) = 0
        BY <3>2, <3>3
      <3>5. QED
        BY <3>1, <3>3, <3>4
    <2>3. QED
      BY <2>1, <2>2, EmptySeq
  <1>9. PICK s \in Styles : reader = [style |-> s, got |-> <<>>, told |-> 0, next |-> 0, lost |-> 0]
    BY DEF Init
  <1>10. TypeOK
    <2>1. reader \in [style : Styles, got : Seq(Int), told : Nat, next : Nat, lost : 0..MaxLost]
      BY <1>1, <1>8, <1>9
    <2>2. job \in [state : {"RUNNING", "VERIFYING", "STOPPED", "LOST", "DELETED"},
                   lastSeq : 0..cursor, output : Seq(Int), producedChars : Nat, readCursor : Nat]
      BY <1>1, <1>7, <1>8
    <2>3. job.producedChars = Len(log) /\ job.output = Last(log, Window)
      BY <1>1, <1>7, <1>8
    <2>4. Len(ring) <= maxEvents
      BY <1>1, <1>3
    <2>5. QED
      BY <1>1, <1>3, <1>5, <1>6, <1>8, <2>1, <2>2, <2>3, <2>4 DEF TypeOK
  <1>11. Aligned(ring, cursor, printed, job.lastSeq, harvested)
    <2>1. job.lastSeq = cursor
      BY <1>7
    <2>2. ASSUME NEW i \in 1..Len(ring)
          PROVE  /\ ring[i].from <= printed
                 /\ ~(ring[i].seq > cursor) /\ ring[i].seq # cursor + 1
      BY <1>1, <1>3, <1>4
    <2>3. ASSUME ring # <<>>
          PROVE  ring[Len(ring)].to = printed
      <3>1. Len(ring) \in Nat \ {0}
        BY <1>3, <2>3, EmptySeq
      <3>2. QED
        BY <1>1, <1>4, <3>1
    <2>4. QED
      BY <1>1, <2>1, <2>2, <2>3 DEF Aligned
  <1>12. OnlyItsOwn
    BY <1>1, <1>8 DEF OnlyItsOwn
  <1>13. CursorsMatch(job, reader, Len(log))
    BY <1>1, <1>7, <1>8, <1>9 DEF CursorsMatch
  <1>14. QED
    BY <1>1, <1>10, <1>11, <1>12, <1>13 DEF IInv

(* What the invariant says of a state in which neither what is recorded nor  *)
(* what is harvested has changed.                                          *)
LEMMA RestKept ==
    ASSUME IInv, UNCHANGED <<ringVars, log, harvested>>, owned' \in BOOLEAN,
           job' \in Jobs(cursor), job'.lastSeq = job.lastSeq, job'.output = job.output,
           job'.producedChars = job.producedChars, job'.readCursor = job.readCursor,
           job'.state = "RUNNING" => job.state = "RUNNING", owned' => owned,
           UNCHANGED reader
    PROVE  IInv'
  <1>1. TypeOK'
    BY DEF IInv, TypeOK, ringVars, Jobs
  <1>2. Aligned(ring, cursor, printed, job.lastSeq, harvested)'
    BY DEF IInv, ringVars, Aligned
  <1>3. Harvests' => ended' = printed'
    BY DEF IInv, ringVars, Harvests
  <1>4. OnlyItsOwn'
    BY DEF IInv, ringVars, OnlyItsOwn
  <1>5. CursorsMatch(job, reader, Len(log))'
    BY DEF IInv, ringVars, CursorsMatch
  <1>6. QED
    BY <1>1, <1>2, <1>3, <1>4, <1>5 DEF IInv

(* What is recorded is aligned with what is kept, and the job's as long as   *)
(* the job owns the shell.                                                 *)
LEMMA RecordedKept ==
    ASSUME IInv, NEW n \in Nat, Push(n), UNCHANGED <<owned, job, log, harvested, reader>>,
           ended' = IF owned /\ job.state = "RUNNING" THEN printed' ELSE ended
    PROVE  IInv'
  <1>1. /\ TypeOK /\ Aligned(ring, cursor, printed, job.lastSeq, harvested) /\ OnlyItsOwn
        /\ CursorsMatch(job, reader, Len(log))
    BY DEF IInv
  <1>2. job.lastSeq \in 0..cursor /\ cursor \in Nat /\ {ended, harvested} \subseteq 0..printed
        /\ printed \in Nat /\ owned \in BOOLEAN
    BY <1>1, JobTyped
  <1>3. /\ Listed(ring', cursor') /\ Len(ring') <= maxEvents' /\ Bytes(ring') <= RingBytes
        /\ Aligned(ring', cursor', printed', job.lastSeq, harvested)
        /\ cursor' = cursor + 1 /\ printed' = printed + n /\ maxEvents' = maxEvents
    BY <1>1, <1>2, PushKept
  <1>4. /\ ended' \in 0..printed' /\ harvested' \in 0..printed' /\ ended <= ended' /\ ended \in Nat
        /\ ended' \in Nat
    <2>1. ended \in Nat /\ ended <= printed /\ harvested \in Nat /\ harvested <= printed
      BY <1>2
    <2>2. harvested' = harvested /\ printed' = printed + n
      BY <1>3
    <2>3. printed <= printed' /\ printed' \in Nat
      BY <1>2, <2>2
    <2>4. ended' = printed' \/ ended' = ended
      OBVIOUS
    <2>5. ended' \in Nat /\ ended <= ended' /\ ended' <= printed'
      <3>1. CASE ended' = printed'
        BY <1>2, <2>1, <2>3, <3>1
      <3>2. CASE ended' = ended
        BY <1>2, <2>1, <2>3, <3>2
      <3>3. QED
        BY <2>4, <3>1, <3>2
    <2>6. ended' \in 0..printed'
      BY <2>3, <2>5
    <2>7. harvested' \in 0..printed'
      <3>1. harvested <= printed'
        BY <1>2, <2>1, <2>2
      <3>2. harvested \in 0..printed'
        BY <2>1, <2>3, <3>1
      <3>3. QED
        BY <2>2, <3>2
    <2>8. QED
      BY <2>1, <2>5, <2>6, <2>7
  <1>5. job \in [state : {"RUNNING", "VERIFYING", "STOPPED", "LOST", "DELETED"},
                 lastSeq : 0..cursor', output : Seq(Int), producedChars : Nat, readCursor : Nat]
    <2>1. 0..cursor \subseteq 0..cursor'
      BY <1>2, <1>3
    <2>2. QED
      BY <1>1, <2>1, JobTyped DEF Jobs
  <1>6. Bytes(ring)' <= RingBytes /\ cursor' \in Nat /\ printed' \in Nat
    BY <1>2, <1>3 DEF Bytes
  <1>7. TypeOK'
    BY <1>1, <1>3, <1>4, <1>5, <1>6 DEF TypeOK, Listed
  <1>8. Harvests' => ended' = printed'
    BY DEF Harvests
  <1>9. OnlyItsOwn'
    <2>1. 1..ended \subseteq 1..ended'
      BY <1>4
    <2>2. QED
      BY <1>1, <2>1 DEF OnlyItsOwn
  <1>10. CursorsMatch(job, reader, Len(log))'
    BY <1>1 DEF CursorsMatch
  <1>11. Aligned(ring, cursor, printed, job.lastSeq, harvested)'
    BY <1>3
  <1>12. QED
    BY <1>7, <1>8, <1>9, <1>10, <1>11 DEF IInv

(* A trimmed ring is aligned.                                              *)
LEMMA RebudgetKept ==
    ASSUME IInv, NEW cap \in Budgets, Rebudget(cap)
    PROVE  IInv'
  <1>1. /\ TypeOK /\ Aligned(ring, cursor, printed, job.lastSeq, harvested) /\ OnlyItsOwn
        /\ CursorsMatch(job, reader, Len(log))
    BY DEF IInv
  <1>2. /\ maxEvents' = cap /\ ring' = Trimmed(ring, cap)
        /\ UNCHANGED <<cursor, printed, ended, owned, job, log, harvested, reader>>
    BY DEF Rebudget
  <1>3. Listed(ring, cursor) /\ cursor \in Nat /\ cap \in Nat
    BY <1>1, JobOutputAssumption DEF TypeOK, Listed
  <1>4. /\ Listed(ring', cursor) /\ Len(ring') <= cap /\ Bytes(ring') <= RingBytes
        /\ Aligned(ring', cursor, printed, job.lastSeq, harvested)
    BY <1>1, <1>2, <1>3, TrimKept
  <1>5. Bytes(ring)' <= RingBytes
    BY <1>4 DEF Bytes
  <1>6. TypeOK'
    BY <1>1, <1>2, <1>4, <1>5 DEF TypeOK, Listed
  <1>7. Harvests' => ended' = printed'
    BY <1>2 DEF Harvests, IInv
  <1>8. OnlyItsOwn' /\ CursorsMatch(job, reader, Len(log))'
    BY <1>1, <1>2 DEF OnlyItsOwn, CursorsMatch
  <1>9. Aligned(ring, cursor, printed, job.lastSeq, harvested)'
    BY <1>2, <1>4
  <1>10. QED
    BY <1>6, <1>7, <1>8, <1>9 DEF IInv

(* What a pump leaves, with whatever became of the reader's cursors, is typed *)
(* and the job's own.                                                      *)
LEMMA PumpsKept ==
    ASSUME IInv, NEW j, Pumps(j), UNCHANGED <<ringVars, owned>>,
           \E r \in Nat : job' = [j EXCEPT !.readCursor = r],
           reader' \in Readers, CursorsMatch(job', reader', Len(log'))
    PROVE  IInv'
  <1>1. TypeOK
    BY DEF IInv
  <1>2. PICK r \in Nat : job' = [j EXCEPT !.readCursor = r]
    OBVIOUS
  <1>3. /\ j \in Jobs(cursor) /\ j.producedChars = Len(log') /\ j.output = Last(log', Window)
        /\ log' \in Seq(Int) /\ harvested' \in 0..printed
    BY DEF Pumps
  <1>4. /\ job' \in Jobs(cursor) /\ job'.producedChars = Len(log') /\ job'.output = Last(log', Window)
        /\ job'.lastSeq = j.lastSeq /\ job'.state = j.state
    BY <1>2, <1>3 DEF Jobs
  <1>5. /\ ring' = ring /\ cursor' = cursor /\ maxEvents' = maxEvents /\ printed' = printed
        /\ ended' = ended /\ owned' = owned
    BY DEF ringVars
  <1>6. Last(log, Window)' = Last(log', Window)
    BY DEF Last
  <1>7. TypeOK'
    BY <1>1, <1>3, <1>4, <1>5, <1>6 DEF TypeOK, Jobs, Readers
  <1>8. Aligned(ring, cursor, printed, job.lastSeq, harvested)'
    BY <1>4, <1>5 DEF Pumps
  <1>9. Harvests' => ended' = printed'
    BY <1>4, <1>5 DEF Pumps, Harvests
  <1>10. OnlyItsOwn'
    BY <1>5 DEF Pumps, OnlyItsOwn
  <1>11. QED
    BY <1>7, <1>8, <1>9, <1>10 DEF IInv

(* A pump of its own leaves the reader alone.                              *)
LEMMA PumpReads ==
    ASSUME IInv, Pump
    PROVE  \E j : Reads(j)
  <1>1. Pumps(job')
    BY PumpedPumps DEF Pump
  <1>2. reader' = reader /\ reader \in Readers
    BY DEF Pump, IInv, TypeOK, Readers
  <1>3. job' = [job' EXCEPT !.readCursor = job.readCursor] /\ job.readCursor \in Nat
    BY <1>1, JobTyped DEF Pumps, Jobs, IInv
  <1>4. Len(log) <= Len(log') /\ Len(log) \in Nat /\ Len(log') \in Nat
    <2>1. PICK f \in Seq(Int) : log' = log \o f
      BY <1>1 DEF Pumps
    <2>2. log \in Seq(Int)
      BY JobTyped DEF IInv
    <2>3. Len(log') = Len(log) + Len(f) /\ Len(f) \in Nat /\ Len(log) \in Nat
      BY <2>1, <2>2, ConcatProperties, LenProperties
    <2>4. QED
      BY <2>3
  <1>5. CursorsMatch(job', reader', Len(log'))
    <2>1. CursorsMatch(job, reader, Len(log)) /\ job'.readCursor = job.readCursor
      BY <1>1 DEF IInv, Pumps
    <2>2. reader.next \in Nat
      BY <1>2 DEF Readers
    <2>3. QED
      BY <1>2, <1>3, <1>4, <2>1, <2>2 DEF CursorsMatch
  <1>6. QED
    BY <1>1, <1>2, <1>3, <1>5 DEF Reads

(* The steps that harvest and answer.                                      *)
Answering ==
  \/ Pump
  \/ \E n \in ReadSizes, arrived \in BOOLEAN : CursorRead(n, arrived)
  \/ \E arrived \in BOOLEAN : FullRead(arrived)

(* They harvest first, and leave the ring as it is.                        *)
LEMMA AnsweringReads ==
    ASSUME IInv, Answering
    PROVE  (\E j : Reads(j)) /\ Remember /\ UNCHANGED <<ringVars, owned>>
  <1>1. CASE Pump
    BY <1>1, PumpReads DEF Pump
  <1>2. CASE \E n \in ReadSizes, arrived \in BOOLEAN : CursorRead(n, arrived)
    <2>1. PICK n \in ReadSizes, arrived \in BOOLEAN : CursorRead(n, arrived)
      BY <1>2
    <2>2. \E j : Reads(j)
      BY <2>1, CursorReads
    <2>3. QED
      BY <2>1, <2>2 DEF CursorRead
  <1>3. CASE \E arrived \in BOOLEAN : FullRead(arrived)
    <2>1. PICK arrived \in BOOLEAN : FullRead(arrived)
      BY <1>3
    <2>2. \E j : Reads(j)
      BY <2>1, FullReads
    <2>3. QED
      BY <2>1, <2>2 DEF FullRead
  <1>4. QED
    BY <1>1, <1>2, <1>3 DEF Answering

(* All others leave what was harvested, and the reader, alone.             *)
LEMMA OthersAreSilent ==
    ASSUME IInv, [Next]_vars, ~Answering
    PROVE  IInv' /\ UNCHANGED <<log, harvested, reader>>
  <1>1. /\ job \in Jobs(cursor) /\ owned \in BOOLEAN
    BY JobTyped DEF IInv
  <1>2. ASSUME NEW n \in 1..MaxChunk, Paint(n)
        PROVE  IInv' /\ UNCHANGED <<log, harvested, reader>>
    <2>1. n \in Nat
      BY JobOutputAssumption
    <2>2. QED
      BY <1>2, <2>1, RecordedKept DEF Paint
  <1>3. ASSUME Note
        PROVE  IInv' /\ UNCHANGED <<log, harvested, reader>>
    <2>1. Push(0) /\ UNCHANGED <<ended, owned, job, log, harvested, reader>>
      BY <1>3 DEF Note
    <2>2. printed' = printed
      BY <2>1, JobTyped DEF Push, IInv
    <2>3. owned /\ job.state = "RUNNING" => ended = printed
      BY DEF IInv, Harvests
    <2>4. ended' = IF owned /\ job.state = "RUNNING" THEN printed' ELSE ended
      BY <2>1, <2>2, <2>3
    <2>5. QED
      BY <2>1, <2>4, RecordedKept
  <1>4. ASSUME NEW cap \in Budgets, Rebudget(cap)
        PROVE  IInv' /\ UNCHANGED <<log, harvested, reader>>
    BY <1>4, RebudgetKept DEF Rebudget
  <1>5. ASSUME BeginStop
        PROVE  IInv' /\ UNCHANGED <<log, harvested, reader>>
    <2>1. job' = [job EXCEPT !.state = "VERIFYING"] /\ UNCHANGED <<ringVars, owned, log, harvested, reader>>
      BY <1>5 DEF BeginStop
    <2>2. /\ job' \in Jobs(cursor) /\ job'.lastSeq = job.lastSeq /\ job'.output = job.output
          /\ job'.producedChars = job.producedChars /\ job'.readCursor = job.readCursor
          /\ job'.state # "RUNNING"
      BY <1>1, <2>1 DEF Jobs
    <2>3. QED
      BY <1>1, <2>1, <2>2, RestKept
  <1>6. ASSUME NEW verified \in BOOLEAN, EndStop(verified)
        PROVE  IInv' /\ UNCHANGED <<log, harvested, reader>>
    <2>1. /\ job' = [job EXCEPT !.state = IF verified THEN "STOPPED" ELSE "LOST"]
          /\ owned' = FALSE /\ UNCHANGED <<ringVars, log, harvested, reader>>
      BY <1>6 DEF EndStop
    <2>2. /\ job' \in Jobs(cursor) /\ job'.lastSeq = job.lastSeq /\ job'.output = job.output
          /\ job'.producedChars = job.producedChars /\ job'.readCursor = job.readCursor
          /\ job'.state # "RUNNING"
      BY <1>1, <2>1 DEF Jobs
    <2>3. QED
      BY <2>1, <2>2, RestKept
  <1>7. ASSUME Disown
        PROVE  IInv' /\ UNCHANGED <<log, harvested, reader>>
    BY <1>1, <1>7, RestKept DEF Disown
  <1>8. ASSUME UNCHANGED vars
        PROVE  IInv' /\ UNCHANGED <<log, harvested, reader>>
    BY <1>1, <1>8, RestKept DEF vars, ringVars
  <1>9. QED
    BY <1>2, <1>3, <1>4, <1>5, <1>6, <1>7, <1>8 DEF Next, Answering

(* Every step keeps the invariant.                                         *)
LEMMA InvNext ==
    ASSUME IInv, [Next]_vars
    PROVE  IInv'
  <1>1. CASE Answering
    <2>1. UNCHANGED <<ringVars, owned>>
      BY <1>1, AnsweringReads
    <2>2. PICK j : Reads(j)
      BY <1>1, AnsweringReads
    <2>3. QED
      BY <2>1, <2>2, PumpsKept DEF Reads
  <1>2. CASE ~Answering
    BY <1>2, OthersAreSilent
  <1>3. QED
    BY <1>1, <1>2

(* As long as the ring reaches back to the last harvest, the next one is all *)
(* since then.                                                             *)
LEMMA HarvestIsWhole ==
    ASSUME IInv, [Next]_vars, harvested' # harvested, RingReachesBack
    PROVE  log' = log \o [i \in 1..(printed - harvested) |-> harvested + i]
  <1>1. Answering
    BY OthersAreSilent
  <1>2. Remember
    BY <1>1, AnsweringReads
  <1>3. Harvests /\ log' = log \o Fresh(job.lastSeq) /\ harvested' = printed
    BY <1>2 DEF Remember
  <1>4. TypeOK /\ Aligned(ring, cursor, printed, job.lastSeq, harvested)
    BY DEF IInv
  <1>5. cursor # job.lastSeq
    BY <1>3, <1>4 DEF Aligned
  <1>6. ring # <<>> /\ ring[1].seq <= job.lastSeq + 1
    BY <1>5 DEF RingReachesBack
  <1>7. QED
    BY <1>3, <1>4, <1>5, <1>6, FreshIsWhole

(* A harvest only ever adds to the end of the log.                         *)
LEMMA LogGrows ==
    ASSUME log \in Seq(Int), NEW f \in Seq(Int), log' = log \o f
    PROVE  Log!Grow
  <1>1. Len(log) \in Nat /\ Len(log') = Len(log) + Len(f) /\ Len(f) \in Nat
    BY ConcatProperties, LenProperties
  <1>2. SubSeq(log', 1, Len(log)) = log
    BY SubSeqOfConcat1, SubSeqFull, LenProperties
  <1>3. QED
    BY <1>1, <1>2 DEF Log!Grow

(* Every step is one of the log and its reader, or a stutter.              *)
LEMMA StepRefines ==
    ASSUME IInv, [Next]_vars
    PROVE  [Log!Next]_(Log!vars)
  <1>1. CASE Answering
    <2>1. PICK j : Reads(j)
      BY <1>1, AnsweringReads
    <2>2. PICK f \in Seq(Int) : log' = log \o f
      BY <2>1 DEF Reads, Pumps
    <2>3. log \in Seq(Int)
      BY JobTyped DEF IInv
    <2>4. Log!Grow
      BY <2>2, <2>3, LogGrows
    <2>5. UNCHANGED <<reader.got, reader.told, reader.next>> \/ Log!Answer \/ Log!StartOver
      BY <2>1 DEF Reads
    <2>6. QED
      BY <2>4, <2>5 DEF Log!Next
  <1>2. CASE ~Answering
    BY <1>2, OthersAreSilent DEF Log!vars
  <1>3. QED
    BY <1>1, <1>2
-----------------------------------------------------------------------------
(* The theorems.                                                           *)

(* The inductive invariant holds throughout.                               *)
THEOREM Invariance == Spec => []IInv
  <1>1. Init => IInv
    BY InvInit
  <1>2. IInv /\ [Next]_vars => IInv'
    BY InvNext
  <1>3. QED
    BY <1>1, <1>2, PTL DEF Spec

(* The ring is consecutive and within both of its caps, and the buffer is the *)
(* end of what was harvested.                                              *)
THEOREM TypeCorrect == Spec => []TypeOK
  <1>1. IInv => TypeOK
    BY DEF IInv
  <1>2. QED
    BY <1>1, Invariance, PTL

(* Nothing from before the job's command, and nothing the shell shows after  *)
(* it stopped being the job's, is handed out as the job's output.           *)
THEOREM OwnHolds == Spec => []OnlyItsOwn
  <1>1. IInv => OnlyItsOwn
    BY DEF IInv
  <1>2. QED
    BY <1>1, Invariance, PTL

(* As long as the ring reaches back to the last harvest, the next one takes  *)
(* up exactly where it ended.                                              *)
THEOREM HarvestsHold == Spec => HarvestsAreWhole
  <1>1. IInv /\ [Next]_vars =>
          [harvested' # harvested /\ RingReachesBack =>
             log' = log \o [i \in 1..(printed - harvested) |-> harvested + i]]_vars
    BY HarvestIsWhole
  <1>2. QED
    BY <1>1, Invariance, PTL DEF Spec, HarvestsAreWhole

(* Whatever reads, harvests, losses and trims come between, the reader is    *)
(* given the log of CursorLog: in order, without repetition, with every gap *)
(* counted.                                                                *)
THEOREM Refines == Spec => LogSpec
  <1>1. Init => Log!Init
    BY DEF Init, Log!Init
  <1>2. IInv /\ [Next]_vars => [Log!Next]_(Log!vars)
    BY StepRefines
  <1>3. QED
    BY <1>1, <1>2, Invariance, PTL DEF Spec, LogSpec, Log!Spec
=============================================================================
