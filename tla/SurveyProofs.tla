----------------------------- MODULE SurveyProofs -----------------------------
(***************************************************************************)
(* For any number of targets, any concurrency and any surveys: what a      *)
(* multi-target tool reports is backed by what its targets answered, and   *)
(* nobody is entered after the signal.                                     *)
(*                                                                         *)
(* The reports are functions of the entries, so the work is to show that   *)
(* the entry of each target of a resolved call is made from that target's  *)
(* own, complete batch, whatever order the workers finished in.  Workers   *)
(* share one index: an item that was taken is somebody's or is stored      *)
(* (TakenIsKept), unless a worker threw, and then the call has been        *)
(* rejected; a worker ends only when there is nothing left, or when the    *)
(* call will not be resolved (EndedForAReason).                            *)
(***************************************************************************)
EXTENDS Survey, FiniteSetTheorems, FunctionTheorems, SequenceTheorems, WellFoundedInduction, TLAPS

MapTyped ==
    /\ next \in Nat \ {0}
    /\ at \in [Workers -> Indices \cup {Nothing}]
    /\ ended \subseteq Workers
    /\ results \in [Indices -> Indices \cup {Nothing}]
    /\ settled \in Nat
    /\ signal \in BOOLEAN
    /\ aborted \in BOOLEAN
    /\ call \in {"running", "resolved", "aborted", "rejected"}

(* What the two counters count.                                            *)
Counts ==
    /\ next <= Items + 1 + Cardinality(ended)
    /\ settled = Cardinality({i \in Indices : results[i] # Nothing})

(* A worker has an item until its promise settles, no two have the same,   *)
(* and none has one that is stored already.                                *)
OwnItems ==
    /\ \A w \in Workers : w \in ended <=> at[w] = Nothing
    /\ \A w \in Workers : at[w] < next
    /\ \A w, v \in Workers : at[w] # Nothing /\ at[w] = at[v] => w = v
    /\ \A i \in Indices : results[i] \in {i, Nothing}
    /\ \A w \in Workers : at[w] # Nothing => results[at[w]] = Nothing
    /\ \A i \in Indices : i >= next => results[i] = Nothing

TakenIsKept ==
    \A i \in Indices : i < next =>
        results[i] = i \/ (\E w \in Workers : at[w] = i) \/ call = "rejected"

EndedForAReason ==
    /\ \A w \in ended : aborted \/ call = "rejected" \/ next > Items
    /\ call \in {"resolved", "aborted"} => ended = Workers
    /\ call = "resolved" => ~aborted

MapInv == MapTyped /\ Counts /\ OwnItems /\ TakenIsKept /\ EndedForAReason

(* The entry of a target is made from a batch that may come back.          *)
BatchesAreReal ==
    /\ plan \in Plans
    /\ requests \in Flattened(plan.steps)
    /\ batch \in [Indices -> {Unasked} \cup Batches(Len(requests))]
    /\ \A i \in Indices : results[i] # Nothing => batch[i] \in Batches(Len(requests))

IInv == MapInv /\ BatchesAreReal
-----------------------------------------------------------------------------
(* The workers and their index.                                            *)

(* There are workers, and no more of them than items or than was asked for. *)
LEMMA WorkersCount ==
    /\ IsFiniteSet(Workers) /\ 1 \in Workers
    /\ Cardinality(Workers) \in Nat
    /\ Cardinality(Workers) <= Items /\ Cardinality(Workers) <= Limit
    /\ Workers = 1 .. Cardinality(Workers)
  <1>1. PICK n \in Nat \ {0} : n <= Items /\ n <= Limit /\ Workers = 1 .. n
    <2>1. CASE Limit < Items
      BY <2>1, ItemsAssumption, LimitAssumption DEF Workers
    <2>2. CASE ~(Limit < Items)
      BY <2>2, ItemsAssumption, LimitAssumption DEF Workers
    <2>3. QED
      BY <2>1, <2>2
  <1>2. IsFiniteSet(1 .. n) /\ Cardinality(1 .. n) = n
    BY FS_Interval
  <1>3. QED
    BY <1>1, <1>2

(* The ended workers, and the indices that are stored, can be counted.     *)
LEMMA CountsTyped ==
    ASSUME MapTyped
    PROVE  /\ IsFiniteSet(ended) /\ Cardinality(ended) \in Nat
           /\ Cardinality(ended) <= Limit
           /\ IsFiniteSet({i \in Indices : results[i] # Nothing})
           /\ Cardinality({i \in Indices : results[i] # Nothing}) \in 0 .. Items
  <1>1. IsFiniteSet(Indices) /\ Cardinality(Indices) = Items
    BY ItemsAssumption, FS_Interval DEF Indices
  <1>2. /\ IsFiniteSet({i \in Indices : results[i] # Nothing})
        /\ Cardinality({i \in Indices : results[i] # Nothing}) <= Items
    BY <1>1, FS_Subset
  <1>3. IsFiniteSet(ended) /\ Cardinality(ended) <= Cardinality(Workers)
    BY WorkersCount, FS_Subset DEF MapTyped
  <1>4. QED
    BY <1>2, <1>3, WorkersCount, FS_CardinalityType, ItemsAssumption, LimitAssumption

(* The workers start, or see a signal that fired before.                   *)
LEMMA InitMap == Init => MapInv
  <1> SUFFICES ASSUME Init PROVE MapInv
    OBVIOUS
  <1>1. MapTyped
    BY WorkersCount, ItemsAssumption DEF Init, MapTyped, Indices, Nothing
  <1>2. {i \in Indices : results[i] # Nothing} = {}
    BY DEF Init
  <1>3. Counts
    BY <1>1, <1>2, CountsTyped, WorkersCount, FS_EmptySet, ItemsAssumption DEF Init, Counts
  <1>4. OwnItems
    BY WorkersCount, ItemsAssumption DEF Init, OwnItems, Nothing, Indices
  <1>5. TakenIsKept
    <2> SUFFICES ASSUME NEW i \in Indices, i < next
                 PROVE  \E w \in Workers : at[w] = i
      BY DEF TakenIsKept
    <2>1. ~signal /\ i < Cardinality(Workers) + 1
      BY ItemsAssumption DEF Init, Indices
    <2>2. i \in Workers
      BY <2>1, WorkersCount DEF Indices
    <2>3. QED
      BY <2>1, <2>2 DEF Init
  <1>6. EndedForAReason
    BY DEF Init, EndedForAReason
  <1>7. QED
    BY <1>1, <1>3, <1>4, <1>5, <1>6 DEF MapInv

(* Worker w settles its item and takes the next, or ends.                  *)
LEMMA SettleKeeps ==
    ASSUME MapInv, NEW w \in Workers, Settle(w)
    PROVE  MapInv'
  <1> USE DEF MapInv
  <1> DEFINE i == at[w]
             takes == ~signal /\ next <= Items
  <1>1. /\ i \in Indices /\ i # Nothing /\ results[i] = Nothing /\ i < next
        /\ next \in Nat /\ Items \in Nat /\ w \notin ended
    BY ItemsAssumption DEF Settle, MapTyped, OwnItems
  <1>2. /\ results' = [results EXCEPT ![i] = i] /\ settled' = settled + 1
        /\ aborted' = (aborted \/ signal) /\ next' = IF signal THEN next ELSE next + 1
        /\ at' = [at EXCEPT ![w] = IF takes THEN next ELSE Nothing]
        /\ ended' = IF takes THEN ended ELSE ended \cup {w}
        /\ signal' = signal /\ call' = call
    BY DEF Settle, Stored, Counted, LoopTop, SignalSeen, Claimed
  <1> HIDE DEF i
  <1>3. MapTyped'
    BY <1>1, <1>2 DEF MapTyped, Indices, Nothing
  <1>4. Counts'
    <2>1. {j \in Indices : results'[j] # Nothing} = {j \in Indices : results[j] # Nothing} \cup {i}
      BY <1>1, <1>2 DEF MapTyped
    <2>2. Cardinality({j \in Indices : results'[j] # Nothing}) = settled + 1
      BY <1>1, <2>1, CountsTyped, FS_AddElement DEF Counts
    <2>3. Cardinality(ended') = IF takes THEN Cardinality(ended) ELSE Cardinality(ended) + 1
      BY <1>1, <1>2, CountsTyped, FS_AddElement
    <2>4. QED
      BY <1>1, <1>2, <2>2, <2>3, CountsTyped DEF Counts
  <1>5. OwnItems'
    BY <1>1, <1>2, i = at[w] DEF OwnItems, MapTyped, Indices, Nothing, i
  <1>6. TakenIsKept'
    <2> SUFFICES ASSUME NEW j \in Indices, j < next', call # "rejected"
                 PROVE  results'[j] = j \/ \E v \in Workers : at'[v] = j
      BY <1>2 DEF TakenIsKept
    <2>1. CASE j = i
      BY <2>1, <1>1, <1>2 DEF MapTyped
    <2>2. CASE j # i /\ j < next
      <3>1. results[j] = j \/ \E v \in Workers \ {w} : at[v] = j
        BY <2>2 DEF TakenIsKept, i
      <3>2. QED
        BY <3>1, <2>2, <1>1, <1>2 DEF MapTyped
    <2>3. CASE j # i /\ ~(j < next)
      <3>1. j = next /\ takes
        BY <2>3, <1>1, <1>2 DEF Indices
      <3>2. QED
        BY <3>1, <1>2 DEF MapTyped
    <2>4. QED
      BY <2>1, <2>2, <2>3
  <1>7. EndedForAReason'
    BY <1>1, <1>2 DEF EndedForAReason, MapTyped
  <1>8. QED
    BY <1>3, <1>4, <1>5, <1>6, <1>7

(* Worker w's item throws.                                                 *)
LEMMA ThrowKeeps ==
    ASSUME MapInv, NEW w \in Workers, Throw(w)
    PROVE  MapInv'
  <1> USE DEF MapInv
  <1>1. /\ at[w] # Nothing /\ w \notin ended
        /\ at' = [at EXCEPT ![w] = Nothing] /\ ended' = ended \cup {w}
        /\ call' = IF call = "running" THEN "rejected" ELSE call
        /\ UNCHANGED <<next, results, settled, signal, aborted>>
    BY DEF Throw, OwnItems
  <1>2. MapTyped'
    BY <1>1 DEF MapTyped
  <1>3. call' = "rejected"
    BY <1>1 DEF MapTyped, EndedForAReason
  <1>4. Counts'
    <2>1. Cardinality(ended') = Cardinality(ended) + 1
      BY <1>1, CountsTyped, FS_AddElement
    <2>2. QED
      BY <1>1, <2>1, CountsTyped, ItemsAssumption DEF Counts, MapTyped
  <1>5. OwnItems'
    BY <1>1 DEF OwnItems, MapTyped, Nothing
  <1>6. TakenIsKept' /\ EndedForAReason'
    BY <1>1, <1>3 DEF TakenIsKept, EndedForAReason
  <1>7. QED
    BY <1>2, <1>4, <1>5, <1>6

(* The signal fires, or the call is answered.                              *)
LEMMA CallKeeps ==
    ASSUME MapInv, Fire \/ AllDone
    PROVE  MapInv'
  <1>1. /\ UNCHANGED <<next, at, ended, results, settled, aborted>>
        /\ signal' \in BOOLEAN
        /\ \/ call' = call
           \/ call = "running" /\ ended = Workers /\ call' = IF aborted THEN "aborted" ELSE "resolved"
    BY DEF Fire, AllDone, AllEnded, Outcome, MapInv, MapTyped
  <1>2. MapTyped' /\ Counts' /\ OwnItems'
    BY <1>1 DEF MapInv, MapTyped, Counts, OwnItems
  <1>3. TakenIsKept' /\ EndedForAReason'
    BY <1>1 DEF MapInv, TakenIsKept, EndedForAReason
  <1>4. QED
    BY <1>2, <1>3 DEF MapInv

(* Every step of a bounded map, and every stutter, keeps the invariant.    *)
LEMMA MapKeeps == MapInv /\ [Next]_vars => MapInv'
  <1> SUFFICES ASSUME MapInv, [Next]_vars PROVE MapInv'
    OBVIOUS
  <1>1. CASE UNCHANGED vars
    BY <1>1 DEF vars, MapInv, MapTyped, Counts, OwnItems, TakenIsKept, EndedForAReason
  <1>2. QED
    BY <1>1, SettleKeeps, ThrowKeeps, CallKeeps DEF Next

(* A call is resolved only with the value of every item at its own index.  *)
LEMMA ResolvedIsComplete ==
    ASSUME MapInv, call = "resolved"
    PROVE  \A i \in Indices : results[i] = i
  <1> USE DEF MapInv
  <1>1. ended = Workers /\ next > Items
    BY WorkersCount DEF EndedForAReason
  <1>2. \A w \in Workers : at[w] = Nothing
    BY <1>1 DEF OwnItems
  <1>3. QED
    BY <1>1, <1>2, ItemsAssumption DEF TakenIsKept, MapTyped, Indices, Nothing
-----------------------------------------------------------------------------
(* The surveys.                                                            *)

(* A plan has so many commands.                                            *)
LEMMA AskedIsFinite ==
    ASSUME NEW p \in Plans
    PROVE  IsFiniteSet(Asked(p.steps)) /\ Cardinality(Asked(p.steps)) \in Nat
  <1> DEFINE asked == {s \in DOMAIN p.steps : ~Skipped(p.steps[s])}
             Of == [s \in asked |-> {s} \X Probes(p.steps[s])]
             parts == {{s} \X Probes(p.steps[s]) : s \in asked}
  <1>1. /\ p.steps \in Seq(Steps) /\ Len(p.steps) \in Nat
        /\ DOMAIN p.steps = 1 .. Len(p.steps)
        /\ \A s \in DOMAIN p.steps : p.steps[s] \in Steps
    BY PlansAssumption
  <1>2. IsFiniteSet(asked)
    <2>1. IsFiniteSet(1 .. Len(p.steps))
      BY <1>1, FS_Interval
    <2>2. QED
      BY <1>1, <2>1, FS_Subset
  <1>3. IsFiniteSet(parts)
    <2>1. Of \in Surjection(asked, parts)
      BY DEF Surjection
    <2>2. QED
      BY <1>2, <2>1, FS_Surjection
  <1>4. ASSUME NEW s \in asked PROVE IsFiniteSet({s} \X Probes(p.steps[s]))
    <2>0. p.steps[s].cmds \in Seq({"read", "write"})
      BY <1>1 DEF Steps
    <2>1. Len(p.steps[s].cmds) \in Nat /\ DOMAIN p.steps[s].cmds = 1 .. Len(p.steps[s].cmds)
      BY <2>0
    <2>2. IsFiniteSet(1 .. Len(p.steps[s].cmds))
      BY <2>1, FS_Interval
    <2>3. Probes(p.steps[s]) \in SUBSET (1 .. Len(p.steps[s].cmds))
      BY <2>1 DEF Probes
    <2>4. IsFiniteSet(Probes(p.steps[s]))
      BY <2>2, <2>3, FS_Subset
    <2>5. QED
      BY <2>4, FS_Singleton, FS_Product
  <1>5. \A part \in parts : IsFiniteSet(part)
    BY <1>4
  <1>6. Asked(p.steps) = UNION parts
    BY DEF Asked
  <1> HIDE DEF parts
  <1>7. IsFiniteSet(UNION parts)
    BY <1>3, <1>5, FS_UNION
  <1>8. QED
    BY <1>6, <1>7, FS_CardinalityType

(* What comes back of a batch: rows, no more than there were commands, and  *)
(* fewer only if the last one lost the shell.                              *)
LEMMA BatchTyped ==
    ASSUME NEW n \in Nat, NEW rows \in Batches(n)
    PROVE  /\ rows \in Seq(Rows) /\ Len(rows) \in 0 .. n
           /\ DOMAIN rows = 1 .. Len(rows)
           /\ rows # Unreachable => rows # <<>> /\ (Len(rows) < n => rows[Len(rows)] = "lost")
  <1>1. CASE rows = Unreachable
    BY <1>1 DEF Unreachable
  <1>2. CASE rows # Unreachable
    <2>1. PICK m \in 0 .. n : rows \in [1 .. m -> Rows]
      BY <1>2 DEF Batches, SeqOf
    <2>2. rows \in Seq(Rows) /\ Len(rows) = m
      BY <2>1
    <2>3. QED
      BY <1>2, <2>1, <2>2 DEF Batches, Last, Unreachable
  <1>3. QED
    BY <1>1, <1>2

(* How many commands a target is asked.                                    *)
LEMMA RequestsTyped ==
    ASSUME BatchesAreReal
    PROVE  Len(requests) \in Nat
  <1> DEFINE n == Cardinality(Asked(plan.steps))
  <1>1. requests \in [1 .. n -> Asked(plan.steps)]
    BY DEF BatchesAreReal, Flattened
  <1>2. n \in Nat
    BY AskedIsFinite DEF BatchesAreReal
  <1>3. QED
    BY <1>1, <1>2

(* A survey's call is a bounded map over its targets.                      *)
LEMMA StepIsMap == [SurveyNext]_surveyVars => [Next]_vars
  <1> SUFFICES ASSUME [SurveyNext]_surveyVars PROVE [Next]_vars
    OBVIOUS
  <1>1. CASE UNCHANGED surveyVars
    BY <1>1 DEF surveyVars
  <1>2. QED
    BY <1>1 DEF SurveyNext, Calls, Answer, Fail, Next

(* Every step of a survey, and every stutter, keeps the invariant.         *)
LEMMA SurveyKeeps == IInv /\ [SurveyNext]_surveyVars => IInv'
  <1> SUFFICES ASSUME IInv, [SurveyNext]_surveyVars PROVE IInv'
    OBVIOUS
  <1>1. MapInv'
    BY StepIsMap, MapKeeps DEF IInv
  <1>2. ASSUME NEW w \in Workers, Answer(w) PROVE BatchesAreReal'
    <2>1. PICK b \in Batches(Len(requests)) : batch' = [batch EXCEPT ![at[w]] = b]
      BY <1>2 DEF Answer
    <2>2. /\ plan' = plan /\ requests' = requests
          /\ at[w] \in Indices /\ results' = [results EXCEPT ![at[w]] = at[w]]
      BY <1>2 DEF Answer, Settle, Stored, IInv, MapInv, MapTyped
    <2>3. QED
      BY <2>1, <2>2 DEF IInv, MapInv, MapTyped, BatchesAreReal
  <1>3. ASSUME UNCHANGED <<results, plan, requests, batch>> PROVE BatchesAreReal'
    BY <1>3 DEF IInv, BatchesAreReal
  <1>4. ASSUME NEW w \in Workers, Fail(w) PROVE UNCHANGED <<results, plan, requests, batch>>
    BY <1>4 DEF Fail, Throw
  <1>5. Calls \/ UNCHANGED surveyVars => UNCHANGED <<results, plan, requests, batch>>
    BY DEF Calls, Fire, AllDone, surveyVars, vars
  <1>6. BatchesAreReal'
    BY <1>2, <1>3, <1>4, <1>5 DEF SurveyNext
  <1>7. QED
    BY <1>1, <1>6 DEF IInv

(* No batch has come back yet.                                             *)
LEMMA SurveyStarts == SurveyInit => IInv
  <1> SUFFICES ASSUME SurveyInit PROVE IInv
    OBVIOUS
  <1>1. MapInv
    BY InitMap DEF SurveyInit
  <1>2. BatchesAreReal
    BY DEF SurveyInit, Init, BatchesAreReal
  <1>3. QED
    BY <1>1, <1>2 DEF IInv

(* The invariant holds of every behaviour of a survey.                     *)
LEMMA Invariance == SurveySpec => []IInv
  <1>1. QED
    BY SurveyStarts, SurveyKeeps, PTL DEF SurveySpec

(* A resolved survey has an entry of each target, made from its own batch. *)
LEMMA EntriesAreOwn ==
    ASSUME IInv, call = "resolved", NEW i \in Indices
    PROVE  Entry(i) = batch[i] /\ batch[i] \in Batches(Len(requests))
  <1>1. results[i] = i /\ i # Nothing
    BY ResolvedIsComplete, ItemsAssumption DEF IInv, Indices, Nothing
  <1>2. QED
    BY <1>1 DEF Entry, IInv, BatchesAreReal
-----------------------------------------------------------------------------
(* The reports.                                                            *)

(* A set of naturals with something in it has its least.                   *)
LEMMA LeastOfNats ==
    ASSUME NEW S, S \subseteq Nat, S # {}
    PROVE  \E m \in S : \A n \in S : m <= n
  <1>1. IsWellFoundedOn(OpToRel(<, Nat), Nat)
    BY NatLessThanWellFounded, Zenon
  <1>2. \A x, y \in Nat : x < y => <<x, y>> \in OpToRel(<, Nat)
    BY DEF OpToRel
  <1>3. PICK R : IsWellFoundedOn(R, Nat) /\ \A x, y \in Nat : x < y => <<x, y>> \in R
    BY <1>1, <1>2, Zenon
  <1>4. IsWellFoundedOn(R, Nat)
    BY <1>3
  <1>5. PICK m \in S : \A n \in S : ~(<<n, m>> \in R)
    BY <1>4, WFMin, Zenon
  <1>6. ASSUME NEW n \in S PROVE m <= n
    <2>1. ~(n < m)
      BY <1>3, <1>5, Zenon
    <2>2. QED
      BY <2>1
  <1>7. QED
    BY <1>6

(* Of sets of indices there is one as CHOOSE of Majority looks for: the     *)
(* largest, and of the largest the one with the least index.               *)
LEMMA LargestExists ==
    ASSUME NEW Sets, Sets # {}, \A g \in Sets : g # {} /\ g \subseteq Indices
    PROVE  \E g \in Sets : \A h \in Sets :
              \/ Cardinality(g) > Cardinality(h)
              \/ Cardinality(g) = Cardinality(h) /\ Min(g) <= Min(h)
  <1>1. \A g \in Sets : Cardinality(g) \in 0 .. Items
    <2>1. IsFiniteSet(Indices) /\ Cardinality(Indices) = Items
      BY ItemsAssumption, FS_Interval DEF Indices
    <2>2. ASSUME NEW g \in Sets PROVE Cardinality(g) \in 0 .. Items
      <3>1. IsFiniteSet(g) /\ Cardinality(g) <= Items
        BY <2>1, FS_Subset
      <3>2. QED
        BY <3>1, FS_CardinalityType, ItemsAssumption
    <2>3. QED
      BY <2>2
  <1>2. \A g \in Sets : Min(g) \in Nat
    <2>1. ASSUME NEW g \in Sets PROVE Min(g) \in Nat
      <3>1. g \subseteq Nat /\ g # {}
        BY ItemsAssumption DEF Indices
      <3>2. \E m \in g : \A n \in g : m <= n
        BY <3>1, LeastOfNats
      <3>3. Min(g) \in g
        BY <3>2 DEF Min
      <3>4. QED
        BY <3>1, <3>3
    <2>2. QED
      BY <2>1
  <1> DEFINE missing == {Items - Cardinality(g) : g \in Sets}
  <1>3. PICK a \in missing : \A b \in missing : a <= b
    <2>1. missing \subseteq Nat /\ missing # {}
      BY <1>1, ItemsAssumption
    <2> HIDE DEF missing
    <2>2. QED
      BY <2>1, LeastOfNats
  <1> DEFINE largest == {g \in Sets : Items - Cardinality(g) = a}
             firsts == {Min(g) : g \in largest}
  <1>4. \A g \in largest : \A h \in Sets : Cardinality(g) >= Cardinality(h)
    <2> SUFFICES ASSUME NEW g \in largest, NEW h \in Sets
                 PROVE  Cardinality(g) >= Cardinality(h)
      OBVIOUS
    <2>1. Items - Cardinality(g) <= Items - Cardinality(h)
      BY <1>3
    <2>2. QED
      BY <1>1, <2>1, ItemsAssumption
  <1>5. PICK m \in firsts : \A n \in firsts : m <= n
    <2>1. firsts \subseteq Nat /\ firsts # {}
      BY <1>2
    <2> HIDE DEF firsts
    <2>2. QED
      BY <2>1, LeastOfNats
  <1>6. PICK g \in largest : Min(g) = m
    BY <1>5
  <1>7. ASSUME NEW h \in Sets
        PROVE  \/ Cardinality(g) > Cardinality(h)
               \/ Cardinality(g) = Cardinality(h) /\ Min(g) <= Min(h)
    <2>1. CASE h \in largest
      BY <2>1, <1>1, <1>4, <1>5, <1>6
    <2>2. CASE h \notin largest
      BY <2>2, <1>1, <1>4, <1>6, ItemsAssumption
    <2>3. QED
      BY <2>1, <2>2
  <1>8. QED
    BY <1>6, <1>7

(* Who answered every command with success is who counts as comparable.    *)
LEMMA OkIsWhole ==
    ASSUME IInv, call = "resolved", NEW i \in Indices
    PROVE  Ok(i) <=> Whole(batch[i])
  <1> DEFINE rows == batch[i]
             n == Len(requests)
  <1>1. n \in Nat /\ rows \in Batches(n) /\ Entry(i) = rows
    BY EntriesAreOwn, RequestsTyped DEF IInv
  <1>2. /\ Len(rows) \in 0 .. n /\ DOMAIN rows = 1 .. Len(rows) /\ rows \in Seq(Rows)
        /\ rows # Unreachable => rows # <<>> /\ (Len(rows) < n => rows[Len(rows)] = "lost")
    BY <1>1, BatchTyped
  <1>3. Ok(i) <=> rows # Unreachable /\ \A k \in DOMAIN rows : rows[k] \in Healthy
    BY <1>1 DEF Ok, Comparable, Range
  <1>4. Whole(rows) <=> rows # Unreachable /\ Len(rows) = n /\ \A k \in DOMAIN rows : rows[k] \in Healthy
    BY DEF Whole, Range
  <1>5. rows # Unreachable /\ (\A k \in DOMAIN rows : rows[k] \in Healthy) => Len(rows) = n
    <2> SUFFICES ASSUME rows # Unreachable, Len(rows) # n, \A k \in DOMAIN rows : rows[k] \in Healthy
                 PROVE  FALSE
      OBVIOUS
    <2>1. Len(rows) \in DOMAIN rows /\ rows[Len(rows)] = "lost"
      BY <1>1, <1>2
    <2>2. QED
      BY <2>1 DEF Healthy
  <1>6. QED
    BY <1>3, <1>4, <1>5

(* A group of a resolved comparison holds those that answered everything,   *)
(* and the same.                                                           *)
LEMMA GroupsFollow == IInv => GroupsAreWhole
  <1> SUFFICES ASSUME IInv, call = "resolved" PROVE
        /\ \A i \in Indices : (\E g \in Buckets : i \in g) <=> Whole(batch[i])
        /\ \A g \in Buckets : \A i, j \in g : LineCounts(batch[i]) = LineCounts(batch[j])
        /\ \A i \in Outliers : \A j \in Majority : LineCounts(batch[i]) # LineCounts(batch[j])
    BY DEF GroupsAreWhole
  <1> DEFINE Same(i) == {j \in Indices : Ok(j) /\ LineCounts(batch[j]) = LineCounts(batch[i])}
  <1>1. Buckets = {Same(i) : i \in {k \in Indices : Ok(k)}}
    BY EntriesAreOwn DEF Buckets
  <1>2. ASSUME NEW i \in Indices PROVE (\E g \in Buckets : i \in g) <=> Whole(batch[i])
    <2>1. Ok(i) => Same(i) \in Buckets /\ i \in Same(i)
      BY <1>1
    <2>2. ASSUME NEW g \in Buckets, i \in g PROVE Ok(i)
      BY <1>1, <2>2
    <2>3. QED
      BY <2>1, <2>2, OkIsWhole
  <1>3. ASSUME NEW g \in Buckets, NEW i \in g, NEW j \in g
        PROVE  LineCounts(batch[i]) = LineCounts(batch[j])
    BY <1>1
  <1>4. ASSUME NEW i \in Outliers, NEW j \in Majority, LineCounts(batch[i]) = LineCounts(batch[j])
        PROVE  FALSE
    <2>1. PICK h \in Buckets : i \in h
      BY DEF Outliers
    <2>2. i \in Indices /\ Ok(i) /\ i \notin Majority
      BY <1>1, <2>1 DEF Outliers
    <2>3. \A g \in Buckets : g # {} /\ g \subseteq Indices
      BY <1>1
    <2>4. Majority \in Buckets
      BY <2>1, <2>3, LargestExists DEF Majority
    <2>5. PICK k \in Indices : Majority = Same(k)
      BY <1>1, <2>4
    <2>6. QED
      BY <1>4, <2>2, <2>5
  <1>5. QED
    BY <1>2, <1>3, <1>4
(* No answer that a step's assertion looks at is an error or against it,    *)
(* and what it wants present is there.                                     *)
StepBacked(i, s) ==
    /\ InView(i, s) \cap Failed = {}
    /\ plan.steps[s].expect = "present" /\ InView(i, s) # {} =>
          "same" \in Outputs(InView(i, s))
    /\ plan.steps[s].expect = "absent" => "other" \notin Outputs(InView(i, s))
    /\ plan.steps[s].expect = "exit0" => InView(i, s) \subseteq Healthy

(* A target that passes was entered, unless nothing is asserted, and its    *)
(* answers back each assertion.                                            *)
Backed(i) ==
    \/ Asserted = {}
    \/ batch[i] # Unreachable /\ \A s \in Asserted : StepBacked(i, s)

(* What a target's verdict says of its answers.                            *)
LEMMA VerdictIsBacked ==
    ASSUME IInv, call = "resolved", NEW i \in Indices, TargetVerdict(batch[i]) # "fail"
    PROVE  Backed(i)
  <1> SUFFICES ASSUME Asserted # {} PROVE
        batch[i] # Unreachable /\ \A s \in Asserted : StepBacked(i, s)
    BY DEF Backed
  <1> DEFINE rows == batch[i]
             checked == {s \in Asserted : Members(rows, s) # {}}
             held == {s \in checked : EvaluateExpect(plan.steps[s].expect, JudgedRows(rows, s))}
  <1>1. rows # Unreachable /\ checked \subseteq held
    BY DEF TargetVerdict, FoldVerdict
  <1>2. ASSUME NEW s \in Asserted
        PROVE  StepBacked(i, s)
    <2>1. CASE s \notin checked
      <3>1. InView(i, s) = {}
        BY <2>1 DEF InView, Members
      <3>2. QED
        BY <3>1 DEF StepBacked, Outputs
    <2>2. CASE s \in checked
      <3>1. EvaluateExpect(plan.steps[s].expect, JudgedRows(rows, s))
        BY <1>1, <2>2
      <3>2. InView(i, s) = JudgedRows(rows, s)
        BY DEF InView, JudgedRows, Members
      <3>3. QED
        BY <3>1, <3>2 DEF EvaluateExpect, StepBacked
    <2>3. QED
      BY <2>1, <2>2
  <1>3. QED
    BY <1>1, <1>2

(* Nothing passes, and no host is unchanged, that was not seen to be.      *)
LEMMA GoodNewsFollows == IInv => NothingPassesUnseen
  <1> SUFFICES ASSUME IInv, call = "resolved", NEW i \in Indices
      PROVE  /\ Verdict = "pass" \/ TargetVerdict(Entry(i)) = "pass" => Backed(i)
             /\ HostDrift(i) = "unchanged" =>
                  /\ batch[i] # Unreachable
                  /\ \A p \in DOMAIN plan.before : plan.before[p] # "nothing" =>
                        \E k \in DOMAIN batch[i] :
                            requests[k][2] = p /\ Printed(batch[i][k]) = plan.before[p]
    BY DEF NothingPassesUnseen, Backed, StepBacked
  <1>1. Entry(i) = batch[i]
    BY EntriesAreOwn
  <1>2. ASSUME Verdict = "pass" \/ TargetVerdict(Entry(i)) = "pass" PROVE Backed(i)
    <2>1. Verdict = "pass" => TargetVerdict(Entry(i)) # "fail"
      <3> DEFINE verdicts == {TargetVerdict(Entry(j)) : j \in Indices} \ {"none"}
      <3>1. Verdict = "pass" => "fail" \notin verdicts
        BY DEF Verdict
      <3>2. QED
        BY <3>1
    <2>2. QED
      BY <1>1, <1>2, <2>1, VerdictIsBacked
  <1>3. ASSUME HostDrift(i) = "unchanged"
        PROVE  /\ batch[i] # Unreachable
               /\ \A p \in DOMAIN plan.before : plan.before[p] # "nothing" =>
                     \E k \in DOMAIN batch[i] :
                         requests[k][2] = p /\ Printed(batch[i][k]) = plan.before[p]
    <2>1. batch[i] # Unreachable /\ Facts(batch[i]) = plan.before
      BY <1>1, <1>3 DEF HostDrift
    <2>2. ASSUME NEW p \in DOMAIN plan.before, plan.before[p] # "nothing"
          PROVE  \E k \in DOMAIN batch[i] :
                     requests[k][2] = p /\ Printed(batch[i][k]) = plan.before[p]
      <3> DEFINE rows == batch[i]
                 told == {k \in DOMAIN rows : requests[k][2] = p /\ Fills(rows[k])}
      <3>1. p \in DOMAIN FullProfile
        BY <2>1 DEF Facts
      <3>2. plan.before[p] = IF told = {} THEN "nothing" ELSE Printed(rows[CHOOSE k \in told : TRUE])
        BY <2>1, <3>1 DEF Facts
      <3>3. told # {} /\ plan.before[p] = Printed(rows[CHOOSE k \in told : TRUE])
        BY <2>2, <3>2
      <3>4. (CHOOSE k \in told : TRUE) \in told
        BY <3>3
      <3>5. QED
        BY <3>3, <3>4
    <2>3. QED
      BY <2>1, <2>2
  <1>4. QED
    BY <1>2, <1>3
-----------------------------------------------------------------------------
(* Type correctness of the bounded map, within a survey.                   *)
THEOREM TypeCorrect == SurveySpec => []TypeOK
  <1>1. IInv => TypeOK
    BY CountsTyped, ItemsAssumption, LimitAssumption DEF IInv, MapInv, MapTyped, Counts, TypeOK
  <1>2. QED
    BY <1>1, Invariance, PTL

(* A survey's call is a call of mapWithConcurrency on its targets.         *)
THEOREM SurveyIsMap == SurveySpec => Init /\ [][Next]_vars
  <1>1. SurveyInit => Init
    BY DEF SurveyInit
  <1>2. QED
    BY <1>1, StepIsMap, PTL DEF SurveySpec

(* A resolved call has the value of each item at its own index, whatever    *)
(* order they settled in (concurrency.ts:45, 60).                          *)
THEOREM InOrderOfItems ==
    SurveySpec => [](call = "resolved" => \A i \in Indices : results[i] = i)
  <1>1. IInv => (call = "resolved" => \A i \in Indices : results[i] = i)
    BY ResolvedIsComplete DEF IInv
  <1>2. QED
    BY <1>1, Invariance, PTL

(* After the signal no target is entered, for any number of workers.       *)
THEOREM CancelHolds == SurveySpec => NothingTakenAfterCancel
  <1>1. IInv /\ [Next]_vars => [signal => TakesNothing]_vars
    <2> SUFFICES ASSUME IInv, Next, signal PROVE TakesNothing
      OBVIOUS
    <2>1. at \in [Workers -> Indices \cup {Nothing}]
      BY DEF IInv, MapInv, MapTyped
    <2>2. ASSUME NEW w \in Workers, Settle(w) \/ Throw(w) PROVE TakesNothing
      BY <2>1, <2>2 DEF Settle, Throw, LoopTop, SignalSeen, TakesNothing
    <2>3. CASE Fire \/ AllDone
      BY <2>3 DEF Fire, AllDone, TakesNothing
    <2>4. QED
      BY <2>2, <2>3 DEF Next
  <1>2. SurveySpec => [][Next]_vars
    BY SurveyIsMap, PTL
  <1>3. QED
    BY <1>1, <1>2, Invariance, PTL DEF NothingTakenAfterCancel

(* The groups of a comparison are made of whole answers.                   *)
THEOREM GroupsHold == SurveySpec => []GroupsAreWhole
  <1>1. QED
    BY GroupsFollow, Invariance, PTL

(* Every pass and every unchanged host is backed by answers.               *)
THEOREM GoodNewsHolds == SurveySpec => []NothingPassesUnseen
  <1>1. QED
    BY GoodNewsFollows, Invariance, PTL
=============================================================================
