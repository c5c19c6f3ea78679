------------------------ MODULE MCCallListTrimProofs ------------------------
(***************************************************************************)
(* Proofs about a list that is written and trimmed, for any limit and any  *)
(* finite number of calls.                                                 *)
(***************************************************************************)
EXTENDS MCCallListTrim, CallListTrimProofs

StoredList == stored \in SUBSET Fragment /\ IsFiniteSet(stored)

LEMMA FiniteFragments == IsFiniteSet(Fragment)
<1> DEFINE pair == [f \in Fragment |-> <<f.call, f.type>>]
<1>1. IsFiniteSet(FragmentType)
  <2>1. FragmentType = ({"BEGIN"} \cup {"END"}) \cup {"REJECTED"}
    BY DEF FragmentType
  <2> QED
    BY <2>1, FS_Singleton, FS_AddElement
<1>2. IsFiniteSet(Calls \X FragmentType)
  BY <1>1, ListAssumption, FS_Product
<1>3. \A f, g \in Fragment : pair[f] = pair[g] => f = g
  BY DEF Fragment
<1>4. pair \in [Fragment -> Calls \X FragmentType]
  BY DEF Fragment
<1> HIDE DEF pair
<1>5. pair \in Injection(Fragment, Calls \X FragmentType)
  BY <1>3, <1>4 DEF Injection, IsInjective
<1> QED
  BY <1>2, <1>5, FS_Injection

LEMMA StoredListAlways ==
  /\ Init => StoredList
  /\ StoredList /\ [Next]_stored => StoredList'
<1>1. Init => StoredList
  BY FiniteFragments, FS_Subset DEF Init, StoredList
<1>2. ASSUME StoredList, [Next]_stored
      PROVE  StoredList'
  <2>1. stored' \in SUBSET Fragment
    BY <1>2 DEF Next, Record, RecordAndTrim, StoredList
  <2> QED
    BY <2>1, FiniteFragments, FS_Subset DEF StoredList
<1> QED
  BY <1>1, <1>2

(* A list that needs a trim has more calls than the limit.                  *)
LEMMA OverTheLimit ==
  ASSUME StoredList, TrimNeeded(stored)
  PROVE  CallCount(stored) >= MaxCallListLength /\ NumToDelete(stored) >= 1
<1>1. CallCount(stored) \in Nat
  <2>1. {f \in stored : IsCall(f)} \in SUBSET stored
    OBVIOUS
  <2> QED
    BY <2>1, FS_Subset, FS_CardinalityType DEF StoredList, CallCount
<1> QED
  BY <1>1, MaxLengthAssumption DEF TrimNeeded, NumToDelete

(* For every limit and list: a trim leaves one call above the limit for     *)
(* each END among the records that is_call_trim_needed selects.             *)
THEOREM TrimsLeaveMaxPlusEnds == Spec => []TrimLeavesMaxPlusEnds
<1>1. StoredList => TrimLeavesMaxPlusEnds
  BY OverTheLimit, CallsLeftByTrim DEF StoredList, TrimLeavesMaxPlusEnds
<1> QED
  BY <1>1, StoredListAlways, PTL DEF Spec

(* For every limit and list: the newest max_call_list_length calls are not  *)
(* among the records that is_call_trim_needed selects.                      *)
THEOREM TrimsKeepNewestCalls == Spec => []TrimKeepsNewestCalls
<1>1. StoredList => TrimKeepsNewestCalls
  <2> SUFFICES ASSUME StoredList, NEW f \in RecordsToDelete(stored),
                      Cardinality(NewerCalls(stored, f)) < MaxCallListLength
               PROVE  FALSE
    BY DEF TrimKeepsNewestCalls
  <2>1. Cardinality(NewerCalls(stored, f)) >= MaxCallListLength
    BY SelectedHaveNewerCalls DEF StoredList
  <2>2. Cardinality(NewerCalls(stored, f)) \in Nat
    BY NewerCallsMonotone DEF StoredList
  <2> QED
    BY <2>1, <2>2, MaxLengthAssumption
<1> QED
  BY <1>1, StoredListAlways, PTL DEF Spec

(* The earliest fragment of the list without its first k is its k-th.        *)
LEMMA EarliestOfRest ==
  ASSUME NEW S \in SUBSET Fragment, IsFiniteSet(S), NEW k \in 0..(Cardinality(S) - 1)
  PROVE  LET rest == {f \in S : IndexOf(S, f) >= k} IN
         /\ Earliest(rest) \in S /\ IndexOf(S, Earliest(rest)) = k
         /\ rest \ {Earliest(rest)} = {f \in S : IndexOf(S, f) >= k + 1}
<1> DEFINE rest == {f \in S : IndexOf(S, f) >= k}
           earliest(f) == \A g \in rest \ {f} : Before(f, g)
<1>1. Cardinality(S) \in Nat /\ \A f \in S : IndexOf(S, f) \in Nat
  BY IndexInVector, FS_CardinalityType
<1>2. PICK f \in S : IndexOf(S, f) = k
  BY IndexBijection
<1>3. \A g \in rest : g # f => Before(f, g)
  <2> SUFFICES ASSUME NEW g \in S, IndexOf(S, g) >= k, g # f, ~ Before(f, g)
               PROVE  FALSE
    OBVIOUS
  <2>1. Before(g, f)
    BY BeforeOrder
  <2>2. IndexOf(S, g) < k
    BY <1>2, <2>1, IndexGrows
  <2> QED
    BY <1>1, <2>2
<1>4. f \in rest /\ earliest(f)
  BY <1>1, <1>2, <1>3
<1>5. \A g \in rest : earliest(g) => g = f
  <2> SUFFICES ASSUME NEW g \in rest, earliest(g), g # f
               PROVE  FALSE
    OBVIOUS
  <2>1. Before(f, g) /\ Before(g, f) /\ f \in Fragment /\ g \in Fragment
    BY <1>3, <1>4
  <2> QED
    BY <2>1, BeforeOrder
<1>6. Earliest(rest) = f
  BY <1>4, <1>5 DEF Earliest
<1>7. rest \ {f} = {g \in S : IndexOf(S, g) >= k + 1}
  BY <1>1, <1>2, IndexBijection
<1> HIDE DEF rest
<1>8. /\ Earliest(rest) \in S /\ IndexOf(S, Earliest(rest)) = k
      /\ rest \ {Earliest(rest)} = {g \in S : IndexOf(S, g) >= k + 1}
  BY <1>2, <1>6, <1>7
<1> QED
  BY <1>8 DEF rest

(* The recursion of the selection sort has one solution: what is left when  *)
(* k fragments are taken is the list from its index k.  Its uniqueness is   *)
(* by the least k at which a solution would differ.                          *)
LEMMA RemainingByIndex ==
  ASSUME NEW S \in SUBSET Fragment, IsFiniteSet(S)
  PROVE  \A k \in 0..Cardinality(S) : Remaining(S)[k] = {f \in S : IndexOf(S, f) >= k}
<1> DEFINE n == Cardinality(S)
           from(k) == {f \in S : IndexOf(S, f) >= k}
           step(rest) == [k \in 0..n |-> IF k = 0 THEN S
                                         ELSE rest[k - 1] \ {Earliest(rest[k - 1])}]
           solution == [k \in 0..n |-> from(k)]
           wrong == {k \in 0..n : Remaining(S)[k] # from(k)}
<1>1. n \in Nat
  BY FS_CardinalityType
<1>2. from(0) = S
  BY IndexInVector
<1>3. \A k \in 0..n : k # 0 => k - 1 \in 0..n /\ from(k) = from(k - 1) \ {Earliest(from(k - 1))}
  <2> SUFFICES ASSUME NEW k \in 0..n, k # 0
               PROVE  k - 1 \in 0..n /\ from(k) = from(k - 1) \ {Earliest(from(k - 1))}
    OBVIOUS
  <2>1. k - 1 \in 0..(n - 1) /\ (k - 1) + 1 = k
    BY <1>1
  <2>2. from(k - 1) \ {Earliest(from(k - 1))} = from((k - 1) + 1)
    BY <2>1, EarliestOfRest
  <2> QED
    BY <1>1, <2>1, <2>2
<1> HIDE DEF from
<1>4. solution = step(solution)
  BY <1>2, <1>3
<1>5. Remaining(S) = step(Remaining(S))
  <2> HIDE DEF solution
  <2> QED
    BY <1>4 DEF Remaining
<1>6. wrong = {}
  <2> SUFFICES ASSUME wrong # {}
               PROVE  FALSE
    OBVIOUS
  <2>1. PICK k \in wrong : \A j \in wrong : ~ (j < k)
    <3>1. wrong \subseteq Nat
      OBVIOUS
    <3> HIDE DEF wrong
    <3>2. PICK k \in wrong : \A j \in wrong : ~ (<<j, k>> \in OpToRel(<, Nat))
      BY <3>1, NatLessThanWellFounded, WFMin
    <3>3. \A j \in wrong : j < k => <<j, k>> \in OpToRel(<, Nat)
      BY <3>1 DEF OpToRel
    <3> QED
      BY <3>2, <3>3
  <2>3. Remaining(S)[k] = IF k = 0 THEN S
                          ELSE Remaining(S)[k - 1] \ {Earliest(Remaining(S)[k - 1])}
    BY <1>5
  <2>4. k # 0
    BY <1>2, <2>3
  <2>5. k - 1 \in 0..n /\ from(k) = from(k - 1) \ {Earliest(from(k - 1))}
    BY <1>3, <2>4
  <2>6. Remaining(S)[k - 1] = from(k - 1)
    BY <2>1, <2>5
  <2> QED
    BY <2>3, <2>4, <2>5, <2>6
<1> QED
  BY <1>6 DEF from

(* The selection sort yields the list in the order of the store.            *)
LEMMA RecordsAreSorted ==
  ASSUME NEW S \in SUBSET Fragment, IsFiniteSet(S)
  PROVE  SortedVector(Records(S), S) /\ Len(Records(S)) = Cardinality(S)
<1> DEFINE n == Cardinality(S)
           v == Records(S)
<1>1. n \in Nat
  BY FS_CardinalityType
<1>2. \A k \in 1..n : v[k] \in S /\ IndexOf(S, v[k]) = k - 1
  <2> SUFFICES ASSUME NEW k \in 1..n
               PROVE  v[k] \in S /\ IndexOf(S, v[k]) = k - 1
    OBVIOUS
  <2>1. k - 1 \in 0..(n - 1) /\ k - 1 \in 0..n
    BY <1>1
  <2>2. v[k] = Earliest({f \in S : IndexOf(S, f) >= k - 1})
    BY <2>1, RemainingByIndex DEF Records
  <2> QED
    BY <2>1, <2>2, EarliestOfRest
<1>3. v = [k \in 1..n |-> v[k]]
  BY DEF Records
<1> HIDE DEF v
<1>4. v \in Seq(S) /\ Len(v) = n
  BY <1>1, <1>2, <1>3
<1>5. \A f \in S : \E k \in 1..n : v[k] = f
  <2> SUFFICES ASSUME NEW f \in S
               PROVE  \E k \in 1..n : v[k] = f
    OBVIOUS
  <2>1. IndexOf(S, f) \in 0..(n - 1)
    BY IndexInVector
  <2>2. IndexOf(S, f) + 1 \in 1..n /\ (IndexOf(S, f) + 1) - 1 = IndexOf(S, f)
    BY <1>1, <2>1
  <2> QED
    BY <1>2, <2>2, IndexBijection
<1>6. ASSUME NEW j \in 1..n, NEW k \in 1..n, j < k
      PROVE  Before(v[j], v[k])
  <2>1. v[j] # v[k] /\ ~ (IndexOf(S, v[k]) < IndexOf(S, v[j]))
    BY <1>1, <1>2, <1>6
  <2> QED
    BY <1>2, <2>1, IndexGrows, BeforeOrder
<1>7. SortedVector(v, S)
  BY <1>4, <1>5, <1>6 DEF SortedVector
<1> QED
  BY <1>4, <1>7 DEF v

(* For every limit and list: the loop of is_call_trim_needed finds at least *)
(* one record, stays in the vector it has read and takes just its prefix.   *)
THEOREM TrimsTakeVectorPrefix == Spec => []TrimTakesVectorPrefix
<1>1. StoredList => TrimTakesVectorPrefix
  <2> SUFFICES ASSUME StoredList, TrimNeeded(stored)
               PROVE  /\ NumToDelete(stored) \in 1..Len(Records(stored))
                      /\ RecordsToDelete(stored)
                           = {Records(stored)[k] : k \in 1..NumToDelete(stored)}
    BY DEF TrimTakesVectorPrefix
  <2>1. /\ NumToDelete(stored) \in 0..Len(Records(stored))
        /\ RecordsToDelete(stored) = {Records(stored)[k] : k \in 1..NumToDelete(stored)}
        /\ Len(Records(stored)) \in Nat
    BY OverTheLimit, RecordsAreSorted, TrimTakesPrefixOfVector, FS_CardinalityType DEF StoredList
  <2>2. NumToDelete(stored) >= 1
    BY OverTheLimit
  <2> QED
    BY <2>1, <2>2
<1> QED
  BY <1>1, StoredListAlways, PTL DEF Spec

(* For every limit: a trim deletes at least as many records as are written, *)
(* on average, between two readings of the list, so that a list under load  *)
(* does not outgrow its trims.  More than 110% of the limit is at least its *)
(* tenth, rounded up, too much.                                             *)
THEOREM TrimsKeepPaceAlways == Spec => TrimsKeepPace
<1>1. ASSUME StoredList, NEW f \in Fragment, RecordAndTrim(f)
      PROVE  Cardinality(stored') + CheckInterval <= Cardinality(stored \cup {f})
  <2> DEFINE written == stored \cup {f}
             doomed == RecordsToDelete(written)
  <2>1. /\ written \in SUBSET Fragment /\ IsFiniteSet(written)
        /\ MaxCallListLength > 0 /\ TrimNeeded(written) /\ stored' = written \ doomed
    BY <1>1, FS_AddElement DEF StoredList, RecordAndTrim
  <2> HIDE DEF written
  <2>2. CallCount(written) \in Nat
    <3>1. {g \in written : IsCall(g)} \in SUBSET written
      OBVIOUS
    <3> QED
      BY <2>1, <3>1, FS_Subset, FS_CardinalityType DEF CallCount
  <2>3. CallCount(written) - MaxCallListLength >= CheckInterval
    BY <2>1, <2>2, MaxLengthAssumption DEF TrimNeeded, CheckInterval
  <2>4. /\ CallCount(written) >= MaxCallListLength
        /\ Cardinality(doomed) = CallCount(written) - MaxCallListLength
    BY <2>1, <2>2, MaxLengthAssumption, SelectsTheSurplus DEF TrimNeeded, NumToDelete
  <2>5. doomed \in SUBSET written
    BY DEF RecordsToDelete
  <2> HIDE DEF doomed
  <2>6. /\ IsFiniteSet(doomed) /\ Cardinality(written \ doomed) \in Nat
        /\ Cardinality(written) = Cardinality(written \ doomed) + Cardinality(doomed)
    <3>1. IsFiniteSet(doomed) /\ IsFiniteSet(written \ doomed) /\ written \cap doomed = doomed
      BY <2>1, <2>5, FS_Subset
    <3>2. Cardinality(written \ doomed) = Cardinality(written) - Cardinality(written \cap doomed)
      BY <2>1, FS_Difference
    <3>3. /\ Cardinality(written) \in Nat /\ Cardinality(doomed) \in Nat
          /\ Cardinality(written \ doomed) \in Nat
      BY <2>1, <3>1, FS_CardinalityType
    <3> QED
      BY <3>1, <3>2, <3>3
  <2>7. Cardinality(written \ doomed) + CheckInterval <= Cardinality(written)
    BY <2>2, <2>3, <2>4, <2>6, MaxLengthAssumption DEF CheckInterval
  <2> QED
    BY <2>1, <2>7 DEF written
<1>2. StoredList /\ [Next]_stored =>
        [\A f \in Fragment :
           RecordAndTrim(f) =>
             Cardinality(stored') + CheckInterval <= Cardinality(stored \cup {f})]_stored
  BY <1>1
<1> QED
  BY <1>2, StoredListAlways, PTL DEF Spec, TrimsKeepPace
=============================================================================
