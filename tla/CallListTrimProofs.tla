------------------------- MODULE CallListTrimProofs -------------------------
(***************************************************************************)
(* What is_call_trim_needed may select, for any limit and any list.        *)
(***************************************************************************)
EXTENDS CallListTrim, Sequences, FiniteSetTheorems, WellFoundedInduction, TLAPS

(* The types of a call's fragments have the ranks 0, 1 and 2.               *)
LEMMA TypeRankInjective ==
  /\ \A p \in FragmentType : TypeRank(p) \in 0..2
  /\ \A p, q \in FragmentType : TypeRank(p) = TypeRank(q) => p = q
  BY DEF FragmentType, TypeRank

(* The key of a fragment is a number.                                       *)
LEMMA SortKeyType ==
  ASSUME NEW f \in Fragment
  PROVE  SortKey(f) \in Nat
<1>1. f.call \in Nat /\ f.type \in FragmentType
  BY CallsAssumption DEF Fragment
<1>2. TypeRank(f.type) \in 0..2
  BY <1>1, TypeRankInjective
<1> QED
  BY <1>1, <1>2 DEF SortKey

(* Two fragments of a list that sort alike are the same fragment.           *)
LEMMA SortKeyInjective ==
  ASSUME NEW f \in Fragment, NEW g \in Fragment, SortKey(f) = SortKey(g)
  PROVE  f = g
<1>1. f.call \in Nat /\ g.call \in Nat
  BY CallsAssumption DEF Fragment
<1>2. f.type \in FragmentType /\ g.type \in FragmentType
  BY DEF Fragment
<1>3. TypeRank(f.type) \in 0..2 /\ TypeRank(g.type) \in 0..2
  BY <1>2, TypeRankInjective
<1>4. f.call = g.call /\ TypeRank(f.type) = TypeRank(g.type)
  BY <1>1, <1>3, SortKey(f) = SortKey(g) DEF SortKey
<1>5. f.type = g.type
  BY <1>2, <1>4, TypeRankInjective
<1> QED
  BY <1>4, <1>5 DEF Fragment

(* Before is a strict total order on fragments.                             *)
LEMMA BeforeOrder ==
  /\ \A f \in Fragment : ~ Before(f, f)
  /\ \A f, g, h \in Fragment : Before(f, g) /\ Before(g, h) => Before(f, h)
  /\ \A f, g \in Fragment : Before(f, g) \/ Before(g, f) \/ f = g
<1>1. \A f \in Fragment : SortKey(f) \in Nat
  BY SortKeyType
<1>2. \A f, g \in Fragment : SortKey(f) = SortKey(g) => f = g
  BY SortKeyInjective
<1> QED
  BY <1>1, <1>2 DEF Before

(* More fragments in the list, no fewer newer calls.                        *)
LEMMA NewerCallsMonotone ==
  ASSUME NEW S, IsFiniteSet(S), NEW T \in SUBSET S, NEW f
  PROVE  /\ NewerCalls(S, f) \subseteq S
         /\ IsFiniteSet(NewerCalls(S, f))
         /\ Cardinality(NewerCalls(S, f)) \in Nat
         /\ Cardinality(NewerCalls(T, f)) \in Nat
         /\ Cardinality(NewerCalls(T, f)) <= Cardinality(NewerCalls(S, f))
<1>1. NewerCalls(S, f) \in SUBSET S /\ NewerCalls(T, f) \in SUBSET NewerCalls(S, f)
  BY DEF NewerCalls
<1>2. IsFiniteSet(NewerCalls(S, f))
  BY <1>1, FS_Subset
<1>3. /\ IsFiniteSet(NewerCalls(T, f))
      /\ Cardinality(NewerCalls(T, f)) <= Cardinality(NewerCalls(S, f))
  BY <1>1, <1>2, FS_Subset
<1> QED
  BY <1>1, <1>2, <1>3, FS_CardinalityType

(* A record that is_call_trim_needed selects has MaxCallListLength newer    *)
(* calls in the list that was read, whatever types the records have.        *)
THEOREM SelectedHaveNewerCalls ==
  ASSUME NEW S \in SUBSET Fragment, IsFiniteSet(S), NEW f \in RecordsToDelete(S)
  PROVE  Cardinality(NewerCalls(S, f)) >= MaxCallListLength
<1> DEFINE all == {g \in S : IsCall(g)}
           newer == NewerCalls(S, f)
           older == {g \in S : Before(g, f)}
<1>1. f \in S /\ f \in Fragment /\ Cardinality(older) < Cardinality(all) - MaxCallListLength
  BY DEF RecordsToDelete, IndexOf, NumToDelete, CallCount
<1>2. /\ IsFiniteSet(all) /\ IsFiniteSet(newer) /\ IsFiniteSet(older)
      /\ IsFiniteSet(older \cup {f})
  <2>1. all \in SUBSET S /\ newer \in SUBSET S /\ older \in SUBSET S
    BY DEF NewerCalls
  <2>2. IsFiniteSet(all) /\ IsFiniteSet(newer) /\ IsFiniteSet(older)
    BY <2>1, FS_Subset
  <2> QED
    BY <2>2, FS_AddElement
<1>3. /\ Cardinality(all) \in Nat /\ Cardinality(newer) \in Nat
      /\ Cardinality(older) \in Nat
  BY <1>2, FS_CardinalityType
<1>4. Cardinality(older \cup {f}) = Cardinality(older) + 1
  <2>1. f \notin older
    BY <1>1, BeforeOrder
  <2> QED
    BY <1>2, <2>1, FS_AddElement
<1>5. all \subseteq newer \cup (older \cup {f})
  <2> SUFFICES ASSUME NEW g \in S, IsCall(g), g # f, ~ Before(g, f)
               PROVE  g \in newer
    OBVIOUS
  <2>1. Before(f, g)
    BY <1>1, BeforeOrder
  <2> QED
    BY <2>1 DEF NewerCalls
<1>6. Cardinality(all) <= Cardinality(newer) + Cardinality(older \cup {f})
  <2>1. /\ IsFiniteSet(newer \cup (older \cup {f}))
        /\ Cardinality(newer \cup (older \cup {f})) =
             Cardinality(newer) + Cardinality(older \cup {f})
               - Cardinality(newer \cap (older \cup {f}))
    BY <1>2, FS_Union
  <2>2. Cardinality(newer \cap (older \cup {f})) \in Nat
    BY <1>2, FS_Intersection, FS_CardinalityType
  <2>3. Cardinality(all) <= Cardinality(newer \cup (older \cup {f}))
    BY <1>5, <2>1, FS_Subset
  <2> HIDE DEF all, newer, older
  <2> QED
    BY <1>3, <1>4, <2>1, <2>2, <2>3
<1> HIDE DEF all, older
<1> QED
  BY <1>1, <1>3, <1>4, <1>6, MaxLengthAssumption

(* Deleting records that each have MaxCallListLength newer calls leaves     *)
(* MaxCallListLength newer calls to every fragment that had them: the       *)
(* newest of the deleted calls has that many, and they all survive.         *)
THEOREM DeletionKeepsNewerCalls ==
  ASSUME NEW S \in SUBSET Fragment, IsFiniteSet(S), NEW D,
         \A d \in D : Cardinality(NewerCalls(S, d)) >= MaxCallListLength,
         NEW f \in Fragment, Cardinality(NewerCalls(S, f)) >= MaxCallListLength
  PROVE  Cardinality(NewerCalls(S \ D, f)) >= MaxCallListLength
<1> DEFINE G == D \cap NewerCalls(S, f)
           T == {NewerCalls(S, d) : d \in G}
<1>1. CASE G = {}
  <2>1. NewerCalls(S \ D, f) = NewerCalls(S, f)
    BY <1>1 DEF NewerCalls
  <2> QED
    BY <2>1
<1>2. CASE G # {}
  <2>1. T \subseteq FiniteSubsetsOf(S) /\ T # {}
    <3>1. FiniteSubsetsOf(S) = SUBSET S
      BY FS_FiniteSubsetsOfFinite
    <3>2. \A d \in G : NewerCalls(S, d) \in SUBSET S
      BY DEF NewerCalls
    <3>3. T # {}
      BY <1>2
    <3> HIDE DEF G
    <3> QED
      BY <3>1, <3>2, <3>3
  <2>2. PICK X \in T : \A Y \in T : <<Y, X>> \notin StrictSubsetOrdering(S)
    <3> HIDE DEF T
    <3> QED
      BY <2>1, FS_StrictSubsetOrderingWellFounded, WFMin
  <2>3. PICK d \in G : X = NewerCalls(S, d)
    BY <2>2
  <2>4. d \in S /\ d \in Fragment /\ IsCall(d) /\ Before(f, d)
    BY <2>3 DEF NewerCalls
  <2>5. \A g \in G : ~ Before(d, g)
    <3> SUFFICES ASSUME NEW g \in G, Before(d, g)
                 PROVE  FALSE
      OBVIOUS
    <3>1. g \in S /\ g \in Fragment /\ IsCall(g)
      BY DEF NewerCalls
    <3>2. NewerCalls(S, g) \subseteq NewerCalls(S, d)
      BY <2>4, <3>1, BeforeOrder DEF NewerCalls
    <3>3. g \in NewerCalls(S, d) /\ g \notin NewerCalls(S, g)
      BY <3>1, BeforeOrder DEF NewerCalls
    <3>4. <<NewerCalls(S, g), X>> \in StrictSubsetOrdering(S)
      <4>1. NewerCalls(S, g) \in SUBSET S /\ NewerCalls(S, d) \in SUBSET S
        BY DEF NewerCalls
      <4> QED
        BY <2>3, <3>2, <3>3, <4>1 DEF StrictSubsetOrdering
    <3>5. NewerCalls(S, g) \in T
      OBVIOUS
    <3> QED
      BY <2>2, <3>4, <3>5
  <2>6. NewerCalls(S, d) \in SUBSET NewerCalls(S \ D, f)
    <3> SUFFICES ASSUME NEW g \in NewerCalls(S, d)
                 PROVE  g \in NewerCalls(S \ D, f)
      OBVIOUS
    <3>1. g \in S /\ g \in Fragment /\ IsCall(g) /\ Before(d, g)
      BY DEF NewerCalls
    <3>2. Before(f, g)
      BY <2>4, <3>1, BeforeOrder
    <3>3. g \notin D
      BY <2>5, <3>1, <3>2 DEF NewerCalls
    <3> QED
      BY <3>1, <3>2, <3>3 DEF NewerCalls
  <2>7. IsFiniteSet(NewerCalls(S \ D, f)) /\ IsFiniteSet(NewerCalls(S, d))
    <3>1. NewerCalls(S \ D, f) \in SUBSET S /\ NewerCalls(S, d) \in SUBSET S
      BY DEF NewerCalls
    <3> QED
      BY <3>1, FS_Subset
  <2>8. /\ Cardinality(NewerCalls(S, d)) <= Cardinality(NewerCalls(S \ D, f))
        /\ Cardinality(NewerCalls(S, d)) \in Nat
        /\ Cardinality(NewerCalls(S \ D, f)) \in Nat
    BY <2>6, <2>7, FS_Subset, FS_CardinalityType
  <2>9. Cardinality(NewerCalls(S, d)) >= MaxCallListLength
    BY <2>3
  <2> QED
    BY <2>8, <2>9, MaxLengthAssumption
<1> QED
  BY <1>1, <1>2
-----------------------------------------------------------------------------
(* How many records a trim takes.                                           *)

Older(S, f) == {g \in S : Before(g, f)}

(* The index of a record is less than the length of the vector.             *)
LEMMA IndexInVector ==
  ASSUME NEW S \in SUBSET Fragment, IsFiniteSet(S), NEW f \in S
  PROVE  /\ Cardinality(S) \in Nat /\ IndexOf(S, f) \in 0..(Cardinality(S) - 1)
         /\ IsFiniteSet(Older(S, f))
<1>1. Older(S, f) \in SUBSET (S \ {f})
  BY BeforeOrder DEF Older
<1>2. /\ IsFiniteSet(S \ {f}) /\ Cardinality(S \ {f}) = Cardinality(S) - 1
      /\ Cardinality(S) \in Nat
  BY FS_RemoveElement, FS_CardinalityType
<1>3. /\ IsFiniteSet(Older(S, f)) /\ Cardinality(Older(S, f)) \in Nat
      /\ Cardinality(Older(S, f)) <= Cardinality(S) - 1
  BY <1>1, <1>2, FS_Subset, FS_CardinalityType
<1>4. IndexOf(S, f) = Cardinality(Older(S, f))
  BY DEF IndexOf, Older
<1> HIDE DEF Older
<1> QED
  BY <1>2, <1>3, <1>4

(* An earlier record has a smaller index.                                   *)
LEMMA IndexGrows ==
  ASSUME NEW S \in SUBSET Fragment, IsFiniteSet(S), NEW f \in S, NEW g \in S, Before(f, g)
  PROVE  IndexOf(S, f) < IndexOf(S, g)
<1>1. f \notin Older(S, f) /\ Older(S, f) \cup {f} \in SUBSET Older(S, g)
  BY BeforeOrder DEF Older
<1>2. IsFiniteSet(Older(S, f)) /\ IsFiniteSet(Older(S, g))
  BY IndexInVector
<1>3. /\ Cardinality(Older(S, f) \cup {f}) = Cardinality(Older(S, f)) + 1
      /\ Cardinality(Older(S, f) \cup {f}) <= Cardinality(Older(S, g))
      /\ Cardinality(Older(S, f)) \in Nat /\ Cardinality(Older(S, g)) \in Nat
  BY <1>1, <1>2, FS_AddElement, FS_Subset, FS_CardinalityType
<1>4. IndexOf(S, f) = Cardinality(Older(S, f)) /\ IndexOf(S, g) = Cardinality(Older(S, g))
  BY DEF IndexOf, Older
<1> QED
  BY <1>3, <1>4

(* Each index of the vector is that of exactly one record.                  *)
LEMMA IndexBijection ==
  ASSUME NEW S \in SUBSET Fragment, IsFiniteSet(S)
  PROVE  /\ \A f, g \in S : IndexOf(S, f) = IndexOf(S, g) => f = g
         /\ \A k \in 0..(Cardinality(S) - 1) : \E f \in S : IndexOf(S, f) = k
<1> DEFINE T == 0..(Cardinality(S) - 1)
           index == [f \in S |-> IndexOf(S, f)]
<1>1. Cardinality(S) \in Nat
  BY FS_CardinalityType
<1>2. \A f, g \in S : IndexOf(S, f) = IndexOf(S, g) => f = g
  <2> SUFFICES ASSUME NEW f \in S, NEW g \in S, IndexOf(S, f) = IndexOf(S, g), f # g
               PROVE  FALSE
    OBVIOUS
  <2>1. Before(f, g) \/ Before(g, f)
    BY BeforeOrder
  <2>2. IndexOf(S, f) \in Int
    BY IndexInVector
  <2> QED
    BY <2>1, <2>2, IndexGrows
<1>3. index \in [S -> T]
  BY IndexInVector
<1>4. index \in Injection(S, T)
  BY <1>2, <1>3 DEF Injection, IsInjective
<1>5. IsFiniteSet(T) /\ Cardinality(T) = Cardinality(S)
  BY <1>1, FS_Interval
<1>6. index \in Surjection(S, T)
  <2> HIDE DEF index, T
  <2> QED
    BY <1>4, <1>5, FS_Injection
<1>7. \A k \in T : \E f \in S : index[f] = k
  BY <1>6 DEF Surjection
<1> QED
  BY <1>2, <1>7

(* The loop that pushes the first num_to_delete records of the vector finds *)
(* that many: a list over its limit loses just the surplus of its calls, in *)
(* records of any type.                                                     *)
THEOREM SelectsTheSurplus ==
  ASSUME NEW S \in SUBSET Fragment, IsFiniteSet(S), CallCount(S) >= MaxCallListLength
  PROVE  /\ NumToDelete(S) \in 0..Cardinality(S)
         /\ Cardinality(RecordsToDelete(S)) = NumToDelete(S)
<1> DEFINE n == NumToDelete(S)
           D == RecordsToDelete(S)
           T == 0..(n - 1)
           index == [f \in D |-> IndexOf(S, f)]
<1>1. /\ CallCount(S) \in Nat /\ CallCount(S) <= Cardinality(S) /\ Cardinality(S) \in Nat
  <2>1. {f \in S : IsCall(f)} \in SUBSET S
    OBVIOUS
  <2> QED
    BY <2>1, FS_Subset, FS_CardinalityType DEF CallCount
<1>2. n \in Nat /\ n <= Cardinality(S)
  BY <1>1, MaxLengthAssumption DEF NumToDelete
<1>3. D \subseteq S /\ \A f \in S : f \in D <=> IndexOf(S, f) < n
  BY DEF RecordsToDelete
<1>4. \A f \in S : IndexOf(S, f) \in Nat
  BY IndexInVector
<1> HIDE DEF n, D
<1>5. index \in [D -> T]
  BY <1>2, <1>3, <1>4
<1>6. index \in Injection(D, T)
  BY <1>3, <1>5, IndexBijection DEF Injection, IsInjective
<1>7. index \in Surjection(D, T)
  <2>1. ASSUME NEW k \in T
        PROVE  \E f \in D : index[f] = k
    <3>1. k \in 0..(Cardinality(S) - 1) /\ k < n
      BY <1>1, <1>2
    <3>2. PICK f \in S : IndexOf(S, f) = k
      BY <3>1, IndexBijection
    <3> QED
      BY <1>3, <3>1, <3>2
  <2> QED
    BY <1>5, <2>1 DEF Surjection
<1>8. IsFiniteSet(T) /\ Cardinality(T) = n
  BY <1>2, FS_Interval
<1>9. Cardinality(D) = n
  <2> HIDE DEF index, T
  <2> QED
    BY <1>6, <1>7, <1>8, FS_Injection
<1> QED
  BY <1>2, <1>9 DEF n, D

(* v holds the list S in the order in which the store returns its records.  *)
SortedVector(v, S) ==
  /\ v \in Seq(S)
  /\ \A f \in S : \E k \in 1..Len(v) : v[k] = f
  /\ \A j, k \in 1..Len(v) : j < k => Before(v[j], v[k])

(* However the vector was sorted, its k-th record has k - 1 records before  *)
(* it.                                                                      *)
LEMMA IndexInSortedVector ==
  ASSUME NEW S \in SUBSET Fragment, IsFiniteSet(S), NEW v, SortedVector(v, S),
         NEW k \in 1..Len(v)
  PROVE  IndexOf(S, v[k]) = k - 1
<1> DEFINE T == 1..(k - 1)
           record == [j \in T |-> v[j]]
           earlier == {v[j] : j \in T}
<1>1. /\ Len(v) \in Nat /\ k \in Nat
      /\ \A j \in 1..Len(v) : v[j] \in S /\ v[j] \in Fragment
      /\ T \subseteq 1..Len(v)
  BY DEF SortedVector
<1>2. \A i, j \in 1..Len(v) : i < j => Before(v[i], v[j])
  BY DEF SortedVector
<1>3. \A i, j \in 1..Len(v) : i = j \/ i < j \/ j < i
  BY <1>1
<1>4. \A i, j \in 1..Len(v) : ~ (Before(v[i], v[j]) /\ Before(v[j], v[i]))
  BY <1>1, BeforeOrder
<1>5. \A i, j \in 1..Len(v) : Before(v[i], v[j]) => i < j
  BY <1>1, <1>2, <1>3, <1>4, BeforeOrder
<1>6. \A i, j \in 1..Len(v) : v[i] = v[j] => i = j
  BY <1>1, <1>2, <1>3, BeforeOrder
<1>7. Older(S, v[k]) = earlier
  <2>1. ASSUME NEW f \in S, Before(f, v[k])
        PROVE  f \in earlier
    <3>1. PICK j \in 1..Len(v) : v[j] = f
      BY DEF SortedVector
    <3>2. j < k
      BY <1>5, <2>1, <3>1
    <3> QED
      BY <1>1, <3>1, <3>2
  <2>2. \A j \in T : v[j] \in S /\ Before(v[j], v[k])
    BY <1>1, <1>2
  <2> QED
    BY <2>1, <2>2 DEF Older
<1>8. IsFiniteSet(T) /\ Cardinality(T) = k - 1
  <2>1. /\ k - 1 \in Int /\ 1 \in Int /\ k - 1 >= 0
        /\ IF 1 > k - 1 THEN k - 1 = 0 ELSE (k - 1) - 1 + 1 = k - 1
    BY <1>1
  <2>2. /\ IsFiniteSet(1..(k - 1))
        /\ Cardinality(1..(k - 1)) = IF 1 > k - 1 THEN 0 ELSE (k - 1) - 1 + 1
    BY <2>1, FS_Interval
  <2> QED
    BY <2>1, <2>2
<1>9. record \in [T -> earlier]
  OBVIOUS
<1>10. \A i, j \in T : record[i] = record[j] => i = j
  BY <1>1, <1>6
<1>11. \A f \in earlier : \E j \in T : record[j] = f
  OBVIOUS
<1> HIDE DEF T, record, earlier
<1>12. record \in Bijection(T, earlier)
  BY <1>9, <1>10, <1>11 DEF Bijection, Injection, Surjection, IsInjective
<1>13. Cardinality(earlier) = k - 1
  <2>1. Cardinality(T) = Cardinality(earlier)
    BY <1>8, <1>12, FS_Bijection DEF ExistsBijection
  <2> QED
    BY <1>8, <2>1
<1> QED
  BY <1>7, <1>13 DEF IndexOf, Older

(* Of any vector that holds the list in the store's order, a trim takes the *)
(* first num_to_delete records, and so many there are: the loop over        *)
(* records[0] to records[num_to_delete - 1] stays in the vector.            *)
THEOREM TrimTakesPrefixOfVector ==
  ASSUME NEW S \in SUBSET Fragment, IsFiniteSet(S), CallCount(S) >= MaxCallListLength,
         NEW v, SortedVector(v, S)
  PROVE  /\ NumToDelete(S) \in 0..Len(v)
         /\ RecordsToDelete(S) = {v[k] : k \in 1..NumToDelete(S)}
<1>1. Len(v) \in Nat /\ \A k \in 1..Len(v) : v[k] \in S /\ IndexOf(S, v[k]) = k - 1
  <2>1. Len(v) \in Nat /\ \A k \in 1..Len(v) : v[k] \in S
    BY DEF SortedVector
  <2>2. \A k \in 1..Len(v) : IndexOf(S, v[k]) = k - 1
    BY IndexInSortedVector
  <2> QED
    BY <2>1, <2>2
<1>2. Cardinality(S) \in Nat /\ NumToDelete(S) \in 0..Cardinality(S)
  BY SelectsTheSurplus, FS_CardinalityType
<1>3. Cardinality(S) <= Len(v)
  <2>1. CASE Cardinality(S) = 0
    BY <1>1, <2>1
  <2>2. CASE Cardinality(S) # 0
    <3>1. Cardinality(S) - 1 \in 0..(Cardinality(S) - 1)
      BY <1>2, <2>2
    <3>2. PICK f \in S : IndexOf(S, f) = Cardinality(S) - 1
      BY <3>1, IndexBijection
    <3>3. PICK k \in 1..Len(v) : v[k] = f
      BY DEF SortedVector
    <3>4. k - 1 = Cardinality(S) - 1
      BY <1>1, <3>2, <3>3
    <3> QED
      BY <1>1, <1>2, <3>4
  <2> QED
    BY <2>1, <2>2
<1>4. NumToDelete(S) \in 0..Len(v)
  BY <1>1, <1>2, <1>3
<1>5. \A k \in 1..Len(v) : v[k] \in RecordsToDelete(S) <=> k \in 1..NumToDelete(S)
  <2>1. \A k \in 1..Len(v) : v[k] \in RecordsToDelete(S) <=> k - 1 < NumToDelete(S)
    BY <1>1 DEF RecordsToDelete
  <2>2. \A k \in 1..Len(v) : k - 1 < NumToDelete(S) <=> k \in 1..NumToDelete(S)
    BY <1>1, <1>4
  <2> QED
    BY <2>1, <2>2
<1>6. \A f \in RecordsToDelete(S) : \E k \in 1..Len(v) : v[k] = f
  BY DEF RecordsToDelete, SortedVector
<1>7. 1..NumToDelete(S) \subseteq 1..Len(v)
  BY <1>1, <1>4
<1>8. RecordsToDelete(S) = {v[k] : k \in 1..NumToDelete(S)}
  BY <1>5, <1>6, <1>7
<1> QED
  BY <1>4, <1>8

(* What is left after a trim: an END that is taken leaves a call standing   *)
(* above the limit.                                                         *)
THEOREM CallsLeftByTrim ==
  ASSUME NEW S \in SUBSET Fragment, IsFiniteSet(S), CallCount(S) >= MaxCallListLength
  PROVE  LET doomed == RecordsToDelete(S) IN
         CallCount(S \ doomed)
           = MaxCallListLength + Cardinality({f \in doomed : f.type = "END"})
<1> DEFINE D == RecordsToDelete(S)
           calls == {f \in S : IsCall(f)}
           ends == {f \in D : f.type = "END"}
<1>1. D \in SUBSET S /\ calls \in SUBSET S
  BY DEF RecordsToDelete
<1>2. IsFiniteSet(D) /\ IsFiniteSet(calls)
  BY <1>1, FS_Subset
<1>3. ends = D \ calls
  <2>1. \A f \in S : f.type = "END" <=> ~ IsCall(f)
    BY DEF Fragment, FragmentType, IsCall
  <2> QED
    BY <1>1, <2>1
<1>4. {f \in S \ D : IsCall(f)} = calls \ D
  OBVIOUS
<1>5. Cardinality(D) = Cardinality(calls) - MaxCallListLength
  BY SelectsTheSurplus DEF CallCount, NumToDelete
<1> HIDE DEF D, calls, ends
<1>6. /\ Cardinality(calls \ D) = Cardinality(calls) - Cardinality(calls \cap D)
      /\ Cardinality(D \ calls) = Cardinality(D) - Cardinality(D \cap calls)
      /\ calls \cap D = D \cap calls
  BY <1>2, FS_Difference
<1>7. /\ Cardinality(calls) \in Nat /\ Cardinality(D) \in Nat
      /\ Cardinality(D \cap calls) \in Nat
  BY <1>2, FS_Intersection, FS_CardinalityType
<1>8. Cardinality(calls \ D) = MaxCallListLength + Cardinality(ends)
  <2> DEFINE a == Cardinality(calls)
             d == Cardinality(D)
             common == Cardinality(D \cap calls)
  <2>1. /\ a \in Nat /\ d \in Nat /\ common \in Nat /\ d = a - MaxCallListLength
        /\ Cardinality(calls \ D) = a - common /\ Cardinality(ends) = d - common
    BY <1>3, <1>5, <1>6, <1>7
  <2> HIDE DEF a, d, common
  <2> QED
    BY <2>1, MaxLengthAssumption
<1> QED
  BY <1>4, <1>8 DEF CallCount, D, ends

(* line 153: "delete older calls to bring the stored number below the       *)
(* threshold again".  A trim does so just if the ENDs it takes are no more  *)
(* than a tenth of the limit.                                               *)
THEOREM TrimSufficesIfFewEnds ==
  ASSUME NEW S \in SUBSET Fragment, IsFiniteSet(S), TrimNeeded(S)
  PROVE  LET doomed == RecordsToDelete(S) IN
         ~ TrimNeeded(S \ doomed)
           <=> 10 * Cardinality({f \in doomed : f.type = "END"}) <= MaxCallListLength
<1> DEFINE D == RecordsToDelete(S)
           ends == {f \in D : f.type = "END"}
<1>1. CallCount(S) >= MaxCallListLength
  <2>1. CallCount(S) \in Nat
    BY FS_Subset, FS_CardinalityType DEF CallCount
  <2> QED
    BY <2>1, MaxLengthAssumption DEF TrimNeeded
<1>2. Cardinality(ends) \in Nat
  BY FS_Subset, FS_CardinalityType DEF RecordsToDelete
<1>3. CallCount(S \ D) = MaxCallListLength + Cardinality(ends)
  BY <1>1, CallsLeftByTrim
<1> HIDE DEF D, ends
<1>4. ~ TrimNeeded(S \ D) <=> 10 * Cardinality(ends) <= MaxCallListLength
  BY <1>2, <1>3, MaxLengthAssumption DEF TrimNeeded
<1> QED
  BY <1>4 DEF D, ends
=============================================================================
