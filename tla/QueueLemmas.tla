------------------------------ MODULE QueueLemmas ------------------------------
(***************************************************************************)
(* Facts about queues, that is, sequences used with Append, Head and Tail, *)
(* and about what is selected from a sequence, which the proofs about the  *)
(* messages of BlueZ, callbacks, addresses and values share.               *)
(***************************************************************************)
EXTENDS Selection, FiniteSetTheorems, TLAPS

LEMMA ElementsOfSeq ==
    ASSUME NEW S, NEW s \in Seq(S)
    PROVE  \A i \in DOMAIN s : s[i] \in S
OBVIOUS

LEMMA DomainOfSeq ==
    ASSUME NEW S, NEW s \in Seq(S)
    PROVE  Len(s) \in Nat /\ DOMAIN s = 1..Len(s)
OBVIOUS

LEMMA SeqOfMore ==
    ASSUME NEW S, NEW s \in Seq(S), NEW R, S \subseteq R
    PROVE  s \in Seq(R)
<1>1. Len(s) \in Nat /\ DOMAIN s = 1..Len(s) /\ \A i \in 1..Len(s) : s[i] \in R
  OBVIOUS
<1>2. s = [i \in 1..Len(s) |-> s[i]]
  BY <1>1
<1> QED BY <1>1, <1>2

LEMMA PlacesAreFinite ==
    ASSUME NEW S, NEW s \in Seq(S), NEW M
    PROVE  /\ IsFiniteSet(Places(s, M)) /\ Count(s, M) \in Nat
           /\ Count(s, M) = 0 <=> \A i \in DOMAIN s : s[i] \notin M
<1>1. Len(s) \in Nat /\ DOMAIN s = 1..Len(s) /\ IsFiniteSet(1..Len(s))
  BY FS_Interval
<1>2. IsFiniteSet(Places(s, M))
  BY <1>1, FS_Subset DEF Places
<1>3. Cardinality(Places(s, M)) = 0 <=> Places(s, M) = {}
  BY <1>2, FS_EmptySet
<1> QED BY <1>2, <1>3, FS_CardinalityType DEF Count, Places

\* What Append leaves and adds.
LEMMA AppendPlaces ==
    ASSUME NEW S, NEW s \in Seq(S), NEW m \in S
    PROVE  /\ Append(s, m) \in Seq(S)
           /\ DOMAIN Append(s, m) = DOMAIN s \cup {Len(s) + 1}
           /\ Len(s) + 1 \notin DOMAIN s
           /\ \A i \in DOMAIN s : Append(s, m)[i] = s[i] /\ i < Len(s) + 1
           /\ Append(s, m)[Len(s) + 1] = m
<1>1. Len(s) \in Nat /\ DOMAIN s = 1..Len(s)
  OBVIOUS
<1>2. Append(s, m) \in Seq(S) /\ Len(Append(s, m)) = Len(s) + 1
  OBVIOUS
<1>3. DOMAIN Append(s, m) = 1..(Len(s) + 1)
  BY <1>2
<1> QED BY <1>1, <1>2, <1>3

\* What Tail leaves: everything but the head, one place further to the front.
LEMMA TailPlaces ==
    ASSUME NEW S, NEW s \in Seq(S), s # <<>>
    PROVE  /\ Tail(s) \in Seq(S) /\ Head(s) \in S
           /\ 1 \in DOMAIN s /\ s[1] = Head(s)
           /\ DOMAIN s \subseteq Nat \ {0} /\ DOMAIN Tail(s) \subseteq Nat \ {0}
           /\ \A i \in DOMAIN Tail(s) : i + 1 \in DOMAIN s /\ Tail(s)[i] = s[i + 1]
           /\ \A i \in DOMAIN s : i # 1 => i - 1 \in DOMAIN Tail(s) /\ Tail(s)[i - 1] = s[i]
<1>1. Len(s) \in Nat /\ DOMAIN s = 1..Len(s) /\ Len(s) >= 1
  OBVIOUS
<1>2. Tail(s) \in Seq(S) /\ Len(Tail(s)) = Len(s) - 1 /\ DOMAIN Tail(s) = 1..(Len(s) - 1)
  BY <1>1
<1>3. \A i \in 1..(Len(s) - 1) : Tail(s)[i] = s[i + 1]
  BY <1>1
<1> QED BY <1>1, <1>2, <1>3

LEMMA CountAppend ==
    ASSUME NEW S, NEW s \in Seq(S), NEW m \in S, NEW M
    PROVE  Count(Append(s, m), M) = IF m \in M THEN Count(s, M) + 1 ELSE Count(s, M)
<1>1. IsFiniteSet(Places(s, M)) /\ Len(s) + 1 \notin Places(s, M)
  BY PlacesAreFinite, AppendPlaces DEF Places
<1>2. CASE m \in M
  <2>1. Places(Append(s, m), M) = Places(s, M) \cup {Len(s) + 1}
    BY <1>2, AppendPlaces DEF Places
  <2> QED BY <1>1, <1>2, <2>1, FS_AddElement DEF Count
<1>3. CASE m \notin M
  <2>1. Places(Append(s, m), M) = Places(s, M)
    BY <1>3, AppendPlaces DEF Places
  <2> QED BY <1>3, <2>1 DEF Count
<1> QED BY <1>2, <1>3

LEMMA CountTail ==
    ASSUME NEW S, NEW s \in Seq(S), s # <<>>, NEW M
    PROVE  Count(s, M) = IF Head(s) \in M THEN Count(Tail(s), M) + 1 ELSE Count(Tail(s), M)
<1> DEFINE rest == Places(s, M) \ {1}
           f == [i \in Places(Tail(s), M) |-> i + 1]
<1>1. Tail(s) \in Seq(S)
  BY TailPlaces
<1>2. IsFiniteSet(Places(Tail(s), M)) /\ IsFiniteSet(Places(s, M))
  BY <1>1, PlacesAreFinite
<1>3. f \in [Places(Tail(s), M) -> rest]
  BY TailPlaces DEF Places
<1>4. \A i, j \in Places(Tail(s), M) : f[i] = f[j] => i = j
  BY TailPlaces DEF Places
<1>5. \A j \in rest : \E i \in Places(Tail(s), M) : f[i] = j
  <2> SUFFICES ASSUME NEW j \in rest PROVE j - 1 \in Places(Tail(s), M) /\ f[j - 1] = j
    OBVIOUS
  <2>1. j \in DOMAIN s /\ j # 1 /\ j \in Nat /\ s[j] \in M
    BY TailPlaces DEF Places
  <2> QED BY <2>1, TailPlaces DEF Places
<1>6. ExistsBijection(Places(Tail(s), M), rest)
  <2>1. f \in Bijection(Places(Tail(s), M), rest)
    BY <1>3, <1>4, <1>5 DEF Bijection, Injection, Surjection, IsInjective
  <2> QED BY <2>1 DEF ExistsBijection
<1>7. Cardinality(rest) = Count(Tail(s), M)
  BY <1>2, <1>6, FS_Bijection DEF Count
<1>8. 1 \in Places(s, M) <=> Head(s) \in M
  BY TailPlaces DEF Places
<1>9. Cardinality(rest) = IF 1 \in Places(s, M) THEN Count(s, M) - 1 ELSE Count(s, M)
  BY <1>2, FS_RemoveElement DEF Count
<1> HIDE DEF rest
<1>10. Count(s, M) \in Nat /\ Count(Tail(s), M) \in Nat
  BY <1>1, PlacesAreFinite
<1> QED BY <1>7, <1>8, <1>9, <1>10

\* A message put in front of a queue.
LEMMA ConsPlaces ==
    ASSUME NEW S, NEW s \in Seq(S), NEW m \in S
    PROVE  /\ <<m>> \o s \in Seq(S) /\ <<m>> \o s # <<>>
           /\ Head(<<m>> \o s) = m /\ Tail(<<m>> \o s) = s
           /\ Len(<<m>> \o s) = Len(s) + 1
           /\ (<<m>> \o s)[1] = m /\ \A i \in DOMAIN s : (<<m>> \o s)[i + 1] = s[i]
<1>1. <<m>> \in Seq(S) /\ Len(<<m>>) = 1 /\ Len(s) \in Nat /\ DOMAIN s = 1..Len(s)
  OBVIOUS
<1>2. <<m>> \o s \in Seq(S) /\ Len(<<m>> \o s) = Len(s) + 1
  BY <1>1
<1>3. (<<m>> \o s)[1] = m
  BY <1>1
<1>4. \A i \in DOMAIN s : (<<m>> \o s)[i + 1] = s[i]
  BY <1>1
<1>5. Head(<<m>> \o s) = m
  BY <1>2, <1>3
<1>6. <<m>> \o s # <<>>
  BY <1>1, <1>2
<1>7. Tail(<<m>> \o s) = s
  <2>1. Tail(<<m>> \o s) \in Seq(S) /\ Len(Tail(<<m>> \o s)) = Len(s)
    BY <1>1, <1>2, <1>6
  <2>2. \A i \in 1..Len(s) : Tail(<<m>> \o s)[i] = s[i]
    BY <1>1, <1>2, <1>4, <1>6
  <2> QED BY <1>1, <2>1, <2>2
<1> QED BY <1>2, <1>3, <1>4, <1>5, <1>6, <1>7

\* Every number up to the count is the rank of a place: ranks differ, so they exhaust it.
LEMMA RanksAreAll ==
    ASSUME NEW S, NEW s \in Seq(S), NEW M, NEW k \in 1..Count(s, M)
    PROVE  \E i \in Places(s, M) : RankOf(s, M, i) = k
<1> DEFINE P == Places(s, M)
           Below(i) == {j \in P : j <= i}
           r == [i \in P |-> Cardinality(Below(i))]
<1>1. IsFiniteSet(P) /\ P \subseteq Nat /\ Cardinality(P) = Count(s, M) /\ Cardinality(P) \in Nat
  <2>1. P \subseteq Nat
    BY DEF Places
  <2> QED BY <2>1, PlacesAreFinite DEF Count
<1> HIDE DEF P
<1>2. ASSUME NEW i \in P
      PROVE  /\ IsFiniteSet(Below(i)) /\ i \in Below(i)
             /\ Cardinality(Below(i)) \in 1..Cardinality(P) /\ Cardinality(Below(i)) \in Nat
  <2>1. Below(i) \in SUBSET P /\ i \in Below(i)
    BY <1>1
  <2>2. IsFiniteSet(Below(i)) /\ Cardinality(Below(i)) <= Cardinality(P) /\ Cardinality(Below(i)) \in Nat
    BY <1>1, <2>1, FS_Subset, FS_CardinalityType
  <2>3. Cardinality(Below(i)) # 0
    BY <2>1, <2>2, FS_EmptySet
  <2> QED BY <1>1, <2>1, <2>2, <2>3
<1>3. ASSUME NEW i \in P, NEW j \in P, i < j
      PROVE  Cardinality(Below(i)) < Cardinality(Below(j))
  <2>0. P \subseteq Nat /\ i \in Nat /\ j \in Nat
    BY <1>1
  <2>1. Below(i) \cup {j} \in SUBSET Below(j) /\ j \notin Below(i)
    <3>1. \A x \in P : x <= i => x <= j
      BY <1>3, <2>0
    <3>2. j <= j /\ ~(j <= i)
      BY <1>3, <2>0
    <3> QED BY <3>1, <3>2
  <2>2. Cardinality(Below(i) \cup {j}) = Cardinality(Below(i)) + 1
    BY <1>2, <2>1, FS_AddElement
  <2>3. Cardinality(Below(i) \cup {j}) <= Cardinality(Below(j))
    BY <1>2, <2>1, FS_Subset
  <2>4. Cardinality(Below(i)) \in Nat /\ Cardinality(Below(j)) \in Nat
    BY <1>2
  <2> QED BY <2>2, <2>3, <2>4
<1>4. \A i, j \in P : r[i] = r[j] => i = j
  <2> SUFFICES ASSUME NEW i \in P, NEW j \in P, Cardinality(Below(i)) = Cardinality(Below(j)) PROVE i = j
    OBVIOUS
  <2>1. Cardinality(Below(i)) \in Nat /\ i \in Nat /\ j \in Nat
    <3>1. P \subseteq Nat
      BY <1>1
    <3> QED BY <1>2, <3>1
  <2> QED BY <1>3, <2>1
<1>5. r \in [P -> 1..Cardinality(P)]
  BY <1>2
<1>6. r \in Injection(P, 1..Cardinality(P))
  BY <1>4, <1>5 DEF Injection, IsInjective
<1>7. IsFiniteSet(1..Cardinality(P)) /\ Cardinality(1..Cardinality(P)) = Cardinality(P)
  <2>1. Cardinality(1..Cardinality(P)) = IF 1 > Cardinality(P) THEN 0 ELSE Cardinality(P) - 1 + 1
    <3>1. 1 \in Int /\ Cardinality(P) \in Int
      BY <1>1
    <3> QED BY <3>1, FS_Interval
  <2>2. IsFiniteSet(1..Cardinality(P))
    BY <1>1, FS_Interval
  <2> QED BY <1>1, <2>1, <2>2
<1>8. r \in Surjection(P, 1..Cardinality(P))
  BY <1>6, <1>7, FS_Injection
<1>9. PICK i \in P : r[i] = k
  BY <1>1, <1>8 DEF Surjection
<1> QED BY <1>9 DEF RankOf, P

\* What is selected is there in the order of the ranks, and belongs to the set.
LEMMA SelectedPlace ==
    ASSUME NEW S, NEW s \in Seq(S), NEW M, NEW k \in 1..Count(s, M)
    PROVE  \E i \in Places(s, M) : RankOf(s, M, i) = k /\ Selected(s, M)[k] = s[i]
<1> DEFINE i == CHOOSE i \in Places(s, M) : RankOf(s, M, i) = k
<1>1. i \in Places(s, M) /\ RankOf(s, M, i) = k
  BY RanksAreAll
<1> QED BY <1>1 DEF Selected

LEMMA SelectedElements ==
    ASSUME NEW S, NEW s \in Seq(S), NEW M
    PROVE  Selected(s, M) \in Seq(S \cap M) /\ Len(Selected(s, M)) = Count(s, M)
<1>1. PICK n \in Nat : n = Count(s, M)
  BY PlacesAreFinite
<1>2. PICK f : f = Selected(s, M)
  OBVIOUS
<1>3. f = [k \in 1..n |-> f[k]]
  <2> DEFINE e(k) == s[CHOOSE i \in Places(s, M) : RankOf(s, M, i) = k]
  <2>1. f = [k \in 1..n |-> e(k)]
    BY <1>1, <1>2, Zenon DEF Selected
  <2> HIDE DEF e
  <2> QED BY <2>1
<1>4. ASSUME NEW k \in 1..n PROVE f[k] \in S \cap M
  BY <1>1, <1>2, SelectedPlace DEF Places
<1>5. f \in Seq(S \cap M) /\ Len(f) = n
  BY <1>3, <1>4
<1> QED BY <1>1, <1>2, <1>5

\* Where two sequences hold what is selected in the same places, the same is selected from them.
LEMMA SelectedAlike ==
    ASSUME NEW S, NEW s \in Seq(S), NEW M, NEW R, NEW r \in Seq(R), NEW N, Places(s, M) = Places(r, N)
    PROVE  /\ Count(s, M) = Count(r, N)
           /\ \A k \in 1..Count(s, M) :
                  \E i \in Places(s, M) : Selected(s, M)[k] = s[i] /\ Selected(r, N)[k] = r[i]
<1>1. Count(s, M) = Count(r, N)
  BY DEF Count
<1>2. \A i : RankOf(s, M, i) = RankOf(r, N, i)
  BY DEF RankOf
<1>3. SUFFICES ASSUME NEW k \in 1..Count(s, M)
               PROVE  \E i \in Places(s, M) : Selected(s, M)[k] = s[i] /\ Selected(r, N)[k] = r[i]
  BY <1>1
<1> DEFINE i == CHOOSE p \in Places(s, M) : RankOf(s, M, p) = k
           j == CHOOSE p \in Places(r, N) : RankOf(r, N, p) = k
<1>4. i = j
  BY <1>2
<1>5. i \in Places(s, M)
  BY RanksAreAll
<1>6. Selected(s, M)[k] = s[i]
  BY DEF Selected
<1>7. Selected(r, N)[k] = r[j]
  BY <1>1 DEF Selected
<1> QED BY <1>4, <1>5, <1>6, <1>7

LEMMA SelectedAll ==
    ASSUME NEW S, NEW s \in Seq(S), NEW M, \A i \in DOMAIN s : s[i] \in M
    PROVE  /\ Len(Selected(s, M)) = Len(s)
           /\ \A k \in DOMAIN s : Selected(s, M)[k] = s[k]
<1>1. Len(s) \in Nat /\ DOMAIN s = 1..Len(s)
  OBVIOUS
<1>2. Places(s, M) = 1..Len(s)
  BY <1>1 DEF Places
<1>3. Count(s, M) = Len(s)
  BY <1>1, <1>2, FS_Interval DEF Count
<1>4. ASSUME NEW i \in 1..Len(s) PROVE RankOf(s, M, i) = i
  <2>1. {j \in Places(s, M) : j <= i} = 1..i
    BY <1>1, <1>2
  <2>2. i \in Int /\ 1 \in Int /\ i >= 1
    BY <1>1
  <2>3. Cardinality(1..i) = i
    BY <2>2, FS_Interval
  <2> QED BY <2>1, <2>3, Zenon DEF RankOf
<1>5. ASSUME NEW k \in DOMAIN s PROVE Selected(s, M)[k] = s[k]
  <2>1. k \in 1..Count(s, M)
    BY <1>1, <1>3
  <2>2. PICK i \in Places(s, M) : RankOf(s, M, i) = k /\ Selected(s, M)[k] = s[i]
    BY <2>1, SelectedPlace
  <2>3. i = k
    BY <1>2, <1>4, <2>2
  <2> QED BY <2>2, <2>3
<1> QED BY <1>3, <1>5, SelectedElements
===============================================================================
