------------------------ MODULE ComponentSearchProofs ------------------------
(* What the component search keeps for any searches, queries and limit of the *)
(* cache: how far overlapping searches can overfill the cache, and that a row *)
(* of the view opens what it shows.                                           *)
EXTENDS ComponentSearch, FiniteSetTheorems, SequenceTheorems, TLAPS

-----------------------------------------------------------------------------
(* The cache.                                                                 *)

\* A sequence without repetitions.
Keys(s) == s \in Seq(Range(s)) /\ IsInjective(s)

\* What the searches of a set have still to delete.
Doomed(T) == UNION {Range(victims[t]) : t \in T}

Evicting == {t \in Search : searchStep[t] = "evicting"}

Lists ==
  /\ DOMAIN searchStep = Search /\ DOMAIN victims = Search
  /\ \A t \in Search : victims[t] \in Seq(Range(victims[t]))

\* Whoever of the searches that make room finish first, what they leave has
\* room for them.
Room ==
  \A T \in SUBSET Evicting :
    Cardinality(Range(cached) \ Doomed(T)) + Cardinality(T)
      < MaxEntries + Cardinality(Search)

CacheInv == Keys(cached) /\ Lists /\ Room

LEMMA KeysElements ==
  ASSUME NEW s, Keys(s)
  PROVE  /\ Len(s) \in Nat /\ DOMAIN s = 1..Len(s)
         /\ \A i \in 1..Len(s) : s[i] \in Range(s)
         /\ \A x \in Range(s) : \E i \in 1..Len(s) : s[i] = x
         /\ \A i, j \in 1..Len(s) : s[i] = s[j] => i = j
BY DEF Keys, Range, IsInjective

LEMMA Elements ==
  ASSUME NEW n \in Nat, NEW f, f = [i \in 1..n |-> f[i]]
  PROVE  f \in Seq(Range(f)) /\ Len(f) = n /\ DOMAIN f = 1..n
<1>1. f \in [1..n -> Range(f)]
  BY DEF Range
<1> QED BY <1>1

LEMMA Removing ==
  ASSUME Keys(cached), NEW e
  PROVE  Keys(Without(e)) /\ Range(Without(e)) = Range(cached) \ {e}
<1> DEFINE s == cached
           r == Without(e)
           n == Len(s) - 1
<1>0. s \in Seq(Range(s)) /\ Len(s) \in Nat /\ DOMAIN s = 1..Len(s)
  BY KeysElements DEF Keys
<1>a. \A x, y \in 1..Len(s) : s[x] = s[y] => x = y
  BY KeysElements
<1>b. \A x \in 1..Len(s) : s[x] \in Range(s)
  BY KeysElements
<1>1. CASE ~Contains(s, e)
  BY <1>0, <1>1, KeysElements DEF Without, Contains
<1>2. ASSUME NEW i \in 1..Len(s), s[i] = e
      PROVE  Keys(r) /\ Range(r) = Range(s) \ {e}
  <2>1. Place(e) = i
    BY <1>2, KeysElements DEF Place
  <2>2. r = SubSeq(s, 1, i - 1) \o SubSeq(s, i + 1, Len(s))
    BY <1>2, <2>1 DEF Without, RemoveAt, Contains
  <2> HIDE DEF r
  <2> DEFINE before == SubSeq(s, 1, i - 1)
             k      == i + 1
             after  == SubSeq(s, k, Len(s))
  <2>3. /\ before \in Seq(Range(s)) /\ Len(before) = i - 1
        /\ \A j \in 1..(i - 1) : before[j] = s[j]
    <3>1. \A j \in 1..(i - 1) : s[j] \in Range(s)
      BY <1>0, KeysElements
    <3> QED BY <1>0, <3>1, SubSeqProperties
  <2>4. /\ after \in Seq(Range(s)) /\ Len(after) = Len(s) - i
        /\ \A j \in 1..(Len(s) - i) : after[j] = s[j + i]
    <3>1. k \in Int /\ Len(s) \in Int /\ \A j \in k..Len(s) : s[j] \in Range(s)
      BY <1>0, KeysElements
    <3> HIDE DEF k
    <3>2. /\ after \in Seq(Range(s))
          /\ Len(after) = IF k <= Len(s) THEN Len(s) - k + 1 ELSE 0
          /\ \A j \in 1..(Len(s) - k + 1) : after[j] = s[k + j - 1]
      BY <3>1, SubSeqProperties
    <3> HIDE DEF after
    <3>3. Len(after) = Len(s) - i
      <4>1. i \in Nat /\ Len(s) \in Nat /\ i <= Len(s) /\ k = i + 1
        BY <1>0 DEF k
      <4>2. Len(after) = IF k <= Len(s) THEN Len(s) - k + 1 ELSE 0
        BY <3>2
      <4> QED BY <4>1, <4>2
    <3>4. ASSUME NEW j \in 1..(Len(s) - i) PROVE after[j] = s[j + i]
      <4>1. j \in Nat /\ i \in Nat /\ Len(s) \in Nat
        BY <1>0
      <4>2. Len(s) - k + 1 = Len(s) - i /\ k + j - 1 = j + i
        BY <4>1 DEF k
      <4> QED BY <3>2, <4>2
    <3> QED BY <3>2, <3>3, <3>4
  <2>5. r = before \o after
    BY <2>2
  <2> HIDE DEF before, k, after
  <2>6. /\ r \in Seq(Range(s)) /\ Len(r) = n
        /\ \A j \in 1..n : r[j] = IF j < i THEN s[j] ELSE s[j + 1]
    <3>1. /\ before \o after \in Seq(Range(s))
          /\ Len(before \o after) = Len(before) + Len(after)
          /\ \A j \in 1..(Len(before) + Len(after)) : (before \o after)[j] =
               IF j <= Len(before) THEN before[j] ELSE after[j - Len(before)]
      BY <2>3, <2>4, ConcatProperties
    <3>2. ASSUME NEW j \in 1..n
          PROVE  r[j] = IF j < i THEN s[j] ELSE s[j + 1]
      <4>1. j \in Nat /\ i \in Nat
            /\ r[j] = IF j <= i - 1 THEN before[j] ELSE after[j - (i - 1)]
        BY <1>0, <2>3, <2>4, <2>5, <3>1
      <4>2. CASE j < i
        BY <2>3, <4>1, <4>2
      <4>3. CASE ~(j < i)
        <5>1. j - (i - 1) \in 1..(Len(s) - i) /\ (j - (i - 1)) + i = j + 1
          BY <1>0, <4>1, <4>3
        <5> QED BY <2>4, <4>1, <4>3, <5>1
      <4> QED BY <4>2, <4>3
    <3> QED BY <1>0, <2>3, <2>4, <2>5, <3>1, <3>2
  <2>7. n \in Nat /\ DOMAIN r = 1..n /\ r = [j \in 1..n |-> r[j]]
    BY <1>0, <2>6
  <2>8. r \in Seq(Range(r))
    BY <2>7, Elements
  <2>9. IsInjective(r)
    <3> SUFFICES ASSUME NEW a \in 1..n, NEW b \in 1..n, r[a] = r[b] PROVE a = b
      BY <2>7 DEF IsInjective
    <3>1. a \in Nat /\ b \in Nat /\ a \in 1..Len(s) /\ b \in 1..Len(s)
          /\ a + 1 \in 1..Len(s) /\ b + 1 \in 1..Len(s) /\ i \in Nat
      BY <1>0, <2>7
    <3>2. CASE a < i /\ b < i
      BY <1>a, <2>6, <3>1, <3>2
    <3>3. CASE a < i /\ ~(b < i)
      BY <1>a, <2>6, <3>1, <3>3
    <3>4. CASE ~(a < i) /\ b < i
      BY <1>a, <2>6, <3>1, <3>4
    <3>5. CASE ~(a < i) /\ ~(b < i)
      BY <1>a, <2>6, <3>1, <3>5
    <3> QED BY <3>2, <3>3, <3>4, <3>5
  <2>10. Range(r) \subseteq Range(s) \ {e}
    <3> SUFFICES ASSUME NEW j \in 1..n PROVE r[j] \in Range(s) \ {e}
      BY <2>7 DEF Range
    <3>1. j \in Nat /\ i \in Nat /\ j \in 1..Len(s) /\ j + 1 \in 1..Len(s)
      BY <1>0
    <3>2. CASE j < i
      BY <1>2, <1>a, <1>b, <2>6, <3>1, <3>2
    <3>3. CASE ~(j < i)
      BY <1>2, <1>a, <1>b, <2>6, <3>1, <3>3
    <3> QED BY <3>2, <3>3
  <2>11. ASSUME NEW x \in Range(s) \ {e} PROVE x \in Range(r)
    <3>1. PICK j \in 1..Len(s) : s[j] = x
      BY KeysElements
    <3>2. PICK at \in 1..n : r[at] = x
      <4>1. j # i
        BY <2>11, <3>1, <1>2
      <4>2. CASE j < i
        BY <1>0, <2>6, <3>1, <4>2
      <4>3. CASE j > i
        <5>1. j - 1 \in 1..n /\ ~(j - 1 < i) /\ (j - 1) + 1 = j
          BY <1>0, <4>3
        <5> QED BY <2>6, <3>1, <5>1
      <4> QED BY <4>1, <4>2, <4>3, <1>0
    <3> QED BY <3>2, <2>7 DEF Range
  <2> QED BY <2>8, <2>9, <2>10, <2>11 DEF Keys
<1> QED BY <1>1, <1>2 DEF Contains

LEMMA Appending ==
  ASSUME NEW s, Keys(s), NEW e, e \notin Range(s)
  PROVE  Keys(Append(s, e)) /\ Range(Append(s, e)) = Range(s) \cup {e}
<1> DEFINE n == Len(s) + 1
           r == Append(s, e)
           S == Range(s) \cup {e}
<1>1. s \in Seq(Range(s)) /\ Len(s) \in Nat /\ DOMAIN s = 1..Len(s)
  BY KeysElements DEF Keys
<1>2. s \in Seq(S)
  BY <1>1, SeqMonotonic
<1> HIDE DEF S
<1>3. e \in S
  BY DEF S
<1>4. /\ r \in Seq(S) /\ Len(r) = n
      /\ \A j \in 1..Len(s) : r[j] = s[j]
      /\ r[n] = e
  BY <1>2, <1>3, AppendProperties
<1> HIDE DEF r
<1>5. n \in Nat /\ DOMAIN r = 1..n /\ r = [j \in 1..n |-> r[j]]
  BY <1>1, <1>4
<1>6. r \in Seq(Range(r))
  BY <1>5, Elements
<1>7. IsInjective(r)
  <2> SUFFICES ASSUME NEW a \in 1..n, NEW b \in 1..n, r[a] = r[b] PROVE a = b
    BY <1>5 DEF IsInjective
  <2>1. CASE a # n /\ b # n
    <3>1. a \in 1..Len(s) /\ b \in 1..Len(s)
      BY <1>1, <2>1
    <3>2. \A x, y \in 1..Len(s) : s[x] = s[y] => x = y
      BY KeysElements
    <3> QED BY <1>4, <3>1, <3>2
  <2>2. CASE a = n /\ b # n
    <3>1. b \in 1..Len(s) /\ s[b] = e
      BY <1>1, <1>4, <2>2
    <3> QED BY <3>1, KeysElements
  <2>3. CASE a # n /\ b = n
    <3>1. a \in 1..Len(s) /\ s[a] = e
      BY <1>1, <1>4, <2>3
    <3> QED BY <3>1, KeysElements
  <2> QED BY <2>1, <2>2, <2>3
<1>8. Range(r) = S
  <2>1. ASSUME NEW j \in 1..n PROVE r[j] \in S
    BY <1>4, ElementOfSeq
  <2>2. ASSUME NEW x \in S PROVE \E j \in 1..n : r[j] = x
    <3>1. CASE x = e
      BY <1>1, <1>4, <3>1
    <3>2. CASE x # e
      <4>1. PICK j \in 1..Len(s) : s[j] = x
        BY <3>2, KeysElements DEF S
      <4> QED BY <1>1, <1>4, <4>1
    <3> QED BY <3>1, <3>2
  <2> QED BY <1>5, <2>1, <2>2 DEF Range
<1> QED BY <1>6, <1>7, <1>8 DEF Keys, r, S

LEMMA KeysCounted ==
  ASSUME NEW s, Keys(s)
  PROVE  IsFiniteSet(Range(s)) /\ Cardinality(Range(s)) = Len(s)
<1>1. s \in [1..Len(s) -> Range(s)]
  BY KeysElements, LenProperties DEF Keys
<1>2. ExistsBijection(1..Len(s), Range(s))
  BY <1>1, KeysElements DEF ExistsBijection, Bijection, Injection, Surjection,
     IsInjective
<1>3. IsFiniteSet(1..Len(s)) /\ Cardinality(1..Len(s)) = Len(s)
  <2> DEFINE n == Len(s)
  <2>1. n \in Nat
    BY KeysElements
  <2> HIDE DEF n
  <2>2. /\ IsFiniteSet(1..n)
        /\ Cardinality(1..n) = IF 1 > n THEN 0 ELSE n - 1 + 1
    BY <2>1, FS_Interval
  <2>3. IsFiniteSet(1..n) /\ Cardinality(1..n) = n
    BY <2>1, <2>2
  <2> QED BY <2>3 DEF n
<1> QED BY <1>2, <1>3, FS_Bijection

LEMMA Fewer ==
  ASSUME NEW B, IsFiniteSet(B), NEW A \in SUBSET B
  PROVE  Cardinality(A) \in Nat /\ Cardinality(B) \in Nat
         /\ Cardinality(A) <= Cardinality(B)
BY FS_Subset, FS_CardinalityType

LEMMA HeadAndTail ==
  ASSUME NEW s, s \in Seq(Range(s)), s # <<>>
  PROVE  Tail(s) \in Seq(Range(Tail(s))) /\ Range(s) = {Head(s)} \cup Range(Tail(s))
<1> DEFINE r == Tail(s)
           n == Len(s) - 1
<1>1. DOMAIN s = 1..Len(s) /\ Len(s) \in Nat \ {0}
  BY LenProperties, EmptySeq
<1>2. /\ r \in Seq(Range(s)) /\ Len(r) = n /\ Head(s) = s[1]
      /\ \A i \in 1..n : r[i] = s[i + 1]
  BY HeadTailProperties, <1>1
<1> HIDE DEF r
<1>3. n \in Nat /\ DOMAIN r = 1..n /\ r = [i \in 1..n |-> r[i]]
  BY <1>1, <1>2
<1>4. r \in Seq(Range(r))
  BY <1>3, Elements
<1>5. ASSUME NEW x \in Range(s) PROVE x = Head(s) \/ x \in Range(r)
  <2>1. PICK i \in 1..Len(s) : s[i] = x
    BY <1>1 DEF Range
  <2>2. CASE i = 1
    BY <1>2, <2>1, <2>2
  <2>3. CASE i # 1
    <3>1. i - 1 \in 1..n /\ (i - 1) + 1 = i
      BY <1>1, <2>3
    <3> QED BY <1>2, <1>3, <2>1, <3>1 DEF Range
  <2> QED BY <2>2, <2>3
<1>6. Head(s) \in Range(s)
  BY <1>1, <1>2 DEF Range
<1>7. ASSUME NEW i \in 1..n PROVE r[i] \in Range(s)
  BY <1>2, ElementOfSeq
<1>8. Range(r) \subseteq Range(s)
  BY <1>3, <1>7 DEF Range
<1> QED BY <1>4, <1>5, <1>6, <1>8 DEF r

LEMMA Prefix ==
  ASSUME NEW s, Keys(s), NEW m \in 1..Len(s), NEW r, r = SubSeq(s, 1, m)
  PROVE  Keys(r) /\ Range(r) \subseteq Range(s) /\ Len(r) = m
<1>1. /\ Len(s) \in Nat /\ m \in Nat
      /\ \A i \in 1..m : i \in 1..Len(s) /\ s[i] \in Range(s)
  BY KeysElements
<1>2. /\ r \in Seq(Range(s)) /\ Len(r) = IF 1 <= m THEN m - 1 + 1 ELSE 0
      /\ \A i \in 1..(m - 1 + 1) : r[i] = s[1 + i - 1]
  BY <1>1, SubSeqProperties
<1>3. Len(r) = m /\ \A i \in 1..m : r[i] = s[i]
  BY <1>1, <1>2
<1>4. DOMAIN r = 1..m /\ r = [i \in 1..m |-> r[i]]
  BY <1>1, <1>2, <1>3
<1>5. r \in Seq(Range(r))
  BY <1>1, <1>4, Elements
<1>6. IsInjective(r)
  <2>1. \A i, j \in 1..Len(s) : s[i] = s[j] => i = j
    BY KeysElements
  <2> QED BY <1>1, <1>3, <1>4, <2>1 DEF IsInjective
<1>7. Range(r) \subseteq Range(s)
  BY <1>1, <1>3, <1>4 DEF Range
<1> QED BY <1>3, <1>5, <1>6, <1>7 DEF Keys

LEMMA Finite ==
  ASSUME CacheInv
  PROVE  /\ IsFiniteSet(Range(cached)) /\ Cardinality(Range(cached)) = Len(cached)
         /\ Len(cached) \in Nat
         /\ \A A : IsFiniteSet(Range(cached) \ A)
                   /\ Cardinality(Range(cached) \ A) \in Nat
         /\ \A T \in SUBSET Search :
              IsFiniteSet(T) /\ Cardinality(T) \in Nat
              /\ Cardinality(T) <= Cardinality(Search)
         /\ Cardinality(Search) \in Nat /\ MaxEntries \in Nat \ {0}
<1>1. IsFiniteSet(Range(cached)) /\ Cardinality(Range(cached)) = Len(cached)
  BY KeysCounted DEF CacheInv
<1>2. Len(cached) \in Nat
  BY KeysElements DEF CacheInv
<1>3. \A A : IsFiniteSet(Range(cached) \ A)
             /\ Cardinality(Range(cached) \ A) \in Nat
  BY <1>1, FS_Difference, FS_CardinalityType
<1>4. \A T \in SUBSET Search :
        IsFiniteSet(T) /\ Cardinality(T) \in Nat
        /\ Cardinality(T) <= Cardinality(Search)
  BY SearchAssumption, FS_Subset, FS_CardinalityType
<1> QED BY <1>1, <1>2, <1>3, <1>4, SearchAssumption, FS_CardinalityType

\* Search s does not make room, and no entry is new.
LEMMA CacheShrinks ==
  ASSUME CacheInv, NEW s \in Search, NEW to, to # "evicting", GoesTo(s, to),
         victims' \in {victims, [victims EXCEPT ![s] = <<>>]},
         Keys(cached'), Range(cached') \subseteq Range(cached)
  PROVE  CacheInv'
<1>1. /\ \A t \in Evicting' : t \in Evicting /\ t # s
      /\ DOMAIN searchStep' = Search
  BY DEF CacheInv, Lists, GoesTo, Evicting
<1>2. \A t \in Search : t # s => victims'[t] = victims[t]
  BY DEF CacheInv, Lists
<1>3. Lists'
  <2>1. <<>> \in Seq(Range(<<>>))
    BY EmptySeq
  <2> QED BY <1>1, <2>1 DEF CacheInv, Lists
<1>4. Room'
  <2> SUFFICES ASSUME NEW T \in SUBSET Evicting'
      PROVE  Cardinality(Range(cached') \ Doomed(T)') + Cardinality(T)
               < MaxEntries + Cardinality(Search)
    BY DEF Room
  <2>1. T \subseteq Evicting /\ s \notin T /\ T \subseteq Search
    BY <1>1 DEF Evicting
  <2>2. Doomed(T)' = Doomed(T)
    BY <1>2, <2>1 DEF Doomed
  <2>3. Range(cached') \ Doomed(T)' \subseteq Range(cached) \ Doomed(T)
    BY <2>2
  <2>4. Cardinality(Range(cached) \ Doomed(T)) + Cardinality(T)
          < MaxEntries + Cardinality(Search)
    BY <2>1 DEF CacheInv, Room
  <2> DEFINE Left == Range(cached) \ Doomed(T)
             left == Range(cached') \ Doomed(T)'
  <2>5. IsFiniteSet(Left) /\ left \in SUBSET Left
    BY <2>3, Finite
  <2>6. Cardinality(T) \in Nat /\ Cardinality(Search) \in Nat /\ MaxEntries \in Nat
    BY <2>1, Finite
  <2> HIDE DEF left, Left
  <2>7. Cardinality(left) \in Nat /\ Cardinality(Left) \in Nat
        /\ Cardinality(left) <= Cardinality(Left)
    BY <2>5, Fewer
  <2> QED BY <2>4, <2>6, <2>7 DEF left, Left
<1> QED BY <1>3, <1>4 DEF CacheInv

\* An answer: what is left once this search is done has room for one more.
LEMMA CacheAnswered ==
  ASSUME CacheInv, NEW s \in Search, Answered(s)
  PROVE  CacheInv'
<1> DEFINE m == (Len(cached) + 1) - MaxEntries
<1>1. Keys(cached) /\ Lists
  BY DEF CacheInv
<1>2. Len(cached) \in Nat /\ MaxEntries \in Nat \ {0} /\ m \in Int
  BY Finite
<1>3. /\ Evicting' = Evicting \cup {s} /\ DOMAIN searchStep' = Search
      /\ DOMAIN victims' = Search
      /\ \A t \in Search : t # s => victims'[t] = victims[t]
  BY <1>1 DEF Answered, GoesTo, Evicting, Lists
<1>4. /\ Keys(cached') /\ Range(cached') \subseteq Range(cached)
      /\ victims'[s] \in Seq(Range(victims'[s]))
      /\ Cardinality(Range(cached') \ Range(victims'[s])) \in Nat
      /\ Cardinality(Range(cached') \ Range(victims'[s])) < MaxEntries
  <2>1. CASE m < 1
    <3>1. Oldest = <<>>
      BY <1>2, <2>1, SubSeqEmpty DEF Oldest
    <3>2. cached' = cached /\ victims'[s] = <<>>
      BY <1>1, <3>1 DEF Answered, Lists
    <3>3. Range(<<>>) = {} /\ <<>> \in Seq(Range(<<>>))
      BY EmptySeq DEF Range
    <3>4. Range(cached') \ Range(victims'[s]) = Range(cached)
      BY <3>2, <3>3
    <3>5. Cardinality(Range(cached)) = Len(cached) /\ Len(cached) < MaxEntries
      BY <1>2, <2>1, Finite
    <3> QED BY <1>1, <1>2, <3>2, <3>3, <3>4, <3>5
  <2>2. CASE m >= 1
    <3>1. m \in 1..Len(cached)
      BY <1>2, <2>2
    <3> HIDE DEF m
    <3>2. Oldest = SubSeq(cached, 1, m)
      BY DEF Oldest, m
    <3>3. /\ Keys(Oldest) /\ Range(Oldest) \subseteq Range(cached)
          /\ Len(Oldest) = m
      BY <1>1, <3>1, <3>2, Prefix
    <3>4. Oldest # <<>> /\ Oldest \in Seq(Range(Oldest))
      BY <3>1, <3>3, EmptySeq DEF Keys
    <3>5. /\ Tail(Oldest) \in Seq(Range(Tail(Oldest)))
          /\ Range(Oldest) = {Head(Oldest)} \cup Range(Tail(Oldest))
      BY <3>4, HeadAndTail
    <3>6. victims'[s] = Tail(Oldest) /\ cached' = Without(Head(Oldest))
      BY <1>1, <3>4 DEF Answered, Lists
    <3>7. Keys(cached') /\ Range(cached') = Range(cached) \ {Head(Oldest)}
      BY <1>1, <3>6, Removing
    <3>8. Range(cached') \ Range(victims'[s]) = Range(cached) \ Range(Oldest)
      BY <3>5, <3>6, <3>7
    <3>9. Range(cached) \cap Range(Oldest) = Range(Oldest)
      BY <3>3
    <3>10. Cardinality(Range(cached) \ Range(Oldest)) = Len(cached) - m
      <4>1. Cardinality(Range(cached) \ Range(Oldest))
              = Cardinality(Range(cached)) - Cardinality(Range(cached) \cap Range(Oldest))
        BY Finite, FS_Difference
      <4>2. Cardinality(Range(Oldest)) = m
        BY <3>3, KeysCounted
      <4> QED BY <3>9, <4>1, <4>2, Finite
    <3>11. Len(cached) - m \in Nat /\ Len(cached) - m < MaxEntries
      BY <1>2, <3>1 DEF m
    <3> QED BY <3>5, <3>6, <3>7, <3>8, <3>10, <3>11
  <2> QED BY <1>2, <2>1, <2>2
<1>5. Lists'
  BY <1>1, <1>3, <1>4 DEF Lists
<1>6. Room'
  <2> SUFFICES ASSUME NEW T \in SUBSET Evicting'
      PROVE  Cardinality(Range(cached') \ Doomed(T)') + Cardinality(T)
               < MaxEntries + Cardinality(Search)
    BY DEF Room
  <2>1. T \subseteq Search
    BY <1>3 DEF Evicting
  <2>2. /\ Cardinality(T) \in Nat /\ Cardinality(Search) \in Nat
        /\ MaxEntries \in Nat /\ Cardinality(T) <= Cardinality(Search)
    BY <2>1, Finite
  <2> DEFINE left == Range(cached') \ Doomed(T)'
  <2>3. CASE s \in T
    <3> DEFINE room == Range(cached') \ Range(victims'[s])
    <3>1. left \in SUBSET room
      BY <2>3 DEF Doomed
    <3>2. IsFiniteSet(room)
      BY <1>4, KeysCounted, FS_Difference
    <3>3. Cardinality(room) \in Nat /\ Cardinality(room) < MaxEntries
      BY <1>4
    <3> HIDE DEF left, room
    <3>4. Cardinality(left) \in Nat /\ Cardinality(left) <= Cardinality(room)
      BY <3>1, <3>2, Fewer
    <3> QED BY <2>2, <3>3, <3>4 DEF left
  <2>4. CASE s \notin T
    <3> DEFINE Left == Range(cached) \ Doomed(T)
    <3>1. T \in SUBSET Evicting /\ Doomed(T)' = Doomed(T)
      BY <1>3, <2>1, <2>4 DEF Doomed
    <3>2. IsFiniteSet(Left) /\ left \in SUBSET Left
      BY <1>4, <3>1, Finite
    <3>3. Cardinality(Left) + Cardinality(T) < MaxEntries + Cardinality(Search)
      BY <3>1 DEF CacheInv, Room
    <3> HIDE DEF left, Left
    <3>4. Cardinality(Left) \in Nat /\ Cardinality(left) \in Nat
          /\ Cardinality(left) <= Cardinality(Left)
      BY <3>2, Fewer
    <3> QED BY <2>2, <3>3, <3>4 DEF left
  <2> QED BY <2>3, <2>4
<1> QED BY <1>4, <1>5, <1>6 DEF CacheInv

\* A deletion: what is deleted is no longer to be deleted.
LEMMA CacheEvicts ==
  ASSUME CacheInv, NEW s \in Search, EvictNext(s)
  PROVE  CacheInv'
<1> DEFINE v == Head(victims[s])
<1>1. Keys(cached) /\ Lists
  BY DEF CacheInv
<1>2. /\ Tail(victims[s]) \in Seq(Range(Tail(victims[s])))
      /\ Range(victims[s]) = {v} \cup Range(Tail(victims[s]))
  BY <1>1, HeadAndTail DEF EvictNext, Lists
<1>3. Keys(cached') /\ Range(cached') = Range(cached) \ {v}
  BY <1>1, Removing DEF EvictNext
<1>4. /\ Evicting' = Evicting /\ DOMAIN searchStep' = Search
      /\ DOMAIN victims' = Search /\ victims'[s] = Tail(victims[s])
      /\ \A t \in Search : t # s => victims'[t] = victims[t]
  BY <1>1 DEF EvictNext, Evicting, Lists
<1>5. Lists'
  BY <1>1, <1>2, <1>4 DEF Lists
<1>6. Room'
  <2> SUFFICES ASSUME NEW T \in SUBSET Evicting'
      PROVE  Cardinality(Range(cached') \ Doomed(T)') + Cardinality(T)
               < MaxEntries + Cardinality(Search)
    BY DEF Room
  <2>1. T \subseteq Search /\ T \subseteq Evicting
    BY <1>4 DEF Evicting
  <2>2. Doomed(T) \subseteq {v} \cup Doomed(T)'
    <3> SUFFICES ASSUME NEW t \in T, NEW x \in Range(victims[t])
        PROVE  x = v \/ x \in Range(victims'[t])
      BY DEF Doomed
    <3> QED BY <1>2, <1>4, <2>1
  <2> DEFINE left == Range(cached') \ Doomed(T)'
             Left == Range(cached) \ Doomed(T)
  <2>3. IsFiniteSet(Left) /\ left \in SUBSET Left
    BY <1>3, <2>2, Finite
  <2>4. Cardinality(Left) + Cardinality(T) < MaxEntries + Cardinality(Search)
    BY <2>1 DEF CacheInv, Room
  <2>5. Cardinality(T) \in Nat /\ Cardinality(Search) \in Nat /\ MaxEntries \in Nat
    BY <2>1, Finite
  <2> HIDE DEF left, Left
  <2>6. Cardinality(Left) \in Nat /\ Cardinality(left) \in Nat
        /\ Cardinality(left) <= Cardinality(Left)
    BY <2>3, Fewer
  <2> QED BY <2>4, <2>5, <2>6 DEF left
<1> QED BY <1>3, <1>5, <1>6 DEF CacheInv

\* A write: the search takes the room it was counted for.
LEMMA CacheStores ==
  ASSUME CacheInv, NEW s \in Search, Store(s)
  PROVE  CacheInv'
<1> DEFINE k == CacheKey(s)
<1>1. Keys(cached) /\ Lists
  BY DEF CacheInv
<1>2. Keys(Without(k)) /\ Range(Without(k)) = Range(cached) \ {k}
  BY <1>1, Removing
<1>3. Keys(cached') /\ Range(cached') = Range(cached) \cup {k}
  <2>1. k \notin Range(Without(k))
    BY <1>2
  <2>2. cached' = Append(Without(k), k)
    BY DEF Store
  <2> QED BY <1>2, <2>1, <2>2, Appending
<1>4. /\ s \in Evicting /\ Evicting' = Evicting \ {s} /\ DOMAIN searchStep' = Search
      /\ victims' = victims /\ victims[s] = <<>>
  BY <1>1 DEF Store, GoesTo, Evicting, Lists, remote
<1>5. Lists'
  BY <1>1, <1>4 DEF Lists
<1>6. Room'
  <2> SUFFICES ASSUME NEW T \in SUBSET Evicting'
      PROVE  Cardinality(Range(cached') \ Doomed(T)') + Cardinality(T)
               < MaxEntries + Cardinality(Search)
    BY DEF Room
  <2>1. T \subseteq Search /\ T \cup {s} \in SUBSET Evicting /\ s \notin T
    BY <1>4 DEF Evicting
  <2>2. Range(<<>>) = {}
    BY DEF Range
  <2>3. Doomed(T)' = Doomed(T) /\ Doomed(T \cup {s}) = Doomed(T)
    BY <1>4, <2>2 DEF Doomed
  <2> DEFINE left == Range(cached') \ Doomed(T)'
             Left == Range(cached) \ Doomed(T)
  <2>4. IsFiniteSet(Left) /\ left \in SUBSET (Left \cup {k})
    BY <1>3, <2>3, Finite
  <2>5. Cardinality(Left) + Cardinality(T \cup {s})
          < MaxEntries + Cardinality(Search)
    BY <2>1, <2>3 DEF CacheInv, Room
  <2>6. IsFiniteSet(T) /\ Cardinality(T) \in Nat /\ Cardinality(Search) \in Nat
        /\ MaxEntries \in Nat
    BY <2>1, Finite
  <2>7. Cardinality(T \cup {s}) = Cardinality(T) + 1
    BY <2>1, <2>6, FS_AddElement
  <2> HIDE DEF left, Left
  <2>8. Cardinality(Left) \in Nat
    BY <2>4, FS_CardinalityType
  <2>9. IsFiniteSet(Left \cup {k})
        /\ Cardinality(Left \cup {k}) <= Cardinality(Left) + 1
    <3> HIDE DEF k
    <3>1. /\ IsFiniteSet(Left \cup {k})
          /\ Cardinality(Left \cup {k})
               = IF k \in Left THEN Cardinality(Left) ELSE Cardinality(Left) + 1
      BY <2>4, FS_AddElement
    <3> QED BY <2>8, <3>1
  <2>10. Cardinality(left) \in Nat /\ Cardinality(Left \cup {k}) \in Nat
         /\ Cardinality(left) <= Cardinality(Left \cup {k})
    BY <2>4, <2>9, Fewer
  <2> QED BY <2>5, <2>6, <2>7, <2>8, <2>9, <2>10 DEF left
<1> QED BY <1>3, <1>5, <1>6 DEF CacheInv

LEMMA CacheNextSource ==
  ASSUME CacheInv, NEW s \in Search, NEW something \in BOOLEAN,
         NextSource(s, something), UNCHANGED cached
  PROVE  CacheInv'
<1>1. PICK to \in {"looking", "searched", "local"} : GoesTo(s, to)
  BY DEF NextSource
<1>2. victims' = [victims EXCEPT ![s] = <<>>]
  BY DEF NextSource
<1> QED BY <1>1, <1>2, CacheShrinks DEF CacheInv

LEMMA CacheThrows ==
  ASSUME CacheInv, NEW s \in Search, Throws(s),
         Keys(cached'), Range(cached') \subseteq Range(cached)
  PROVE  CacheInv'
<1>1. PICK to \in {"blank", "idle"} : GoesTo(s, to)
  BY DEF Throws, SearchEnds
<1>2. victims' \in {victims, [victims EXCEPT ![s] = <<>>]}
  BY DEF Throws, SearchEnds
<1> QED BY <1>1, <1>2, CacheShrinks

LEMMA CacheSearching ==
  ASSUME CacheInv, NEW s \in Search,
         \/ \E q \in Query : Command(s, q)
         \/ Hit(s) \/ Miss(s) \/ ExpiryFails(s)
         \/ Answered(s) \/ EvictNext(s) \/ Store(s) \/ Stored(s) \/ SourceFails(s)
         \/ SearchedLocal(s) \/ CommandEnds(s)
  PROVE  CacheInv'
<1> USE DEF remote
<1>1. Keys(cached)
  BY DEF CacheInv
<1>2. ASSUME NEW q \in Query, Command(s, q) PROVE CacheInv'
  <2>1. PICK to \in {"local", "looking"} : GoesTo(s, to)
    BY <1>2 DEF Command, Begins
  <2> QED BY <1>1, <1>2, <2>1, CacheShrinks DEF Command
<1>3. CASE Hit(s) \/ Stored(s) \/ SourceFails(s)
  BY <1>3, CacheNextSource DEF Hit, Stored, SourceFails
<1>4. CASE Miss(s) \/ ExpiryFails(s)
  <2>1. cached' = Without(CacheKey(s))
    BY <1>4 DEF Miss, ExpiryFails
  <2>2. Keys(cached') /\ Range(cached') \subseteq Range(cached)
    BY <1>1, <2>1, Removing
  <2> QED BY <1>4, <2>2, CacheShrinks, CacheThrows DEF Miss, ExpiryFails
<1>5. CASE Answered(s) \/ EvictNext(s) \/ Store(s)
  BY <1>5, CacheAnswered, CacheEvicts, CacheStores
<1>6. CASE SearchedLocal(s) \/ CommandEnds(s)
  BY <1>1, <1>6, CacheShrinks DEF SearchedLocal, CommandEnds, SearchEnds
<1> QED BY <1>2, <1>3, <1>4, <1>5, <1>6

LEMMA CacheShowing ==
  ASSUME CacheInv, NEW s \in Search,
         \/ \E q \in Query : Inline(s, q)
         \/ ClearResults(s) \/ Loaded(s) \/ BlankPage(s) \/ PageFails(s)
         \/ ChooseSources(s) \/ InlineSearched(s) \/ Remembered(s) \/ Rendered(s)
         \/ InlineFails(s)
  PROVE  CacheInv'
<1> USE DEF remote
<1>1. Keys(cached) /\ UNCHANGED cached
  BY DEF CacheInv, Inline, ClearResults, Loaded, BlankPage, PageFails,
     ChooseSources, InlineSearched, Remembered, Rendered, InlineFails
<1>2. CASE InlineFails(s)
  BY <1>1, <1>2, CacheThrows DEF InlineFails
<1>3. CASE ChooseSources(s)
  <2>1. PICK to \in {"local", "looking"} : GoesTo(s, to)
    BY <1>3 DEF ChooseSources, Begins
  <2> QED BY <1>1, <1>3, <2>1, CacheShrinks DEF ChooseSources
<1>4. CASE BlankPage(s) \/ PageFails(s) \/ Rendered(s)
  BY <1>1, <1>4, CacheShrinks DEF BlankPage, PageFails, Rendered, SearchEnds
<1>5. CASE Remembered(s)
  BY <1>1, <1>5, CacheShrinks DEF Remembered, SearchEnds
<1>6. CASE \/ ClearResults(s) \/ Loaded(s) \/ InlineSearched(s)
           \/ \E q \in Query : Inline(s, q)
  BY <1>1, <1>6, CacheShrinks DEF ClearResults, Loaded, InlineSearched, Inline
<1> QED BY <1>2, <1>3, <1>4, <1>5, <1>6

LEMMA CacheNext ==
  ASSUME CacheInv, [SearchNext]_searchVars
  PROVE  CacheInv'
<1>1. CASE RenderAgain \/ CloseView \/ OpenView \/ UNCHANGED searchVars
  <2>1. UNCHANGED <<cached, searchStep, victims>>
    BY <1>1 DEF RenderAgain, CloseView, OpenView, searchVars, remote
  <2> QED BY <2>1 DEF CacheInv, Keys, Lists, Room, Doomed, Evicting
<1> QED BY <1>1, CacheSearching, CacheShowing DEF SearchNext

\* However searches overlap between the choice of the entries to delete, their
\* deletions and the write, the cache is over its limit by less than the number
\* of searches and has one entry for a key, for any limit and any searches.
THEOREM CacheBoundedAlways == SearchSpec => []CacheBounded
<1>1. SearchInit => CacheInv
  <2> SUFFICES ASSUME SearchInit PROVE CacheInv
    OBVIOUS
  <2>1. Range(<<>>) = {} /\ <<>> \in Seq(Range(<<>>)) /\ IsInjective(<<>>)
    BY EmptySeq DEF Range, IsInjective
  <2>2. Evicting = {}
    BY DEF SearchInit, Evicting
  <2>3. Room
    <3>1. Cardinality({}) = 0 /\ Cardinality(Search) \in Nat
          /\ MaxEntries \in Nat \ {0}
      BY SearchAssumption, FS_EmptySet, FS_CardinalityType
    <3>2. \A T \in SUBSET Evicting : T = {} /\ Range(cached) \ Doomed(T) = {}
      BY <2>1, <2>2 DEF SearchInit
    <3>3. 0 + 0 < MaxEntries + Cardinality(Search)
      BY <3>1
    <3> QED BY <3>1, <3>2, <3>3 DEF Room
  <2> QED BY <2>1, <2>3 DEF CacheInv, Keys, Lists, SearchInit
<1>2. CacheInv => CacheBounded
  <2> SUFFICES ASSUME CacheInv PROVE CacheBounded
    OBVIOUS
  <2>1. {} \in SUBSET Evicting /\ Range(cached) \ Doomed({}) = Range(cached)
    BY DEF Doomed
  <2>2. Cardinality({}) = 0
    BY FS_EmptySet
  <2>3. Cardinality(Range(cached)) + 0 < MaxEntries + Cardinality(Search)
    BY <2>1, <2>2 DEF CacheInv, Room
  <2> QED BY <2>3, Finite DEF CacheInv, Keys, CacheBounded
<1> QED BY <1>1, <1>2, CacheNext, PTL DEF SearchSpec

-----------------------------------------------------------------------------
(* The view.                                                                  *)

Step == {"idle", "looking", "asking", "evicting", "storing", "local", "searched",
         "loading", "choosing", "remembering", "rendering", "blank"}

StepType == searchStep \in [Search -> Step]

\* The steps only a search of the view takes.
ViewSteps ==
  \A s \in Search :
    searchStep[s] \in {"loading", "choosing", "remembering", "rendering", "blank"}
      => s \in inline

OneInline == overlapped # TRUE => \A s, t \in inline : s = t

\* From the loading page to its own a search of the view leaves it no rows.
NoRows ==
  overlapped # TRUE =>
    \A s \in inline : searchStep[s] \notin {"loading", "blank"} => rows = NoSearch

Remembers ==
  overlapped # TRUE =>
    \A s \in inline : searchStep[s] \in {"remembering", "rendering"} => lastResults = s

Opens == overlapped # TRUE /\ rows # NoSearch => lastResults \in {rows, NoSearch}

ViewInv == /\ StepType /\ inline \subseteq Search
           /\ ViewSteps /\ OneInline /\ NoRows /\ Remembers /\ Opens

\* Search s goes on to a step that shows nothing, or ends.
LEMMA ViewGoes ==
  ASSUME ViewInv, NEW s \in Search, NEW to \in Step, GoesTo(s, to),
         inline' \in {inline, inline \ {s}},
         UNCHANGED <<rows, lastResults, overlapped>>,
         to \in {"loading", "choosing", "remembering", "rendering", "blank"}
           => s \in inline',
         searchStep[s] \in {"loading", "blank"} /\ s \in inline'
           => to = "blank" \/ rows = NoSearch,
         to \in {"remembering", "rendering"} => lastResults = s
  PROVE  ViewInv'
<1> USE DEF ViewInv
<1>1. searchStep'[s] = to /\ \A t \in Search : t # s => searchStep'[t] = searchStep[t]
  BY DEF GoesTo, StepType
<1>2. StepType' /\ inline' \subseteq inline
  BY DEF GoesTo, StepType
<1>3. ViewSteps'
  BY <1>1 DEF ViewSteps
<1>4. OneInline'
  BY <1>2 DEF OneInline
<1>5. NoRows'
  BY <1>1, <1>2 DEF NoRows
<1>6. Remembers'
  BY <1>1, <1>2 DEF Remembers
<1> QED BY <1>2, <1>3, <1>4, <1>5, <1>6 DEF Opens

LEMMA ViewNextSource ==
  ASSUME ViewInv, NEW s \in Search, NEW something \in BOOLEAN,
         searchStep[s] \in {"looking", "asking", "evicting", "storing"},
         NextSource(s, something), UNCHANGED <<view, overlapped>>
  PROVE  ViewInv'
<1>1. PICK to \in {"looking", "searched", "local"} : GoesTo(s, to)
  BY DEF NextSource
<1>2. UNCHANGED inline
  BY DEF NextSource
<1> QED BY <1>1, <1>2, ViewGoes DEF view, Step

\* The error page, or the end.
LEMMA ViewThrows ==
  ASSUME ViewInv, NEW s \in Search, searchStep[s] \notin {"idle", "loading", "blank"},
         Throws(s), UNCHANGED overlapped
  PROVE  ViewInv'
<1> USE DEF ViewInv
<1>1. PICK to \in {"blank", "idle"} :
        /\ GoesTo(s, to) /\ UNCHANGED rows
        /\ to = "blank" => s \in inline /\ UNCHANGED inline
        /\ to = "idle" => inline' = inline \ {s}
        /\ lastResults' = IF s \in inline THEN NoSearch ELSE lastResults
  BY DEF Throws, SearchEnds
<1>2. searchStep'[s] = to /\ \A t \in Search : t # s => searchStep'[t] = searchStep[t]
  BY <1>1 DEF GoesTo, StepType
<1>3. StepType' /\ inline' \subseteq inline
  BY <1>1 DEF GoesTo, StepType, Step
<1>4. ViewSteps' /\ OneInline' /\ NoRows'
  BY <1>1, <1>2, <1>3 DEF ViewSteps, OneInline, NoRows
<1>5. Remembers'
  BY <1>1, <1>2, <1>3 DEF Remembers, OneInline
<1>6. Opens'
  BY <1>1 DEF Opens
<1> QED BY <1>3, <1>4, <1>5, <1>6

\* A search the view starts.
LEMMA ViewStarts ==
  ASSUME ViewInv, NEW s \in Search, FromView(s), NEW to \in {"loading", "blank"},
         GoesTo(s, to), UNCHANGED rows, lastResults' \in {lastResults, NoSearch}
  PROVE  ViewInv'
<1> USE DEF ViewInv, FromView
<1>1. searchStep'[s] = to /\ \A t \in Search : t # s => searchStep'[t] = searchStep[t]
  BY DEF GoesTo, StepType
<1>2. StepType' /\ inline' \subseteq Search
  BY DEF GoesTo, StepType, Step
<1>3. overlapped' # TRUE => overlapped # TRUE /\ inline' = {s}
  OBVIOUS
<1>4. ViewSteps'
  BY <1>1 DEF ViewSteps
<1>5. OneInline' /\ NoRows' /\ Remembers'
  BY <1>1, <1>3 DEF OneInline, NoRows, Remembers
<1>6. Opens'
  BY <1>3 DEF Opens
<1> QED BY <1>2, <1>4, <1>5, <1>6

\* The view loses its rows.
LEMMA ViewNoRows ==
  ASSUME ViewInv, rows' = NoSearch, UNCHANGED <<inline, searchStep, lastResults, overlapped>>
  PROVE  ViewInv'
BY DEF ViewInv, StepType, ViewSteps, OneInline, NoRows, Remembers, Opens

LEMMA ViewSearching ==
  ASSUME ViewInv, NEW s \in Search,
         \/ \E q \in Query : Command(s, q)
         \/ Hit(s) \/ Miss(s) \/ ExpiryFails(s)
         \/ Answered(s) \/ EvictNext(s) \/ Store(s) \/ Stored(s) \/ SourceFails(s)
         \/ SearchedLocal(s) \/ CommandEnds(s)
  PROVE  ViewInv'
<1> USE DEF view, remote
<1>1. ASSUME NEW q \in Query, Command(s, q) PROVE ViewInv'
  <2>1. PICK to \in {"local", "looking"} : GoesTo(s, to)
    BY <1>1 DEF Command, Begins
  <2> QED BY <1>1, <2>1, ViewGoes DEF Command, Step
<1>2. CASE Hit(s) \/ Stored(s) \/ SourceFails(s)
  BY <1>2, ViewNextSource DEF Hit, Stored, SourceFails
<1>3. CASE ExpiryFails(s)
  BY <1>3, ViewThrows DEF ExpiryFails
<1>4. CASE Miss(s) \/ Answered(s) \/ Store(s) \/ SearchedLocal(s)
  BY <1>4, ViewGoes DEF Miss, Answered, Store, SearchedLocal, Step
<1>5. CASE EvictNext(s)
  BY <1>5 DEF EvictNext, ViewInv, StepType, ViewSteps, OneInline, NoRows,
     Remembers, Opens
<1>6. CASE CommandEnds(s)
  BY <1>6, ViewGoes DEF CommandEnds, SearchEnds, Step
<1> QED BY <1>1, <1>2, <1>3, <1>4, <1>5, <1>6

LEMMA ViewShowing ==
  ASSUME ViewInv, NEW s \in Search,
         \/ \E q \in Query : Inline(s, q)
         \/ ClearResults(s) \/ Loaded(s) \/ BlankPage(s) \/ PageFails(s)
         \/ ChooseSources(s) \/ InlineSearched(s) \/ Remembered(s) \/ Rendered(s)
         \/ InlineFails(s)
  PROVE  ViewInv'
<1> USE DEF view, remote
<1>1. CASE ClearResults(s) \/ \E q \in Query : Inline(s, q)
  BY <1>1, ViewStarts DEF ClearResults, Inline
<1>2. CASE Loaded(s)
  <2>1. s \in inline
    BY <1>2 DEF Loaded, ViewInv, ViewSteps
  <2> QED BY <1>2, <2>1 DEF Loaded, GoesTo, ViewInv, StepType, Step, ViewSteps,
             OneInline, NoRows, Remembers, Opens
<1>3. CASE BlankPage(s)
  BY <1>3 DEF BlankPage, SearchEnds, GoesTo, ViewInv, StepType, Step, ViewSteps,
     OneInline, NoRows, Remembers, Opens
<1>4. CASE PageFails(s)
  BY <1>4, ViewGoes DEF PageFails, SearchEnds, Step
<1>5. CASE ChooseSources(s)
  <2>1. PICK to \in {"local", "looking"} : GoesTo(s, to)
    BY <1>5 DEF ChooseSources, Begins
  <2> QED BY <1>5, <2>1, ViewGoes DEF ChooseSources, Step
<1>6. CASE InlineSearched(s)
  <2>1. /\ searchStep'[s] = "remembering" /\ lastResults' = s
        /\ \A t \in Search : t # s => searchStep'[t] = searchStep[t]
        /\ UNCHANGED <<rows, overlapped, inline>>
    BY <1>6 DEF InlineSearched, GoesTo, ViewInv, StepType
  <2>2. StepType'
    BY <1>6 DEF InlineSearched, GoesTo, ViewInv, StepType, Step
  <2>3. s \in inline /\ searchStep[s] = "searched"
    BY <1>6 DEF InlineSearched
  <2>4. ViewSteps' /\ OneInline' /\ NoRows' /\ Remembers'
    BY <2>1, <2>3 DEF ViewInv, ViewSteps, OneInline, NoRows, Remembers
  <2>5. Opens'
    BY <2>1, <2>3 DEF ViewInv, NoRows, Opens
  <2> QED BY <2>1, <2>2, <2>4, <2>5 DEF ViewInv
<1>7. CASE Remembered(s)
  <2>1. s \in inline
    BY <1>7 DEF Remembered, ViewInv, ViewSteps
  <2>2. CASE viewOpen
    BY <1>7, <2>1, <2>2 DEF Remembered, GoesTo, ViewInv, StepType, Step,
       ViewSteps, OneInline, NoRows, Remembers, Opens
  <2>3. CASE ~viewOpen
    BY <1>7, <2>1, <2>3, ViewGoes DEF Remembered, SearchEnds, Step
  <2> QED BY <2>2, <2>3
<1>8. CASE Rendered(s)
  <2>1. s \in inline
    BY <1>8 DEF Rendered, ViewInv, ViewSteps
  <2>2. /\ searchStep'[s] = "idle" /\ inline' = inline \ {s} /\ rows' = s
        /\ \A t \in Search : t # s => searchStep'[t] = searchStep[t]
        /\ UNCHANGED <<lastResults, overlapped>>
    BY <1>8 DEF Rendered, SearchEnds, GoesTo, ViewInv, StepType
  <2>3. StepType'
    BY <1>8 DEF Rendered, SearchEnds, GoesTo, ViewInv, StepType, Step
  <2>4. ViewSteps' /\ OneInline' /\ NoRows' /\ Remembers'
    BY <2>1, <2>2 DEF ViewInv, ViewSteps, OneInline, NoRows, Remembers
  <2>5. Opens'
    BY <1>8, <2>1, <2>2 DEF Rendered, ViewInv, Remembers, Opens
  <2> QED BY <2>2, <2>3, <2>4, <2>5 DEF ViewInv
<1>9. CASE InlineFails(s)
  BY <1>9, ViewThrows DEF InlineFails
<1> QED BY <1>1, <1>2, <1>3, <1>4, <1>5, <1>6, <1>7, <1>8, <1>9

LEMMA ViewNext ==
  ASSUME ViewInv, [SearchNext]_searchVars
  PROVE  ViewInv'
<1>1. CASE RenderAgain \/ CloseView
  BY <1>1, ViewNoRows DEF RenderAgain, CloseView
<1>2. CASE OpenView \/ UNCHANGED searchVars
  BY <1>2 DEF OpenView, searchVars, view, ViewInv, StepType, ViewSteps,
     OneInline, NoRows, Remembers, Opens
<1> QED BY <1>1, <1>2, ViewSearching, ViewShowing DEF SearchNext

\* Unless searches of the view overlapped, an opened row is one of the search
\* that the view lists, for any searches and any closing of the view.
THEOREM OpensWhatIsShownAlways == SearchSpec => []OpensWhatIsShown
<1>1. SearchInit => ViewInv
  BY DEF SearchInit, ViewInv, StepType, Step, ViewSteps, OneInline, NoRows,
     Remembers, Opens
<1>2. ViewInv => OpensWhatIsShown
  BY DEF ViewInv, Opens, OpensWhatIsShown
<1> QED BY <1>1, <1>2, ViewNext, PTL DEF SearchSpec
=============================================================================
