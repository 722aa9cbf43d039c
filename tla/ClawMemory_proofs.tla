--------------------------- MODULE ClawMemory_proofs ---------------------------
(***************************************************************************)
(* Proofs about what claw_memory keeps, for every value of the constants:   *)
(* the history of a session and the long-term memory.                       *)
(***************************************************************************)
EXTENDS SessionHistory, Integers, FiniteSetTheorems, SequenceTheorems, WellFoundedInduction, TLAPS

-----------------------------------------------------------------------------
(***************************************************************************)
(* Lists.  Induction over numbers is by the least number that fails.       *)
(***************************************************************************)

LEMMA LeastNumber ==
  ASSUME NEW S, S \subseteq Nat, S # {}
  PROVE  \E n \in S : \A m \in S : n <= m
<1> DEFINE R == {p \in Nat \X Nat : p[1] < p[2]}
<1>1. IsWellFoundedOn(R, Nat)
  BY NatLessThanWellFounded DEF OpToRel
<1> HIDE DEF R
<1>2. PICK n \in S : \A m \in S : <<m, n>> \notin R
  BY <1>1, WFMin
<1>3. \A m \in S : ~(m < n)
  BY <1>2 DEF R
<1> QED BY <1>3

\* The sums of the first lengths.
IsSum(f, lens, k) == f = [n \in 0..k |-> IF n = 0 THEN 0 ELSE f[n - 1] + lens[n]]

LEMMA SumExists == ASSUME NEW lens, NEW k \in Nat PROVE \E f : IsSum(f, lens, k)
<1> DEFINE Fails == {n \in Nat : ~\E f : IsSum(f, lens, n)}
<1>1. SUFFICES ASSUME k \in Fails PROVE FALSE
  OBVIOUS
<1>2. PICK n \in Fails : \A m \in Fails : n <= m
  <2> HIDE DEF Fails
  <2>1. Fails \subseteq Nat
    BY DEF Fails
  <2> QED BY <1>1, <2>1, LeastNumber
<1>3. n # 0
  <2>1. IsSum([m \in 0..0 |-> 0], lens, 0)
    BY DEF IsSum
  <2> QED BY <1>2, <2>1
<1>4. n \in Nat /\ n - 1 \in Nat /\ n - 1 \notin Fails
  BY <1>2, <1>3
<1>5. PICK f : IsSum(f, lens, n - 1)
  BY <1>4
<1> DEFINE g == [m \in 0..n |-> IF m = n THEN f[n - 1] + lens[n] ELSE f[m]]
<1>6. \A m \in 0..n - 1 : f[m] = IF m = 0 THEN 0 ELSE f[m - 1] + lens[m]
  BY <1>4, <1>5 DEF IsSum
<1>7. \A m \in 0..n : g[m] = IF m = 0 THEN 0 ELSE g[m - 1] + lens[m]
  <2> TAKE m \in 0..n
  <2>1. CASE m = n
    BY <1>3, <1>4, <2>1
  <2>2. CASE m # n
    <3>1. m \in 0..n - 1 /\ (m # 0 => m - 1 \in 0..n /\ m - 1 # n)
      BY <1>4, <2>2
    <3> QED BY <1>6, <2>2, <3>1
  <2> QED BY <2>1, <2>2
<1>8. IsSum(g, lens, n)
  <2>1. g = [m \in 0..n |-> g[m]]
    OBVIOUS
  <2> HIDE DEF g
  <2> QED BY <1>7, <2>1 DEF IsSum
<1> QED BY <1>2, <1>8

LEMMA SumsAgree ==
  ASSUME NEW lens, NEW f, NEW g, NEW j \in Nat, NEW k \in Nat, IsSum(f, lens, j), IsSum(g, lens, k)
  PROVE  \A n \in Nat : n <= j /\ n <= k => f[n] = g[n]
<1> DEFINE Fails == {n \in Nat : n <= j /\ n <= k /\ f[n] # g[n]}
<1>1. SUFFICES ASSUME Fails # {} PROVE FALSE
  OBVIOUS
<1>2. PICK n \in Fails : \A m \in Fails : n <= m
  <2> HIDE DEF Fails
  <2>1. Fails \subseteq Nat
    BY DEF Fails
  <2> QED BY <1>1, <2>1, LeastNumber
<1>3. n \in 0..j /\ n \in 0..k
  BY <1>2
<1>4. /\ f[n] = IF n = 0 THEN 0 ELSE f[n - 1] + lens[n]
      /\ g[n] = IF n = 0 THEN 0 ELSE g[n - 1] + lens[n]
  BY <1>3 DEF IsSum
<1>5. n # 0 => f[n - 1] = g[n - 1]
  BY <1>2
<1> QED BY <1>2, <1>4, <1>5

LEMMA TotalStep ==
  ASSUME NEW lens, NEW k \in Nat
  PROVE  Total(lens, k) = IF k = 0 THEN 0 ELSE Total(lens, k - 1) + lens[k]
<1> DEFINE F(n) == CHOOSE f : IsSum(f, lens, n)
<1>1. \A n \in Nat : IsSum(F(n), lens, n) /\ Total(lens, n) = F(n)[n]
  BY SumExists DEF Total, IsSum
<1> HIDE DEF F
<1>2. F(k)[k] = IF k = 0 THEN 0 ELSE F(k)[k - 1] + lens[k]
  BY <1>1 DEF IsSum
<1>3. k # 0 => F(k)[k - 1] = F(k - 1)[k - 1]
  <2>1. ASSUME k # 0 PROVE F(k)[k - 1] = F(k - 1)[k - 1]
    <3>1. k - 1 \in Nat /\ k - 1 <= k
      BY <2>1
    <3>2. IsSum(F(k), lens, k) /\ IsSum(F(k - 1), lens, k - 1)
      BY <1>1, <3>1
    <3> QED BY <3>1, <3>2, SumsAgree
  <2> QED BY <2>1
<1> QED BY <1>1, <1>2, <1>3

LEMMA TotalNat ==
  ASSUME NEW lens, NEW n \in Nat, \A i \in 1..n : lens[i] \in Nat
  PROVE  \A k \in 0..n : Total(lens, k) \in Nat
<1> DEFINE Fails == {k \in Nat : k <= n /\ Total(lens, k) \notin Nat}
<1>1. SUFFICES ASSUME Fails # {} PROVE FALSE
  OBVIOUS
<1>2. PICK k \in Fails : \A m \in Fails : k <= m
  <2> HIDE DEF Fails
  <2>1. Fails \subseteq Nat
    BY DEF Fails
  <2> QED BY <1>1, <2>1, LeastNumber
<1>3. k \in Nat /\ k <= n /\ Total(lens, k) \notin Nat
  BY <1>2
<1>4. CASE k = 0
  BY <1>3, <1>4, TotalStep
<1>5. CASE k # 0
  <2>1. k - 1 \in Nat /\ k - 1 <= n /\ k - 1 \notin Fails
    BY <1>2, <1>3, <1>5
  <2>2. Total(lens, k - 1) \in Nat
    BY <2>1
  <2>3. Total(lens, k) = Total(lens, k - 1) + lens[k]
    BY <1>3, <1>5, TotalStep
  <2>4. lens[k] \in Nat
    BY <1>3, <1>5
  <2> HIDE DEF Fails
  <2> QED BY <1>3, <2>2, <2>3, <2>4
<1> QED BY <1>4, <1>5

\* What InOrder picks is all of the set, in ascending order.
LEMMA InOrderIs ==
  ASSUME NEW S, S \subseteq Nat, IsFiniteSet(S)
  PROVE  /\ Cardinality(S) \in Nat
         /\ InOrder(S) \in [1..Cardinality(S) -> S]
         /\ \A m, n \in 1..Cardinality(S) : m < n => InOrder(S)[m] < InOrder(S)[n]
         /\ \A i \in S : \E n \in 1..Cardinality(S) : InOrder(S)[n] = i
<1> DEFINE Upto(i) == {j \in S : j <= i}
<1> DEFINE Rank(i) == Cardinality(Upto(i))
<1> DEFINE N == Cardinality(S)
<1>0. /\ \A i, j \in S : i < j \/ j < i \/ i = j
      /\ \A i, j, k \in S : k <= i /\ i < j => k <= j /\ ~(j <= i)
      /\ \A i \in S : i <= i
  <2>1. \A i \in S : i \in Nat
    OBVIOUS
  <2> QED BY <2>1
<1>1. N \in Nat
  BY FS_CardinalityType
<1>2. \A i \in S : IsFiniteSet(Upto(i)) /\ Rank(i) \in Nat /\ Rank(i) <= N
  <2> TAKE i \in S
  <2>1. Upto(i) \in SUBSET S
    OBVIOUS
  <2> QED BY <2>1, FS_Subset, FS_CardinalityType
<1>3. \A i, j \in S : i < j => Rank(i) < Rank(j)
  <2> TAKE i, j \in S
  <2> HAVE i < j
  <2>1. Upto(i) \in SUBSET Upto(j) /\ j \in Upto(j) /\ j \notin Upto(i)
    BY <1>0
  <2>2. Rank(i) <= Rank(j) /\ Rank(i) # Rank(j)
    <3> HIDE DEF Upto
    <3> QED BY <1>2, <2>1, FS_Subset
  <2> HIDE DEF Upto, Rank
  <2> QED BY <1>2, <2>2
<1>4. \A i \in S : Rank(i) \in 1..N
  <2> TAKE i \in S
  <2>1. i \in Upto(i)
    BY <1>0
  <2>2. Rank(i) # 0
    <3> HIDE DEF Upto
    <3> QED BY <1>2, <2>1, FS_EmptySet
  <2> HIDE DEF Upto, Rank, N
  <2> QED BY <1>1, <1>2, <2>2
<1>11. \A i, j \in S : /\ Rank(i) = Rank(j) => i = j
                       /\ Rank(i) < Rank(j) => i < j
  <2> HIDE DEF Upto, Rank, N
  <2> TAKE i, j \in S
  <2>1. Rank(i) \in Nat /\ Rank(j) \in Nat
    BY <1>2
  <2>2. /\ i < j => Rank(i) < Rank(j)
        /\ j < i => Rank(j) < Rank(i)
    BY <1>3
  <2> QED BY <1>0, <2>1, <2>2
<1> DEFINE f == [i \in S |-> Rank(i)]
<1>5. f \in Surjection(S, 1..N)
  <2> HIDE DEF Upto, Rank, N
  <2>1. f \in [S -> 1..N]
    BY <1>4
  <2>2. \A i, j \in S : f[i] = f[j] => i = j
    <3> TAKE i, j \in S
    <3>1. f[i] = Rank(i) /\ f[j] = Rank(j)
      OBVIOUS
    <3>2. Rank(i) = Rank(j) => i = j
      BY <1>11
    <3> HIDE DEF f
    <3> QED BY <3>1, <3>2
  <2>3. f \in Injection(S, 1..N)
    <3> HIDE DEF f
    <3> QED BY <2>1, <2>2 DEF Injection, IsInjective
  <2>4. IsFiniteSet(1..N) /\ Cardinality(1..N) = N
    BY <1>1, FS_Interval
  <2> QED BY <2>3, <2>4, FS_Injection DEF N
<1>6. \A n \in 1..N : \E i \in S : Rank(i) = n
  <2> HIDE DEF Upto, Rank, N
  <2> QED BY <1>5 DEF Surjection
<1>7. \A n \in 1..N : InOrder(S)[n] \in S /\ Rank(InOrder(S)[n]) = n
  BY <1>6 DEF InOrder
<1>8. InOrder(S) \in [1..N -> S]
  BY <1>7 DEF InOrder
<1> HIDE DEF Upto, Rank, N
<1>9. \A m, n \in 1..N : m < n => InOrder(S)[m] < InOrder(S)[n]
  <2> TAKE m, n \in 1..N
  <2>1. InOrder(S)[m] \in S /\ Rank(InOrder(S)[m]) = m
    BY <1>7
  <2>2. InOrder(S)[n] \in S /\ Rank(InOrder(S)[n]) = n
    BY <1>7
  <2>3. Rank(InOrder(S)[m]) < Rank(InOrder(S)[n]) => InOrder(S)[m] < InOrder(S)[n]
    BY <1>11, <2>1, <2>2
  <2> QED BY <2>1, <2>2, <2>3
<1>10. \A i \in S : InOrder(S)[Rank(i)] = i
  <2> TAKE i \in S
  <2>1. Rank(i) \in 1..N
    BY <1>4
  <2>2. InOrder(S)[Rank(i)] \in S /\ Rank(InOrder(S)[Rank(i)]) = Rank(i)
    BY <1>7, <2>1
  <2>3. Rank(InOrder(S)[Rank(i)]) = Rank(i) => InOrder(S)[Rank(i)] = i
    BY <1>11, <2>2
  <2> QED BY <2>2, <2>3
<1> QED BY <1>1, <1>4, <1>8, <1>9, <1>10 DEF N

LEMMA TotalGrows ==
  ASSUME NEW lens, NEW n \in Nat, \A i \in 1..n : lens[i] \in Nat
  PROVE  \A j, k \in 0..n : j <= k => Total(lens, j) <= Total(lens, k)
<1> SUFFICES ASSUME NEW j \in 0..n
             PROVE  \A k \in 0..n : j <= k => Total(lens, j) <= Total(lens, k)
  OBVIOUS
<1> DEFINE Fails == {k \in Nat : j <= k /\ k <= n /\ ~(Total(lens, j) <= Total(lens, k))}
<1>1. SUFFICES ASSUME Fails # {} PROVE FALSE
  OBVIOUS
<1>2. PICK k \in Fails : \A m \in Fails : k <= m
  <2> HIDE DEF Fails
  <2>1. Fails \subseteq Nat
    BY DEF Fails
  <2> QED BY <1>1, <2>1, LeastNumber
<1>3. k \in Nat /\ j <= k /\ k <= n /\ ~(Total(lens, j) <= Total(lens, k))
  BY <1>2
<1>4. Total(lens, j) \in Nat /\ Total(lens, k) \in Nat
  BY <1>3, TotalNat
<1>5. k # j
  BY <1>3, <1>4
<1>6. k - 1 \in Nat /\ j <= k - 1 /\ k - 1 <= n /\ k - 1 \notin Fails /\ k # 0
  BY <1>2, <1>3, <1>5
<1>7. Total(lens, j) <= Total(lens, k - 1)
  BY <1>6
<1>8. Total(lens, k) = Total(lens, k - 1) + lens[k]
  BY <1>3, <1>6, TotalStep
<1>9. lens[k] \in Nat /\ Total(lens, k - 1) \in Nat
  <2>1. k \in 1..n /\ k - 1 \in 0..n
    BY <1>3, <1>6
  <2> QED BY <2>1, TotalNat
<1> HIDE DEF Fails
<1> QED BY <1>3, <1>4, <1>7, <1>8, <1>9

-----------------------------------------------------------------------------
(***************************************************************************)
(* The compaction plan.                                                    *)
(***************************************************************************)

\* The entries lie one behind the other.
Apart(list) == \A i, j \in DOMAIN list : i < j => list[i].off + list[i].len <= list[j].off

\* The kept entries are entries of the index in their order, those of user
\* texts and final answers among them.
LEMMA KeptFacts ==
  ASSUME idx \in Seq(Entry)
  PROVE  /\ Len(KeptPositions) \in Nat /\ Len(KeptPositions) <= Len(idx)
         /\ KeptPositions \in [1..Len(KeptPositions) -> 1..Len(idx)]
         /\ \A m, n \in 1..Len(KeptPositions) : m < n => KeptPositions[m] < KeptPositions[n]
         /\ \A i \in 1..Len(idx) : KeepRecord(i) =>
              \E n \in 1..Len(KeptPositions) : KeptPositions[n] = i
         /\ \A n \in 1..Len(KeptPositions) : KeepRecord(KeptPositions[n])
         /\ Kept \in Seq(Entry) /\ Len(Kept) = Len(KeptPositions)
         /\ DOMAIN Kept = 1..Len(KeptPositions)
         /\ \A k \in 1..Len(KeptPositions) : Kept[k] = idx[KeptPositions[k]]
<1> DEFINE S == {i \in DOMAIN idx : KeepRecord(i)}
<1> DEFINE N == Cardinality(S)
<1>1. Len(idx) \in Nat /\ DOMAIN idx = 1..Len(idx) /\ \A i \in 1..Len(idx) : idx[i] \in Entry
  OBVIOUS
<1>2. IsFiniteSet(1..Len(idx)) /\ Cardinality(1..Len(idx)) = Len(idx)
  <2> DEFINE l == Len(idx)
  <2>1. 0 \in Int /\ 1 \in Int /\ l \in Int /\ l >= 0 /\ l - 1 + 1 = l
    BY <1>1
  <2> HIDE DEF l
  <2>2. IsFiniteSet(1..l) /\ Cardinality(1..l) = IF 1 > l THEN 0 ELSE l - 1 + 1
    BY <2>1, FS_Interval
  <2>3. Cardinality(1..l) = l
    BY <2>1, <2>2
  <2> QED BY <2>2, <2>3 DEF l
<1>3. S \in SUBSET (1..Len(idx)) /\ S \subseteq Nat
  BY <1>1
<1>4. IsFiniteSet(S) /\ N \in Nat /\ N <= Len(idx)
  <2> HIDE DEF S
  <2> QED BY <1>2, <1>3, FS_Subset, FS_CardinalityType
<1>5. KeptPositions = InOrder(S)
  BY DEF KeptPositions
<1>6. (\A i \in 1..Len(idx) : KeepRecord(i) => i \in S) /\ (\A i \in S : KeepRecord(i))
  BY <1>1
<1> HIDE DEF S
<1>7. /\ InOrder(S) \in [1..N -> S]
      /\ \A m, n \in 1..N : m < n => InOrder(S)[m] < InOrder(S)[n]
      /\ \A i \in S : \E n \in 1..N : InOrder(S)[n] = i
  BY <1>3, <1>4, InOrderIs
<1> HIDE DEF N
<1>8. KeptPositions \in [1..N -> 1..Len(idx)] /\ Len(KeptPositions) = N
  <2>1. KeptPositions \in [1..N -> 1..Len(idx)]
    BY <1>3, <1>5, <1>7
  <2>2. KeptPositions \in Seq(1..Len(idx)) /\ DOMAIN KeptPositions = 1..N
    BY <1>4, <2>1
  <2> QED BY <1>4, <2>1, <2>2
<1>9. Kept = [k \in 1..N |-> idx[KeptPositions[k]]]
  BY <1>8 DEF Kept
<1>10. Kept \in Seq(Entry) /\ Len(Kept) = N /\ DOMAIN Kept = 1..N
       /\ \A k \in 1..N : Kept[k] = idx[KeptPositions[k]]
  BY <1>1, <1>4, <1>8, <1>9
<1>11. \A n \in 1..Len(KeptPositions) : KeepRecord(KeptPositions[n])
  BY <1>5, <1>6, <1>7, <1>8
<1> QED BY <1>4, <1>5, <1>6, <1>7, <1>8, <1>10, <1>11

\* A kept record goes right behind those before it.
LEMMA OffsetStep ==
  ASSUME idx \in Seq(Entry)
  PROVE  /\ NewOffset(1) = 0
         /\ \A k \in 1..Len(Kept) + 1 : NewOffset(k) \in Nat
         /\ \A k \in 1..Len(Kept) : NewOffset(k + 1) = NewOffset(k) + Kept[k].len
         /\ \A j, k \in 1..Len(Kept) + 1 : j <= k => NewOffset(j) <= NewOffset(k)
<1> DEFINE lens == [i \in DOMAIN Kept |-> Kept[i].len]
<1> DEFINE n == Len(Kept)
<1>1. n \in Nat /\ DOMAIN Kept = 1..n /\ \A i \in 1..n : Kept[i] \in Entry
  BY KeptFacts
<1>2. \A i \in 1..n : lens[i] = Kept[i].len /\ lens[i] \in Nat
  BY <1>1 DEF Entry
<1>3. \A k : NewOffset(k) = Total(lens, k - 1)
  BY DEF NewOffset
<1> HIDE DEF lens, n
<1>4. \A k \in 0..n : Total(lens, k) \in Nat
  BY <1>1, <1>2, TotalNat
<1>5. NewOffset(1) = 0
  <2>1. Total(lens, 0) = 0
    BY TotalStep
  <2> QED BY <1>3, <2>1
<1>6. \A k \in 1..n + 1 : NewOffset(k) \in Nat
  BY <1>1, <1>3, <1>4
<1>7. ASSUME NEW k \in 1..n PROVE NewOffset(k + 1) = NewOffset(k) + Kept[k].len
  <2>1. Total(lens, k) = Total(lens, k - 1) + lens[k]
    BY <1>1, TotalStep
  <2>2. k + 1 - 1 = k
    BY <1>1
  <2> QED BY <1>2, <1>3, <2>1, <2>2
<1>8. ASSUME NEW j \in 1..n + 1, NEW k \in 1..n + 1, j <= k PROVE NewOffset(j) <= NewOffset(k)
  <2>1. j - 1 \in 0..n /\ k - 1 \in 0..n /\ j - 1 <= k - 1
    BY <1>1, <1>8
  <2>2. Total(lens, j - 1) <= Total(lens, k - 1)
    BY <1>1, <1>2, <2>1, TotalGrows
  <2> QED BY <1>3, <2>2
<1> QED BY <1>5, <1>6, <1>7, <1>8 DEF n

\* Moving a kept record never moves it to the right.
LEMMA OffsetsShrink ==
  ASSUME idx \in Seq(Entry), Apart(Kept)
  PROVE  \A k \in 1..Len(Kept) : NewOffset(k) <= Kept[k].off
<1> DEFINE Fails == {k \in Nat : k >= 1 /\ k <= Len(Kept) /\ ~(NewOffset(k) <= Kept[k].off)}
<1>1. SUFFICES ASSUME Fails # {} PROVE FALSE
  BY KeptFacts
<1>2. PICK k \in Fails : \A m \in Fails : k <= m
  <2> HIDE DEF Fails
  <2>1. Fails \subseteq Nat
    BY DEF Fails
  <2> QED BY <1>1, <2>1, LeastNumber
<1>3. k \in Nat /\ k >= 1 /\ k <= Len(Kept) /\ ~(NewOffset(k) <= Kept[k].off)
  BY <1>2
<1>4. Len(Kept) \in Nat /\ DOMAIN Kept = 1..Len(Kept) /\ \A i \in 1..Len(Kept) : Kept[i] \in Entry
  BY KeptFacts
<1>5. Kept[k].off \in Nat
  BY <1>3, <1>4 DEF Entry
<1>6. k # 1
  BY <1>3, <1>5, OffsetStep
<1>7. k - 1 \in Nat /\ k - 1 >= 1 /\ k - 1 <= Len(Kept) /\ k - 1 \notin Fails
  BY <1>2, <1>3, <1>4, <1>6
<1>8. NewOffset(k - 1) <= Kept[k - 1].off
  BY <1>7
<1> HIDE DEF Fails
<1>9. k - 1 \in 1..Len(Kept) /\ k \in 1..Len(Kept) /\ k - 1 + 1 = k /\ k - 1 < k
  BY <1>3, <1>4, <1>7
<1>10. NewOffset(k) = NewOffset(k - 1) + Kept[k - 1].len
  BY <1>9, OffsetStep
<1>11. Kept[k - 1].off + Kept[k - 1].len <= Kept[k].off
  BY <1>4, <1>9 DEF Apart
<1>12. Kept[k - 1].off \in Nat /\ Kept[k - 1].len \in Nat /\ NewOffset(k - 1) \in Nat
  <2>1. Kept[k - 1].off \in Nat /\ Kept[k - 1].len \in Nat
    BY <1>4, <1>9 DEF Entry
  <2>2. k - 1 \in 1..Len(Kept) + 1
    BY <1>4, <1>9
  <2> QED BY <2>1, <2>2, OffsetStep
<1> QED BY <1>3, <1>5, <1>8, <1>10, <1>11, <1>12

-----------------------------------------------------------------------------
(***************************************************************************)
(* The inductive invariant.                                                *)
(***************************************************************************)

Record == [type : Types, len : Nat \ {0}]

\* The record whose text an entry starts with.
Held(cells, e) == cells[e.off + 1][1]

\* An entry with its record: the text is whole, under its type.
Good(cells, records, e) ==
  LET id == Held(cells, e)
  IN  /\ e.off + e.len <= Len(cells)
      /\ id \in DOMAIN records
      /\ records[id].type = e.type /\ records[id].len = e.len
      /\ \A k \in 1..e.len : cells[e.off + k] = <<id, k>>

Spoken == {"user", "final"}

\* A list of entries reads records up to the given one in order, the user texts
\* and final answers among the given ones with them.
Whole(cells, list, records, last, ids) ==
  /\ \A i \in DOMAIN list : Good(cells, records, list[i]) /\ Held(cells, list[i]) <= last
  /\ Apart(list)
  /\ \A i, j \in DOMAIN list : i < j => Held(cells, list[i]) < Held(cells, list[j])
  /\ \A id \in ids : records[id].type \in Spoken =>
       \E i \in DOMAIN list : Held(cells, list[i]) = id

\* The kept entries while their records move.
Moving(k) ==
  [i \in DOMAIN Kept |-> IF i <= k THEN [Kept[i] EXCEPT !.off = NewOffset(i)] ELSE Kept[i]]

HistoryTypes ==
  /\ rec \in Seq(Record) /\ Len(rec) <= MaxRecords
  /\ data = Missing \/ data \in Seq(Cell)
  /\ idx = Missing \/ idx = Torn \/ (idx \in Seq(Entry) /\ Len(idx) + Len(batch) <= Len(rec))
  /\ blocked \in BOOLEAN
  /\ pc \in {"idle", "recreate", "append", "closeIdx", "compact", "rewrite", "truncate"}
  /\ moved \in Nat /\ (moved # 0 => pc \in {"rewrite", "truncate"})
  /\ turnOpen \in BOOLEAN
  /\ deleter \in {"none", "idx", "marker"}
  /\ breaks \in 0..MaxBreaks
  /\ acked \subseteq 1..Len(rec)
  /\ damaged \in BOOLEAN /\ settled \in BOOLEAN

\* The records of the batch are the last ones handed over.
BatchLast ==
  /\ batch \in Seq(Nat) /\ Len(batch) \in 0..2 /\ Len(batch) <= Len(rec)
  /\ \A i \in 1..Len(batch) : batch[i] = Len(rec) - Len(batch) + i
  /\ batch # <<>> => pc \in {"recreate", "append", "closeIdx"}
  /\ pc \in {"append", "closeIdx"} => batch # <<>>

IdlePair ==
  pc \in {"idle", "compact"} /\ ValidPair /\ ~damaged =>
    Whole(data, idx, rec, Len(rec), acked)

RecreatePair == pc = "recreate" => data = <<>>

AppendPair ==
  pc = "append" =>
    /\ ValidPair
    /\ ~damaged => Whole(data, idx, rec, Len(rec) - Len(batch), acked)

\* The batch has been written behind the data of the index.
ClosePair ==
  pc = "closeIdx" =>
    /\ idx \in Seq(Entry)
    /\ \E base \in Seq(Cell) :
         /\ data = base \o BatchCells
         /\ ~damaged => Whole(base, idx, rec, Len(rec) - Len(batch), acked)

RewritePair ==
  pc = "rewrite" =>
    /\ ValidPair
    /\ CompactedSize <= SizeLimit /\ SizeLimit < Len(data) /\ moved <= Len(Kept)
    /\ ~damaged => Apart(Kept) /\ Whole(data, Moving(moved), rec, Len(rec), acked)

TruncatePair ==
  pc = "truncate" =>
    /\ data \in Seq(Cell) /\ idx \in Seq(Entry) /\ moved <= Len(idx)
    /\ Len(data) <= SizeLimit
    /\ ~damaged => Whole(data, SubSeq(idx, 1, moved), rec, Len(rec), acked)

Settled ==
  /\ settled => pc = "idle" \/ (pc = "recreate" /\ batch = <<>>)
  /\ SizeSettled

\* Nothing that must stay was acknowledged while the index is empty.
EmptyIdx == idx = <<>> /\ ~damaged => \A id \in acked : rec[id].type \notin Spoken

HistoryInv ==
  /\ HistoryTypes /\ BatchLast /\ IdlePair /\ RecreatePair /\ AppendPair /\ ClosePair
  /\ RewritePair /\ TruncatePair /\ EmptyIdx /\ Settled

-----------------------------------------------------------------------------
(***************************************************************************)
(* Entries and the records they read.                                      *)
(***************************************************************************)

\* Records stay as they are.
Extends(r1, r2) == \A id \in DOMAIN r1 : id \in DOMAIN r2 /\ r2[id] = r1[id]

\* What an entry reads depends on its cells only, and records stay as they are.
LEMMA GoodMoves ==
  ASSUME NEW c1, NEW c2, NEW r1, NEW r2, NEW e1 \in Entry, NEW e2 \in Entry,
         Good(c1, r1, e1),
         e2.len = e1.len, e2.type = e1.type, e2.off + e2.len <= Len(c2),
         \A k \in 1..e1.len : c2[e2.off + k] = c1[e1.off + k],
         Extends(r1, r2)
  PROVE  Good(c2, r2, e2) /\ Held(c2, e2) = Held(c1, e1)
<1>1. 1 \in 1..e1.len
  BY DEF Entry
<1>2. Held(c2, e2) = Held(c1, e1)
  BY <1>1 DEF Held
<1> QED BY <1>2 DEF Good, Extends

\* Entries read records, so they hold their numbers.
LEMMA HeldNumber ==
  ASSUME NEW c, NEW r \in Seq(Record), NEW e \in Entry, Good(c, r, e)
  PROVE  Held(c, e) \in 1..Len(r) /\ r[Held(c, e)] \in Record
BY DEF Good

\* The entries of one list read in one file what those of the other read in the
\* other.
SameText(c1, l1, c2, l2) ==
  /\ l1 \in Seq(Entry) /\ l2 \in Seq(Entry) /\ DOMAIN l2 = DOMAIN l1 /\ Apart(l2)
  /\ \A i \in DOMAIN l1 :
       /\ l2[i].len = l1[i].len /\ l2[i].type = l1[i].type
       /\ l2[i].off + l2[i].len <= Len(c2)
       /\ \A k \in 1..l1[i].len : c2[l2[i].off + k] = c1[l1[i].off + k]

\* The records that a list of entries reads.
Reads(cells, list) == {Held(cells, list[i]) : i \in DOMAIN list}

LEMMA SameReads ==
  ASSUME NEW c1, NEW l1, NEW c2, NEW l2, SameText(c1, l1, c2, l2)
  PROVE  Reads(c2, l2) = Reads(c1, l1)
<1>1. DOMAIN l2 = DOMAIN l1
  BY DEF SameText
<1>2. ASSUME NEW i \in DOMAIN l1 PROVE Held(c2, l2[i]) = Held(c1, l1[i])
  <2>1. l1[i] \in Entry /\ \A k \in 1..l1[i].len : c2[l2[i].off + k] = c1[l1[i].off + k]
    BY DEF SameText
  <2>2. 1 \in 1..l1[i].len
    BY <2>1 DEF Entry
  <2> QED BY <2>1, <2>2 DEF Held
<1> QED BY <1>1, <1>2 DEF Reads

LEMMA WholeMoves ==
  ASSUME NEW c1, NEW c2, NEW r1 \in Seq(Record), NEW r2, NEW l1, NEW l2,
         NEW m \in Int, NEW d1, NEW d2,
         Whole(c1, l1, r1, m, d1), SameText(c1, l1, c2, l2), Extends(r1, r2),
         d2 \subseteq d1, d1 \subseteq 1..Len(r1)
  PROVE  Whole(c2, l2, r2, m, d2)
<1>0. \A id \in DOMAIN r1 : id \in DOMAIN r2 /\ r2[id] = r1[id]
  BY DEF Extends
<1>1. \A i \in DOMAIN l1 : l1[i] \in Entry /\ l2[i] \in Entry /\ Good(c1, r1, l1[i])
  BY DEF Whole, SameText
<1>2. \A i \in DOMAIN l1 : Good(c2, r2, l2[i]) /\ Held(c2, l2[i]) = Held(c1, l1[i])
  <2> TAKE i \in DOMAIN l1
  <2>1. /\ l2[i].len = l1[i].len /\ l2[i].type = l1[i].type
        /\ l2[i].off + l2[i].len <= Len(c2)
        /\ \A k \in 1..l1[i].len : c2[l2[i].off + k] = c1[l1[i].off + k]
    BY DEF SameText
  <2>2. l1[i] \in Entry /\ l2[i] \in Entry /\ Good(c1, r1, l1[i])
    BY <1>1
  <2> DEFINE e1 == l1[i]
  <2> DEFINE e2 == l2[i]
  <2>3. /\ e1 \in Entry /\ e2 \in Entry /\ Good(c1, r1, e1)
        /\ e2.len = e1.len /\ e2.type = e1.type /\ e2.off + e2.len <= Len(c2)
        /\ \A k \in 1..e1.len : c2[e2.off + k] = c1[e1.off + k]
    BY <2>1, <2>2
  <2> HIDE DEF e1, e2
  <2>4. Good(c2, r2, e2) /\ Held(c2, e2) = Held(c1, e1)
    BY <2>3, GoodMoves
  <2> QED BY <2>4 DEF e1, e2
<1>3. \A i \in DOMAIN l1 : Held(c1, l1[i]) \in 1..Len(r1) /\ Held(c1, l1[i]) <= m
  BY <1>1, HeldNumber DEF Whole
<1>4. \A i \in DOMAIN l2 : Good(c2, r2, l2[i]) /\ Held(c2, l2[i]) <= m
  BY <1>2, <1>3 DEF SameText
<1>5. \A i, j \in DOMAIN l2 : i < j => Held(c2, l2[i]) < Held(c2, l2[j])
  BY <1>2 DEF Whole, SameText
<1>6. \A id \in d2 : r2[id].type \in Spoken => \E i \in DOMAIN l2 : Held(c2, l2[i]) = id
  <2> TAKE id \in d2
  <2> HAVE r2[id].type \in Spoken
  <2>1. id \in d1 /\ r1[id].type \in Spoken
    BY <1>0
  <2>2. PICK i \in DOMAIN l1 : Held(c1, l1[i]) = id
    BY <2>1 DEF Whole
  <2> QED BY <1>2, <2>2 DEF SameText
<1> QED BY <1>4, <1>5, <1>6 DEF Whole, SameText

LEMMA WholePicks ==
  ASSUME NEW c, NEW r, NEW m, NEW d, NEW l \in Seq(Entry), Whole(c, l, r, m, d),
         NEW n \in Nat, NEW p \in [1..n -> DOMAIN l],
         \A i, j \in 1..n : i < j => p[i] < p[j],
         \A i \in DOMAIN l : l[i].type \in Spoken => \E k \in 1..n : p[k] = i,
         NEW q, DOMAIN q = 1..n, \A k \in 1..n : q[k] = l[p[k]]
  PROVE  Whole(c, q, r, m, d)
<1>1. \A i \in DOMAIN q : Good(c, r, q[i]) /\ Held(c, q[i]) <= m
  BY DEF Whole
<1>2. Apart(q)
  BY DEF Whole, Apart
<1>3. \A i, j \in DOMAIN q : i < j => Held(c, q[i]) < Held(c, q[j])
  BY DEF Whole
<1>4. \A id \in d : r[id].type \in Spoken => \E i \in DOMAIN q : Held(c, q[i]) = id
  <2> TAKE id \in d
  <2> HAVE r[id].type \in Spoken
  <2>1. PICK i \in DOMAIN l : Held(c, l[i]) = id
    BY DEF Whole
  <2>2. l[i].type = r[id].type
    BY <2>1 DEF Whole, Good
  <2>3. PICK k \in 1..n : p[k] = i
    BY <2>2
  <2> QED BY <2>1, <2>3
<1> QED BY <1>1, <1>2, <1>3, <1>4 DEF Whole

-----------------------------------------------------------------------------
(***************************************************************************)
(* The batch.                                                              *)
(***************************************************************************)

LEMMA Joined ==
  ASSUME NEW S, NEW s \in Seq(S), NEW t \in Seq(S)
  PROVE  /\ s \o t \in Seq(S) /\ Len(s \o t) = Len(s) + Len(t)
         /\ \A k \in 1..Len(s) : (s \o t)[k] = s[k]
         /\ \A k \in 1..Len(t) : (s \o t)[Len(s) + k] = t[k]
<1>1. s \o t \in Seq(S) /\ Len(s \o t) = Len(s) + Len(t) /\ Len(s) \in Nat /\ Len(t) \in Nat
  OBVIOUS
<1>2. \A k \in 1..Len(s) : (s \o t)[k] = s[k]
  OBVIOUS
<1>3. ASSUME NEW k \in 1..Len(t) PROVE (s \o t)[Len(s) + k] = t[k]
  <2>1. /\ Len(s) + k \in 1..Len(s) + Len(t) /\ ~(Len(s) + k <= Len(s))
        /\ Len(s) + k - Len(s) = k
    BY <1>1
  <2> QED BY <2>1
<1> QED BY <1>1, <1>2, <1>3

LEMMA FlattenTwo ==
  ASSUME NEW s, NEW n \in {1, 2}, Len(s) = n
  PROVE  FlattenSeq(s) = IF n = 1 THEN s[1] ELSE s[1] \o s[2]
<1> DEFINE Is(f) == f = [i \in 1..Len(s) |-> IF i = 1 THEN s[i] ELSE f[i - 1] \o s[i]]
<1> DEFINE f == CHOOSE f : Is(f)
<1> DEFINE g == [i \in 1..Len(s) |-> IF i = 1 THEN s[1] ELSE s[1] \o s[2]]
<1>1. Is(g)
  <2>1. \A i \in 1..Len(s) : g[i] = IF i = 1 THEN s[i] ELSE g[i - 1] \o s[i]
    <3> TAKE i \in 1..Len(s)
    <3>1. CASE i = 1
      BY <3>1
    <3>2. CASE i # 1
      <4>1. i = 2 /\ i - 1 = 1 /\ 1 \in 1..Len(s)
        BY <3>2
      <4>2. g[1] = s[1]
        BY <4>1
      <4> QED BY <4>1, <4>2
    <3> QED BY <3>1, <3>2
  <2>2. g = [i \in 1..Len(s) |-> g[i]]
    OBVIOUS
  <2> HIDE DEF g
  <2> QED BY <2>1, <2>2
<1>2. FlattenSeq(s) = f[Len(s)]
  BY DEF FlattenSeq
<1> HIDE DEF g
<1>3. Is(f)
  <2> HIDE DEF Is
  <2> QED BY <1>1
<1> HIDE DEF f
<1>4. f[1] = s[1]
  <2>1. 1 \in 1..Len(s)
    OBVIOUS
  <2> QED BY <1>3, <2>1
<1>5. n = 2 => f[2] = f[1] \o s[2]
  BY <1>3
<1> QED BY <1>2, <1>4, <1>5

\* What the append writes and what it notes in the index agree.
LEMMA BatchWritten ==
  ASSUME HistoryAssumption, HistoryTypes, BatchLast, batch # <<>>, NEW size \in Nat
  PROVE  /\ BatchCells \in Seq(Cell)
         /\ BatchEntries(size) \in Seq(Entry)
         /\ Len(BatchEntries(size)) = Len(batch) /\ DOMAIN BatchEntries(size) = 1..Len(batch)
         /\ Apart(BatchEntries(size))
         /\ \A i \in 1..Len(batch) :
              LET e == BatchEntries(size)[i]
              IN  /\ e.off >= size /\ e.off - size + e.len <= Len(BatchCells)
                  /\ e.type = rec[batch[i]].type /\ e.len = rec[batch[i]].len
                  /\ \A k \in 1..e.len : BatchCells[e.off - size + k] = <<batch[i], k>>
<1>1. Len(batch) \in {1, 2} /\ DOMAIN batch = 1..Len(batch) /\ 1 \in 1..Len(batch)
  BY DEF BatchLast
<1>2. \A i \in 1..Len(batch) : batch[i] \in 1..Len(rec) /\ batch[i] \in 1..MaxRecords
                               /\ rec[batch[i]] \in Record
  <2> TAKE i \in 1..Len(batch)
  <2>1. batch[i] = Len(rec) - Len(batch) + i /\ Len(batch) <= Len(rec) /\ Len(rec) \in Nat
        /\ Len(batch) \in Nat /\ Len(rec) <= MaxRecords /\ MaxRecords \in Nat
    BY DEF BatchLast, HistoryTypes, HistoryAssumption
  <2>2. batch[i] \in 1..Len(rec) /\ batch[i] \in 1..MaxRecords
    BY <2>1
  <2> QED BY <2>2 DEF HistoryTypes
<1>3. \A i \in 1..Len(batch) : rec[batch[i]].len \in Nat \ {0} /\ rec[batch[i]].type \in Types
  BY <1>2 DEF Record
<1> DEFINE L(i) == rec[batch[i]].len
<1> DEFINE C(i) == Cells(batch[i])
<1>4. \A i \in 1..Len(batch) : C(i) \in Seq(Cell) /\ Len(C(i)) = L(i)
                               /\ \A k \in 1..L(i) : C(i)[k] = <<batch[i], k>>
  <2> TAKE i \in 1..Len(batch)
  <2>1. \A k \in 1..L(i) : <<batch[i], k>> \in Cell
    BY <1>2, <1>3 DEF Cell
  <2> QED BY <1>3, <2>1 DEF Cells
<1>5. BatchCells = IF Len(batch) = 1 THEN C(1) ELSE C(1) \o C(2)
  <2> DEFINE s == [i \in DOMAIN batch |-> C(i)]
  <2>1. Len(s) = Len(batch) /\ \A i \in 1..Len(batch) : s[i] = C(i)
    BY <1>1
  <2>2. BatchCells = FlattenSeq(s)
    BY DEF BatchCells
  <2> HIDE DEF s
  <2>3. BatchCells = IF Len(batch) = 1 THEN s[1] ELSE s[1] \o s[2]
    BY <1>1, <2>1, <2>2, FlattenTwo
  <2> QED BY <1>1, <2>1, <2>3
<1> DEFINE T(i) == Total(BatchLens, i)
<1>6. T(0) = 0 /\ T(1) = L(1)
  <2>1. BatchLens[1] = L(1)
    BY <1>1 DEF BatchLens
  <2>2. T(0) = 0 /\ T(1) = T(1 - 1) + BatchLens[1]
    BY TotalStep
  <2> QED BY <1>1, <1>3, <2>1, <2>2
<1> DEFINE es == BatchEntries(size)
<1>7. /\ DOMAIN es = 1..Len(batch)
      /\ \A i \in 1..Len(batch) :
           es[i] = [off |-> size + T(i - 1), len |-> L(i), type |-> rec[batch[i]].type]
      /\ es = [i \in 1..Len(batch) |-> es[i]]
  BY <1>1 DEF BatchEntries
<1> HIDE DEF C, L, T, es
<1>8. \A i \in 1..Len(batch) : L(i) \in Nat \ {0}
  BY <1>3 DEF L
<1>9. \A i \in 1..Len(batch) : T(i - 1) \in Nat /\ T(i - 1) + L(i) <= Len(BatchCells)
                               /\ \A k \in 1..L(i) : BatchCells[T(i - 1) + k] = <<batch[i], k>>
  <2> TAKE i \in 1..Len(batch)
  <2>1. CASE i = 1
    <3>1. T(i - 1) = 0 /\ L(1) \in Nat /\ Len(C(1)) = L(1) /\ C(1) \in Seq(Cell)
      BY <1>1, <1>4, <1>6, <1>8, <2>1
    <3>2. CASE Len(batch) = 1
      BY <1>4, <1>5, <2>1, <3>1, <3>2
    <3>3. CASE Len(batch) = 2
      <4>1. 2 \in 1..Len(batch) /\ C(2) \in Seq(Cell) /\ BatchCells = C(1) \o C(2)
        BY <1>4, <1>5, <3>3
      <4>2. Len(BatchCells) = L(1) + Len(C(2)) /\ Len(C(2)) \in Nat
            /\ \A k \in 1..L(1) : BatchCells[k] = C(1)[k]
        BY <3>1, <4>1
      <4> QED BY <1>4, <2>1, <3>1, <4>2
    <3> QED BY <1>1, <3>2, <3>3
  <2>2. CASE i = 2
    <3>1. Len(batch) = 2 /\ 2 \in 1..Len(batch)
      BY <1>1, <2>2
    <3>2. T(i - 1) = L(1) /\ L(1) \in Nat /\ L(2) \in Nat
          /\ C(1) \in Seq(Cell) /\ C(2) \in Seq(Cell) /\ Len(C(1)) = L(1) /\ Len(C(2)) = L(2)
      BY <1>1, <1>4, <1>6, <1>8, <2>2, <3>1
    <3>3. BatchCells = C(1) \o C(2)
      BY <1>5, <3>1
    <3>4. Len(BatchCells) = L(1) + L(2)
          /\ \A k \in 1..L(2) : BatchCells[L(1) + k] = C(2)[k]
      <4>1. /\ Len(C(1) \o C(2)) = Len(C(1)) + Len(C(2))
            /\ \A k \in 1..Len(C(2)) : (C(1) \o C(2))[Len(C(1)) + k] = C(2)[k]
        BY <3>2, Joined
      <4> QED BY <3>2, <3>3, <4>1
    <3> QED BY <1>4, <2>2, <3>1, <3>2, <3>4
  <2> QED BY <1>1, <2>1, <2>2
<1>10. BatchCells \in Seq(Cell)
  <2>1. C(1) \in Seq(Cell) /\ (Len(batch) # 1 => C(2) \in Seq(Cell))
    BY <1>1, <1>4
  <2> QED BY <1>5, <2>1
<1>11. \A i \in 1..Len(batch) : es[i] \in Entry
  BY <1>3, <1>7, <1>8, <1>9 DEF Entry
<1>12. es \in Seq(Entry) /\ Len(es) = Len(batch)
  <2>1. Len(batch) \in Nat
    BY <1>1
  <2> QED BY <1>7, <1>11, <2>1
<1>13. Apart(es)
  <2> SUFFICES ASSUME NEW i \in 1..Len(batch), NEW j \in 1..Len(batch), i < j
               PROVE  es[i].off + es[i].len <= es[j].off
    BY <1>7 DEF Apart
  <2>1. i = 1 /\ j = 2 /\ Len(batch) = 2
    BY <1>1
  <2>2. es[1].off = size + T(0) /\ es[1].len = L(1) /\ es[2].off = size + T(1)
    BY <1>7, <2>1
  <2> QED BY <1>1, <1>6, <1>8, <2>1, <2>2
<1>14. ASSUME NEW i \in 1..Len(batch)
       PROVE  /\ es[i].off >= size /\ es[i].off - size + es[i].len <= Len(BatchCells)
              /\ es[i].type = rec[batch[i]].type /\ es[i].len = rec[batch[i]].len
              /\ \A k \in 1..es[i].len : BatchCells[es[i].off - size + k] = <<batch[i], k>>
  <2>1. es[i].off = size + T(i - 1) /\ es[i].len = L(i) /\ es[i].type = rec[batch[i]].type
    BY <1>7
  <2>2. T(i - 1) \in Nat /\ es[i].off - size = T(i - 1) /\ es[i].off >= size
    BY <1>9, <2>1
  <2> QED BY <1>9, <2>1, <2>2 DEF L
<1> QED BY <1>7, <1>10, <1>12, <1>13, <1>14 DEF es

LEMMA Retyped ==
  ASSUME NEW S, NEW T, NEW s \in Seq(S), \A i \in 1..Len(s) : s[i] \in T
  PROVE  s \in Seq(T)
<1>1. s = [i \in 1..Len(s) |-> s[i]] /\ Len(s) \in Nat
  OBVIOUS
<1> QED BY <1>1

LEMMA Prefix ==
  ASSUME NEW S, NEW s \in Seq(S), NEW n \in 0..Len(s)
  PROVE  SubSeq(s, 1, n) \in Seq(S) /\ Len(SubSeq(s, 1, n)) = n
         /\ \A k \in 1..n : SubSeq(s, 1, n)[k] = s[k]
OBVIOUS

LEMMA JoinedPrefix ==
  ASSUME NEW S, NEW s \in Seq(S), NEW t \in Seq(S), NEW n \in 0..Len(t)
  PROVE  /\ s \o SubSeq(t, 1, n) \in Seq(S) /\ Len(s \o SubSeq(t, 1, n)) = Len(s) + n
         /\ \A k \in 1..Len(s) : (s \o SubSeq(t, 1, n))[k] = s[k]
         /\ \A k \in 1..n : (s \o SubSeq(t, 1, n))[Len(s) + k] = t[k]
<1> DEFINE u == SubSeq(t, 1, n)
<1>1. u \in Seq(S) /\ Len(u) = n /\ (\A k \in 1..n : u[k] = t[k])
  BY Prefix
<1> HIDE DEF u
<1>2. /\ s \o u \in Seq(S) /\ Len(s \o u) = Len(s) + Len(u)
      /\ \A k \in 1..Len(s) : (s \o u)[k] = s[k]
      /\ \A k \in 1..Len(u) : (s \o u)[Len(s) + k] = u[k]
  <2>1. u \in Seq(S)
    BY <1>1
  <2> QED BY <2>1, Joined
<1>3. s \o u \in Seq(S) /\ Len(s \o u) = Len(s) + n
  BY <1>1, <1>2
<1>4. \A k \in 1..Len(s) : (s \o u)[k] = s[k]
  BY <1>2
<1>5. \A k \in 1..n : (s \o u)[Len(s) + k] = t[k]
  BY <1>1, <1>2
<1> QED BY <1>3, <1>4, <1>5 DEF u

\* A batch appended to data and index, as far as both were written; the entries
\* lie within the data.
AppendedUpTo(base, list, n, m, cells, out) ==
  /\ base \in Seq(Cell) /\ list \in Seq(Entry) /\ n \in 0..Len(BatchCells) /\ m \in 0..Len(batch)
  /\ cells = base \o SubSeq(BatchCells, 1, n)
  /\ out = list \o SubSeq(BatchEntries(Len(base)), 1, m)
  /\ \A i \in DOMAIN out : out[i].off + out[i].len <= Len(cells)

\* The first records of the batch are held.
HoldsBatch(cells, out, m) ==
  \A i \in 1..m : \E j \in DOMAIN out : Held(cells, out[j]) = batch[i]

\* The first records handed over.
Handed(m) == {batch[i] : i \in 1..m}

ReadsHanded(base, list, m, cells, out) ==
  Reads(cells, out) = Reads(base, list) \cup Handed(m)

\* As much of the batch as was written, with the entries that fit it.
LEMMA Appended ==
  ASSUME HistoryAssumption, HistoryTypes, BatchLast, batch # <<>>,
         NEW base, NEW list, NEW ids, NEW n, NEW m, NEW cells, NEW out,
         ids \subseteq 1..Len(rec),
         Whole(base, list, rec, Len(rec) - Len(batch), ids),
         AppendedUpTo(base, list, n, m, cells, out)
  PROVE  /\ Whole(cells, out, rec, Len(rec), ids)
         /\ HoldsBatch(cells, out, m)
         /\ ReadsHanded(base, list, m, cells, out)
<1>0. /\ base \in Seq(Cell) /\ list \in Seq(Entry) /\ n \in 0..Len(BatchCells)
      /\ m \in 0..Len(batch)
      /\ cells = base \o SubSeq(BatchCells, 1, n)
      /\ out = list \o SubSeq(BatchEntries(Len(base)), 1, m)
  BY DEF AppendedUpTo
<1> DEFINE size == Len(base)
<1> DEFINE q == Len(list)
<1> DEFINE es == BatchEntries(size)
<1> DEFINE last == Len(rec) - Len(batch)
<1>1. size \in Nat /\ q \in Nat /\ DOMAIN list = 1..q /\ m \in Nat
      /\ (\A i \in 1..q : list[i] \in Entry)
  <2>1. m \in Nat
    BY <1>0 DEF BatchLast
  <2> QED BY <1>0, <2>1
<1>2. /\ BatchCells \in Seq(Cell) /\ es \in Seq(Entry) /\ Len(es) = Len(batch)
      /\ DOMAIN es = 1..Len(batch) /\ Apart(es)
      /\ \A i \in 1..Len(batch) :
           /\ es[i].off >= size /\ es[i].off - size + es[i].len <= Len(BatchCells)
           /\ es[i].type = rec[batch[i]].type /\ es[i].len = rec[batch[i]].len
           /\ \A k \in 1..es[i].len : BatchCells[es[i].off - size + k] = <<batch[i], k>>
  BY <1>1, BatchWritten
<1>3. /\ rec \in Seq(Record) /\ Len(rec) \in Nat /\ last \in Nat /\ Len(batch) \in Nat
      /\ last <= Len(rec) /\ last + Len(batch) = Len(rec) /\ m <= Len(batch)
      /\ \A i \in 1..Len(batch) : batch[i] = last + i
  <2>1. rec \in Seq(Record) /\ Len(rec) \in Nat
    BY DEF HistoryTypes
  <2>2. Len(batch) \in Nat /\ Len(batch) <= Len(rec)
    BY DEF BatchLast
  <2>3. \A i \in 1..Len(batch) : batch[i] = last + i
    BY DEF BatchLast
  <2>4. m <= Len(batch)
    BY <1>0, <2>2
  <2> QED BY <2>1, <2>2, <2>3, <2>4
<1> HIDE DEF size, q, es, last
<1>4. /\ Len(cells) = size + n /\ n \in Nat
      /\ \A k \in 1..size : cells[k] = base[k]
      /\ \A k \in 1..n : cells[size + k] = BatchCells[k]
  <2>1. /\ Len(cells) = Len(base) + n
        /\ \A k \in 1..Len(base) : cells[k] = base[k]
        /\ \A k \in 1..n : cells[Len(base) + k] = BatchCells[k]
    BY <1>0, <1>2, JoinedPrefix
  <2>2. n \in Nat
    BY <1>0, <1>2
  <2> QED BY <2>1, <2>2 DEF size
<1>5. /\ out \in Seq(Entry) /\ Len(out) = q + m /\ DOMAIN out = 1..q + m
      /\ \A i \in 1..q : out[i] = list[i]
      /\ \A i \in 1..m : out[q + i] = es[i]
  <2>1. out = list \o SubSeq(es, 1, m) /\ m \in 0..Len(es)
    BY <1>0, <1>2 DEF es, size
  <2>2. /\ out \in Seq(Entry) /\ Len(out) = Len(list) + m
        /\ \A i \in 1..Len(list) : out[i] = list[i]
        /\ \A i \in 1..m : out[Len(list) + i] = es[i]
    BY <1>0, <1>2, <2>1, JoinedPrefix
  <2>3. DOMAIN out = 1..Len(list) + m
    BY <2>2
  <2> QED BY <2>2, <2>3 DEF q
<1>6. \A i \in 1..q + m : /\ out[i] \in Entry
                          /\ out[i].off + out[i].len <= Len(cells)
  <2>1. \A i \in 1..q + m : out[i] \in Entry
    BY <1>5
  <2>2. \A i \in DOMAIN out : out[i].off + out[i].len <= Len(cells)
    BY DEF AppendedUpTo
  <2> QED BY <1>5, <2>1, <2>2
<1>7. ASSUME NEW i \in 1..q
      PROVE  /\ Good(cells, rec, out[i]) /\ Held(cells, out[i]) = Held(base, list[i])
             /\ Held(cells, out[i]) \in 1..last
             /\ out[i].off + out[i].len <= size
  <2>1. list[i] \in Entry /\ Good(base, rec, list[i]) /\ Held(base, list[i]) <= last
    BY <1>1 DEF Whole, last
  <2>2. list[i].off \in Nat /\ list[i].len \in Nat /\ list[i].off + list[i].len <= size
    BY <2>1 DEF Entry, Good, size
  <2>3. ASSUME NEW k \in 1..list[i].len PROVE cells[list[i].off + k] = base[list[i].off + k]
    <3>1. list[i].off + k \in 1..size
      BY <1>1, <2>2
    <3> QED BY <1>4, <3>1
  <2>4. list[i].off + list[i].len <= Len(cells)
    BY <1>1, <1>4, <2>2
  <2>5. Good(cells, rec, list[i]) /\ Held(cells, list[i]) = Held(base, list[i])
    <3>1. Extends(rec, rec)
      BY DEF Extends
    <3> QED BY <2>1, <2>3, <2>4, <3>1, GoodMoves
  <2>6. Held(base, list[i]) \in 1..Len(rec)
    BY <1>3, <2>1, HeldNumber
  <2>7. Held(base, list[i]) \in 1..last
    BY <1>3, <2>1, <2>6
  <2> QED BY <1>5, <2>2, <2>5, <2>7
<1>8. ASSUME NEW i \in 1..m
      PROVE  /\ Good(cells, rec, out[q + i]) /\ Held(cells, out[q + i]) = last + i
             /\ out[q + i].off >= size
  <2> DEFINE e == es[i]
  <2>1. i \in 1..Len(batch) /\ q + i \in 1..q + m
    BY <1>1, <1>3
  <2>2. out[q + i] = e /\ e \in Entry /\ e.off + e.len <= Len(cells)
    BY <1>5, <1>6, <2>1
  <2>3. /\ e.off >= size /\ e.type = rec[batch[i]].type /\ e.len = rec[batch[i]].len
        /\ \A k \in 1..e.len : BatchCells[e.off - size + k] = <<batch[i], k>>
    BY <1>2, <2>1
  <2>4. e.off \in Nat /\ e.len \in Nat /\ e.len >= 1
    BY <2>2 DEF Entry
  <2> HIDE DEF e
  <2>5. ASSUME NEW k \in 1..e.len PROVE cells[e.off + k] = <<batch[i], k>>
    <3>1. e.off - size + k \in 1..n /\ size + (e.off - size + k) = e.off + k
      <4>1. /\ size \in Nat /\ n \in Nat /\ e.off + e.len <= size + n /\ e.off >= size
            /\ e.off \in Nat /\ e.len \in Nat /\ k \in 1..e.len
        BY <1>1, <1>4, <2>2, <2>3, <2>4
      <4> DEFINE o == e.off
      <4> DEFINE l == e.len
      <4>2. /\ size \in Nat /\ n \in Nat /\ o + l <= size + n /\ o >= size
            /\ o \in Nat /\ l \in Nat /\ k \in 1..l
        BY <4>1
      <4> HIDE DEF o, l
      <4>3. o - size + k \in 1..n /\ size + (o - size + k) = o + k
        BY <4>2
      <4> QED BY <4>3 DEF o
    <3>2. cells[size + (e.off - size + k)] = BatchCells[e.off - size + k]
      BY <1>4, <3>1
    <3> QED BY <2>3, <3>1, <3>2
  <2>6. Held(cells, e) = batch[i]
    <3>1. 1 \in 1..e.len
      BY <2>4
    <3>2. cells[e.off + 1] = <<batch[i], 1>>
      BY <2>5, <3>1
    <3> QED BY <3>2 DEF Held
  <2>7. batch[i] \in DOMAIN rec /\ batch[i] = last + i
    <3>1. batch[i] = last + i
      BY <1>3, <2>1
    <3>2. last + i \in 1..Len(rec)
      BY <1>3, <2>1 DEF last
    <3> QED BY <1>3, <3>1, <3>2
  <2>8. Good(cells, rec, e)
    BY <2>2, <2>3, <2>5, <2>6, <2>7 DEF Good
  <2> QED BY <2>2, <2>3, <2>6, <2>7, <2>8
<1>9. \A i \in 1..q + m : i \in 1..q \/ (i - q \in 1..m /\ i = q + (i - q))
  BY <1>1
<1>10. \A i \in 1..q + m : Good(cells, rec, out[i])
  BY <1>7, <1>8, <1>9
<1>11. \A i \in 1..q + m : Held(cells, out[i]) <= Len(rec)
  <2> TAKE i \in 1..q + m
  <2>1. Held(cells, out[i]) \in 1..Len(rec)
    BY <1>3, <1>6, <1>10, HeldNumber
  <2> QED BY <1>3, <2>1
<1>12. Apart(out)
  <2> SUFFICES ASSUME NEW i \in 1..q + m, NEW j \in 1..q + m, i < j
               PROVE  out[i].off + out[i].len <= out[j].off
    BY <1>5 DEF Apart
  <2>0. /\ out[i].off \in Nat /\ out[i].len \in Nat /\ out[j].off \in Nat
    BY <1>6 DEF Entry
  <2>1. CASE i \in 1..q /\ j \in 1..q
    <3>1. list[i].off + list[i].len <= list[j].off
      BY <1>1, <2>1 DEF Whole, Apart
    <3> QED BY <1>5, <2>1, <3>1
  <2>2. CASE i \in 1..q /\ j \notin 1..q
    <3>1. out[j].off >= size
      BY <1>8, <1>9, <2>2
    <3>2. out[i].off + out[i].len <= size
      BY <1>7, <2>2
    <3> QED BY <1>1, <2>0, <3>1, <3>2
  <2>3. CASE i \notin 1..q
    <3>1. i - q \in 1..m /\ i = q + (i - q) /\ j - q \in 1..m /\ j = q + (j - q) /\ i - q < j - q
      BY <1>1, <2>3
    <3>2. out[i] = es[i - q] /\ out[j] = es[j - q]
      BY <1>5, <3>1
    <3>3. i - q \in DOMAIN es /\ j - q \in DOMAIN es
      BY <1>1, <1>2, <1>3, <3>1
    <3>4. es[i - q].off + es[i - q].len <= es[j - q].off
      BY <1>2, <3>1, <3>3 DEF Apart
    <3> QED BY <3>2, <3>4
  <2> QED BY <2>1, <2>2, <2>3
<1>13. \A i, j \in 1..q + m : i < j => Held(cells, out[i]) < Held(cells, out[j])
  <2> SUFFICES ASSUME NEW i \in 1..q + m, NEW j \in 1..q + m, i < j
               PROVE  Held(cells, out[i]) < Held(cells, out[j])
    OBVIOUS
  <2>1. CASE i \in 1..q /\ j \in 1..q
    <3>1. Held(base, list[i]) < Held(base, list[j])
      BY <1>1, <2>1 DEF Whole
    <3> QED BY <1>7, <2>1, <3>1
  <2>2. CASE i \in 1..q /\ j \notin 1..q
    <3>1. j - q \in 1..m /\ Held(cells, out[j]) = last + (j - q)
      BY <1>8, <1>9, <2>2
    <3>2. Held(cells, out[i]) \in 1..last
      BY <1>7, <2>2
    <3> QED BY <1>1, <1>3, <3>1, <3>2
  <2>3. CASE i \notin 1..q
    <3>1. i - q \in 1..m /\ i = q + (i - q) /\ j - q \in 1..m /\ j = q + (j - q) /\ i - q < j - q
      BY <1>1, <2>3
    <3>2. Held(cells, out[i]) = last + (i - q) /\ Held(cells, out[j]) = last + (j - q)
      BY <1>8, <3>1
    <3> QED BY <1>3, <3>1, <3>2
  <2> QED BY <2>1, <2>2, <2>3
<1>14. \A id \in ids : rec[id].type \in Spoken => \E i \in 1..q + m : Held(cells, out[i]) = id
  <2> TAKE id \in ids
  <2> HAVE rec[id].type \in Spoken
  <2>1. PICK i \in 1..q : Held(base, list[i]) = id
    BY <1>1 DEF Whole
  <2>2. i \in 1..q + m
    BY <1>1
  <2> QED BY <1>7, <2>1, <2>2
<1>15. ASSUME NEW i \in 1..m PROVE \E j \in DOMAIN out : Held(cells, out[j]) = batch[i]
  <2>1. q + i \in DOMAIN out
    BY <1>1, <1>5
  <2>2. batch[i] = last + i
    BY <1>1, <1>3
  <2> QED BY <1>8, <2>1, <2>2
<1>16. Reads(cells, out) = Reads(base, list) \cup {batch[i] : i \in 1..m}
  <2>1. ASSUME NEW i \in 1..m PROVE Held(cells, out[q + i]) = batch[i] /\ q + i \in 1..q + m
    <3>1. i \in 1..Len(batch) /\ q + i \in 1..q + m
      BY <1>1, <1>3
    <3>2. batch[i] = last + i
      BY <1>3, <3>1
    <3> QED BY <1>8, <3>1, <3>2
  <2>2. \A i \in 1..q : Held(cells, out[i]) = Held(base, list[i]) /\ i \in 1..q + m
    BY <1>1, <1>7
  <2>3. ASSUME NEW id \in Reads(cells, out) PROVE id \in Reads(base, list) \cup {batch[i] : i \in 1..m}
    <3>1. PICK i \in 1..q + m : id = Held(cells, out[i])
      BY <1>5 DEF Reads
    <3>2. CASE i \in 1..q
      BY <1>1, <2>2, <3>1, <3>2 DEF Reads
    <3>3. CASE i - q \in 1..m /\ i = q + (i - q)
      BY <2>1, <3>1, <3>3
    <3> QED BY <1>9, <3>2, <3>3
  <2>4. ASSUME NEW id \in Reads(base, list) PROVE id \in Reads(cells, out)
    <3>1. PICK i \in 1..q : id = Held(base, list[i])
      BY <1>1, <2>4 DEF Reads
    <3> QED BY <1>5, <2>2, <3>1 DEF Reads
  <2>5. ASSUME NEW i \in 1..m PROVE batch[i] \in Reads(cells, out)
    BY <1>5, <2>1 DEF Reads
  <2> QED BY <2>3, <2>4, <2>5
<1> QED BY <1>5, <1>10, <1>11, <1>12, <1>13, <1>14, <1>15, <1>16 DEF Whole, HoldsBatch, ReadsHanded, Handed

-----------------------------------------------------------------------------
(***************************************************************************)
(* The compaction.                                                         *)
(***************************************************************************)

LEMMA KeptEntry ==
  ASSUME idx \in Seq(Entry)
  PROVE  /\ Len(Kept) \in Nat /\ Len(Kept) <= Len(idx) /\ DOMAIN Kept = 1..Len(Kept)
         /\ \A i \in 1..Len(Kept) : /\ Kept[i] \in Entry /\ Kept[i].off \in Nat
                                    /\ Kept[i].len \in Nat /\ Kept[i].len >= 1
                                    /\ NewOffset(i) \in Nat /\ NewOffset(i + 1) \in Nat
                                    /\ NewOffset(i + 1) = NewOffset(i) + Kept[i].len
<1>1. Len(Kept) \in Nat /\ Len(Kept) <= Len(idx) /\ DOMAIN Kept = 1..Len(Kept) /\ Kept \in Seq(Entry)
  BY KeptFacts
<1>2. \A i \in 1..Len(Kept) : /\ Kept[i] \in Entry /\ Kept[i].off \in Nat
                              /\ Kept[i].len \in Nat /\ Kept[i].len >= 1
  <2> TAKE i \in 1..Len(Kept)
  <2>1. Kept[i] \in Entry
    BY <1>1
  <2> QED BY <2>1 DEF Entry
<1>3. \A i \in 1..Len(Kept) : i \in 1..Len(Kept) + 1 /\ i + 1 \in 1..Len(Kept) + 1
  BY <1>1
<1> QED BY <1>1, <1>2, <1>3, OffsetStep

LEMMA MovingEntry ==
  ASSUME idx \in Seq(Entry), NEW k \in Nat
  PROVE  /\ Moving(k) \in Seq(Entry) /\ Len(Moving(k)) = Len(Kept)
         /\ DOMAIN Moving(k) = 1..Len(Kept)
         /\ \A i \in 1..Len(Kept) :
              /\ Moving(k)[i].len = Kept[i].len /\ Moving(k)[i].type = Kept[i].type
              /\ i <= k => Moving(k)[i].off = NewOffset(i)
              /\ ~(i <= k) => Moving(k)[i] = Kept[i]
<1>1. Len(Kept) \in Nat /\ DOMAIN Kept = 1..Len(Kept)
      /\ \A i \in 1..Len(Kept) : Kept[i] \in Entry /\ NewOffset(i) \in Nat
  BY KeptEntry
<1>2. ASSUME NEW i \in 1..Len(Kept)
      PROVE  /\ Moving(k)[i] = IF i <= k THEN [Kept[i] EXCEPT !.off = NewOffset(i)] ELSE Kept[i]
             /\ Moving(k)[i] \in Entry
             /\ Moving(k)[i].len = Kept[i].len /\ Moving(k)[i].type = Kept[i].type
             /\ i <= k => Moving(k)[i].off = NewOffset(i)
             /\ ~(i <= k) => Moving(k)[i] = Kept[i]
  <2>1. Moving(k)[i] = IF i <= k THEN [Kept[i] EXCEPT !.off = NewOffset(i)] ELSE Kept[i]
    BY <1>1 DEF Moving
  <2>2. Kept[i] \in Entry /\ NewOffset(i) \in Nat
    BY <1>1
  <2> DEFINE e == [Kept[i] EXCEPT !.off = NewOffset(i)]
  <2>3. e \in Entry /\ e.len = Kept[i].len /\ e.type = Kept[i].type /\ e.off = NewOffset(i)
    BY <2>2 DEF Entry
  <2> HIDE DEF e
  <2> QED BY <2>1, <2>2, <2>3 DEF e
<1>3. Moving(k) = [i \in 1..Len(Kept) |-> Moving(k)[i]] /\ DOMAIN Moving(k) = 1..Len(Kept)
  BY <1>1 DEF Moving
<1>4. Moving(k) \in Seq(Entry) /\ Len(Moving(k)) = Len(Kept)
  BY <1>1, <1>2, <1>3
<1> QED BY <1>2, <1>3, <1>4

LEMMA MovingApart ==
  ASSUME idx \in Seq(Entry), NEW k \in Nat, Apart(Kept)
  PROVE  Apart(Moving(k))
<1> DEFINE m == Moving(k)
<1>1. DOMAIN m = 1..Len(Kept)
      /\ \A i \in 1..Len(Kept) : /\ m[i].len = Kept[i].len
                                 /\ i <= k => m[i].off = NewOffset(i)
                                 /\ ~(i <= k) => m[i] = Kept[i]
  BY MovingEntry
<1> HIDE DEF m
<1> SUFFICES ASSUME NEW i \in 1..Len(Kept), NEW j \in 1..Len(Kept), i < j
             PROVE  m[i].off + m[i].len <= m[j].off
  BY <1>1 DEF m, Apart
<1>2. /\ Kept[i].off \in Nat /\ Kept[i].len \in Nat /\ Kept[j].off \in Nat
      /\ NewOffset(i) \in Nat /\ NewOffset(j) \in Nat /\ NewOffset(i + 1) \in Nat
      /\ NewOffset(i + 1) = NewOffset(i) + Kept[i].len
  BY KeptEntry
<1>3. Kept[i].off + Kept[i].len <= Kept[j].off
  BY KeptEntry DEF Apart
<1>4. NewOffset(i) <= Kept[i].off
  BY OffsetsShrink
<1>5. NewOffset(i + 1) <= NewOffset(j)
  <2>1. i + 1 \in 1..Len(Kept) + 1 /\ j \in 1..Len(Kept) + 1 /\ i + 1 <= j
    BY KeptEntry
  <2> QED BY <2>1, OffsetStep
<1>6. CASE j <= k
  <2>1. i <= k
    BY <1>6, KeptEntry
  <2>2. m[i].off = NewOffset(i) /\ m[j].off = NewOffset(j) /\ m[i].len = Kept[i].len
    BY <1>1, <1>6, <2>1
  <2> QED BY <1>2, <1>5, <2>2
<1>7. CASE i <= k /\ ~(j <= k)
  <2>1. m[i].off = NewOffset(i) /\ m[j].off = Kept[j].off /\ m[i].len = Kept[i].len
    BY <1>1, <1>7
  <2>2. NewOffset(i) + Kept[i].len <= Kept[j].off
    <3> DEFINE a == NewOffset(i)
    <3> DEFINE b == Kept[i].off
    <3> DEFINE c == Kept[i].len
    <3> DEFINE o == Kept[j].off
    <3>1. a \in Nat /\ b \in Nat /\ c \in Nat /\ o \in Nat /\ a <= b /\ b + c <= o
      BY <1>2, <1>3, <1>4
    <3> HIDE DEF a, b, c, o
    <3>2. a + c <= o
      BY <3>1
    <3> QED BY <3>2 DEF a, c, o
  <2> QED BY <2>1, <2>2
<1>8. CASE ~(i <= k) /\ ~(j <= k)
  BY <1>1, <1>3, <1>8
<1> QED BY <1>6, <1>7, <1>8

\* The compaction starts with the kept entries as they are.
LEMMA CompactionStarts ==
  ASSUME idx \in Seq(Entry), NEW r, NEW n, NEW d, Whole(data, idx, r, n, d)
  PROVE  Apart(Kept) /\ Whole(data, Moving(0), r, n, d)
<1> DEFINE N == Len(Kept)
<1> DEFINE P == KeptPositions
<1>1. /\ N \in Nat /\ P \in [1..N -> DOMAIN idx] /\ DOMAIN Kept = 1..N
      /\ \A i, j \in 1..N : i < j => P[i] < P[j]
      /\ \A k \in 1..N : Kept[k] = idx[P[k]]
  <2>1. DOMAIN idx = 1..Len(idx)
    OBVIOUS
  <2> QED BY <2>1, KeptFacts
<1>2. \A i \in DOMAIN idx : idx[i].type \in Spoken => \E k \in 1..N : P[k] = i
  <2>1. DOMAIN idx = 1..Len(idx)
    OBVIOUS
  <2>2. \A i \in DOMAIN idx : idx[i].type \in Spoken => KeepRecord(i)
    BY DEF KeepRecord, Spoken
  <2> QED BY <2>1, <2>2, KeptFacts
<1>3. DOMAIN Moving(0) = 1..N /\ \A k \in 1..N : Moving(0)[k] = idx[P[k]]
  <2>1. \A k \in 1..N : ~(k <= 0)
    BY <1>1
  <2> QED BY <1>1, <2>1, MovingEntry
<1> HIDE DEF N, P
<1>4. Whole(data, Kept, r, n, d)
  BY <1>1, <1>2, WholePicks
<1>5. Whole(data, Moving(0), r, n, d)
  BY <1>1, <1>2, <1>3, WholePicks
<1> QED BY <1>4, <1>5 DEF Whole

\* Copying a stretch of a list within it.
Copied(s, o, x, n) ==
  [c \in DOMAIN s |-> IF c \in (o + 1)..(o + n) THEN s[c - o + x] ELSE s[c]]

CopyFits(S, s, o, x, n) ==
  s \in Seq(S) /\ o \in Nat /\ x \in Nat /\ n \in Nat /\ o + n <= Len(s) /\ x + n <= Len(s)

LEMMA CopyIs ==
  ASSUME NEW S, NEW s, NEW o, NEW x, NEW n, CopyFits(S, s, o, x, n)
  PROVE  /\ Copied(s, o, x, n) \in Seq(S) /\ Len(Copied(s, o, x, n)) = Len(s)
         /\ \A c \in 1..Len(s) : ~(c \in o + 1..o + n) => Copied(s, o, x, n)[c] = s[c]
         /\ \A k \in 1..n : Copied(s, o, x, n)[o + k] = s[x + k]
<1> DEFINE w == Copied(s, o, x, n)
<1>9. s \in Seq(S) /\ o \in Nat /\ x \in Nat /\ n \in Nat /\ o + n <= Len(s) /\ x + n <= Len(s)
  BY DEF CopyFits
<1>1. Len(s) \in Nat /\ DOMAIN s = 1..Len(s) /\ \A c \in 1..Len(s) : s[c] \in S
  BY <1>9
<1>0. w = [c \in 1..Len(s) |-> IF c \in (o + 1)..(o + n) THEN s[c - o + x] ELSE s[c]]
  BY <1>1 DEF Copied
<1> HIDE DEF w
<1>2. \A c \in 1..Len(s) : w[c] = IF c \in (o + 1)..(o + n) THEN s[c - o + x] ELSE s[c]
  BY <1>0
<1>3. \A c \in 1..Len(s) : ~(c \in o + 1..o + n) => w[c] = s[c]
  BY <1>2
<1>4. ASSUME NEW k \in 1..n PROVE w[o + k] = s[x + k]
  <2>1. o + k \in 1..Len(s) /\ o + k \in (o + 1)..(o + n) /\ o + k - o + x = x + k
    BY <1>1, <1>9
  <2>2. w[o + k] = s[o + k - o + x]
    BY <1>2, <1>9, <2>1
  <2> QED BY <2>1, <2>2
<1>5. \A c \in 1..Len(s) : w[c] \in S
  <2> TAKE c \in 1..Len(s)
  <2>1. CASE c \in (o + 1)..(o + n)
    <3>1. c - o + x \in 1..Len(s)
      BY <1>1, <1>9, <2>1
    <3> QED BY <1>1, <1>2, <2>1, <3>1
  <2>2. CASE ~(c \in (o + 1)..(o + n))
    BY <1>1, <1>3, <2>2
  <2> QED BY <2>1, <2>2
<1>6. w \in Seq(S) /\ Len(w) = Len(s)
  <2>1. DOMAIN w = 1..Len(s) /\ w = [c \in 1..Len(s) |-> w[c]]
    BY <1>0
  <2> QED BY <1>1, <1>5, <2>1
<1> QED BY <1>3, <1>4, <1>6 DEF w

\* The entries of the index lie within the data.
EntriesFit == \A i \in 1..Len(idx) : idx[i].off + idx[i].len <= Len(data)

\* The cells of the record that moves, and no others.
LEMMA OverwrittenIs ==
  ASSUME idx \in Seq(Entry), data \in Seq(Cell),
         NEW m \in Nat, m = moved + 1, m \in 1..Len(Kept), moved \in Nat,
         EntriesFit,
         NewOffset(m) + Kept[m].len <= Len(data),
         NEW n \in Nat, n <= Kept[m].len
  PROVE  /\ Overwritten(n) \in Seq(Cell) /\ Len(Overwritten(n)) = Len(data)
         /\ \A c \in 1..Len(data) : ~(c \in NewOffset(m) + 1..NewOffset(m) + n) =>
              Overwritten(n)[c] = data[c]
         /\ \A k \in 1..n : Overwritten(n)[NewOffset(m) + k] = data[Kept[m].off + k]
<1> DEFINE x == Kept[m].off
<1> DEFINE l == Kept[m].len
<1> DEFINE o == NewOffset(m)
<1> DEFINE w == Overwritten(n)
<1>1. x \in Nat /\ l \in Nat /\ o \in Nat
  BY KeptEntry
<1>2. x + l <= Len(data) /\ o + l <= Len(data) /\ Len(data) \in Nat /\ n <= l
  <2>1. KeptPositions[m] \in 1..Len(idx) /\ Kept[m] = idx[KeptPositions[m]]
    BY KeptFacts
  <2> QED BY <2>1 DEF EntriesFit
<1>3. w = Copied(data, o, x, n)
  BY DEF Overwritten, Copied
<1> HIDE DEF w, x, l, o
<1>4. x + n <= Len(data) /\ o + n <= Len(data)
  BY <1>1, <1>2
<1>5. /\ w \in Seq(Cell) /\ Len(w) = Len(data)
      /\ \A c \in 1..Len(data) : ~(c \in o + 1..o + n) => w[c] = data[c]
      /\ \A k \in 1..n : w[o + k] = data[x + k]
  <2>1. CopyFits(Cell, data, o, x, n)
    BY <1>1, <1>4 DEF CopyFits
  <2> QED BY <1>3, <2>1, CopyIs
<1> QED BY <1>5 DEF w, x, o

\* A move keeps every kept record readable, those already moved at their new place.
LEMMA MoveCopies ==
  ASSUME idx \in Seq(Entry), data \in Seq(Cell),
         moved \in Nat, moved < Len(Kept), EntriesFit, Apart(Kept)
  PROVE  SameText(data, Moving(moved), Overwritten(Kept[moved + 1].len), Moving(moved + 1))
<1> DEFINE m == moved + 1
<1> DEFINE e == Kept[m]
<1> DEFINE o == NewOffset(m)
<1> DEFINE w == Overwritten(e.len)
<1> DEFINE l1 == Moving(moved)
<1> DEFINE l2 == Moving(m)
<1> DEFINE K == Len(Kept)
<1>1. m \in Nat /\ m \in 1..K /\ K \in Nat /\ Len(data) \in Nat
  BY KeptEntry
<1>2. e.off \in Nat /\ e.len \in Nat /\ o \in Nat /\ o <= e.off
  BY <1>1, KeptEntry, OffsetsShrink
<1>3. ASSUME NEW i \in 1..K
      PROVE  /\ Kept[i].off \in Nat /\ Kept[i].len \in Nat
             /\ Kept[i].off + Kept[i].len <= Len(data)
             /\ NewOffset(i) \in Nat /\ NewOffset(i) <= Kept[i].off
             /\ i < m => NewOffset(i) + Kept[i].len <= o
             /\ m < i => e.off + e.len <= Kept[i].off
  <2>1. KeptPositions[i] \in 1..Len(idx) /\ Kept[i] = idx[KeptPositions[i]]
    BY KeptFacts
  <2>2. Kept[i].off + Kept[i].len <= Len(data)
    BY <2>1 DEF EntriesFit
  <2>3. /\ Kept[i].off \in Nat /\ Kept[i].len \in Nat /\ NewOffset(i) \in Nat
        /\ NewOffset(i + 1) = NewOffset(i) + Kept[i].len /\ NewOffset(i) <= Kept[i].off
    BY KeptEntry, OffsetsShrink
  <2>4. ASSUME i < m PROVE NewOffset(i + 1) <= o
    <3>1. i + 1 \in 1..K + 1 /\ m \in 1..K + 1 /\ i + 1 <= m
      BY <1>1, <2>4
    <3> QED BY <3>1, OffsetStep
  <2>5. ASSUME m < i PROVE e.off + e.len <= Kept[i].off
    <3>1. m \in DOMAIN Kept /\ i \in DOMAIN Kept
      BY <1>1, KeptEntry
    <3> QED BY <2>5, <3>1 DEF Apart
  <2> QED BY <2>2, <2>3, <2>4, <2>5
<1>4. o + e.len <= Len(data)
  <2> DEFINE x == e.off
  <2> DEFINE l == e.len
  <2>1. x \in Nat /\ l \in Nat /\ o <= x /\ x + l <= Len(data)
    BY <1>1, <1>2, <1>3
  <2> HIDE DEF x, l, o
  <2>2. o + l <= Len(data)
    BY <1>1, <1>2, <2>1
  <2> QED BY <2>2 DEF l
<1>5. /\ w \in Seq(Cell) /\ Len(w) = Len(data)
      /\ \A c \in 1..Len(data) : ~(c \in o + 1..o + e.len) => w[c] = data[c]
      /\ \A k \in 1..e.len : w[o + k] = data[e.off + k]
  <2>1. m = moved + 1 /\ e.len \in Nat /\ e.len <= e.len /\ NewOffset(m) + Kept[m].len <= Len(data)
    BY <1>2, <1>4
  <2>2. m \in 1..Len(Kept)
    BY <1>1
  <2> QED BY <1>1, <2>1, <2>2, OverwrittenIs
<1>6. /\ l1 \in Seq(Entry) /\ DOMAIN l1 = 1..K
      /\ \A i \in 1..K : /\ l1[i].len = Kept[i].len /\ l1[i].type = Kept[i].type
                         /\ i <= moved => l1[i].off = NewOffset(i)
                         /\ ~(i <= moved) => l1[i].off = Kept[i].off
  BY MovingEntry
<1>7. /\ l2 \in Seq(Entry) /\ DOMAIN l2 = 1..K
      /\ \A i \in 1..K : /\ l2[i].len = Kept[i].len /\ l2[i].type = Kept[i].type
                         /\ i <= m => l2[i].off = NewOffset(i)
                         /\ ~(i <= m) => l2[i].off = Kept[i].off
  BY <1>1, MovingEntry
<1>8. Apart(l2)
  BY <1>1, MovingApart
<1> HIDE DEF w, l1, l2
<1>10. ASSUME NEW i \in 1..K
       PROVE  /\ l2[i].off + l2[i].len <= Len(w)
              /\ \A k \in 1..l1[i].len : w[l2[i].off + k] = data[l1[i].off + k]
  <2> DEFINE a == NewOffset(i)
  <2> DEFINE b == Kept[i].off
  <2> DEFINE c == Kept[i].len
  <2> DEFINE x == e.off
  <2> DEFINE l == e.len
  <2>1. /\ a \in Nat /\ b \in Nat /\ c \in Nat /\ b + c <= Len(data) /\ a <= b
        /\ (i < m => a + c <= o) /\ (m < i => x + l <= b)
    BY <1>3
  <2>2. /\ x \in Nat /\ l \in Nat /\ o \in Nat /\ o <= x /\ m = moved + 1
    BY <1>2
  <2>3. l1[i].len = c /\ l2[i].len = c
    BY <1>6, <1>7
  <2>4. CASE i < m
    <3>1. l1[i].off = a /\ l2[i].off = a
      <4>1. i <= moved /\ i <= m
        BY <1>1, <2>4
      <4> QED BY <1>6, <1>7, <4>1
    <3> HIDE DEF a, b, c, x, l, o, e, m
    <3>2. a + c <= Len(data)
      BY <1>1, <2>1
    <3>3. ASSUME NEW k \in 1..c PROVE w[a + k] = data[a + k]
      <4>1. a + k \in 1..Len(data) /\ ~(a + k \in o + 1..o + l)
        BY <1>1, <2>1, <2>2, <2>4, <3>2
      <4> QED BY <1>5, <4>1 DEF l
    <3> QED BY <1>5, <2>3, <3>1, <3>2, <3>3
  <2>5. CASE i = m
    <3>1. l1[i].off = x /\ l2[i].off = o /\ c = l
      <4>1. ~(i <= moved) /\ i <= m
        BY <1>1, <2>5
      <4> QED BY <1>6, <1>7, <2>5, <4>1
    <3>2. o + l <= Len(data)
      BY <1>4
    <3> HIDE DEF a, b, c, x, l, o, e, m
    <3>3. \A k \in 1..c : w[o + k] = data[x + k]
      BY <1>5, <3>1 DEF x, l
    <3> QED BY <1>5, <2>3, <3>1, <3>2, <3>3
  <2>6. CASE m < i
    <3>1. l1[i].off = b /\ l2[i].off = b
      <4>1. ~(i <= moved) /\ ~(i <= m)
        BY <1>1, <2>6
      <4> QED BY <1>6, <1>7, <4>1
    <3> HIDE DEF a, b, c, x, l, o, e, m
    <3>3. ASSUME NEW k \in 1..c PROVE w[b + k] = data[b + k]
      <4>1. b + k \in 1..Len(data) /\ ~(b + k \in o + 1..o + l)
        BY <1>1, <2>1, <2>2, <2>6
      <4> QED BY <1>5, <4>1 DEF l
    <3> QED BY <1>5, <2>1, <2>3, <3>1, <3>3
  <2> QED BY <1>1, <2>4, <2>5, <2>6
<1>11. \A i \in DOMAIN l1 : l2[i].len = l1[i].len /\ l2[i].type = l1[i].type
  BY <1>6, <1>7
<1>12. SameText(data, l1, w, l2)
  <2> HIDE DEF m, e, o, K
  <2> QED BY <1>6, <1>7, <1>8, <1>10, <1>11 DEF SameText
<1> QED BY <1>12 DEF w, l1, l2

LEMMA MoveKeeps ==
  ASSUME idx \in Seq(Entry), data \in Seq(Cell),
         moved \in Nat, moved < Len(Kept),
         EntriesFit,
         NEW r \in Seq(Record), NEW d, d \subseteq 1..Len(r),
         Apart(Kept), Whole(data, Moving(moved), r, Len(r), d)
  PROVE  Whole(Overwritten(Kept[moved + 1].len), Moving(moved + 1), r, Len(r), d)
<1> DEFINE w == Overwritten(Kept[moved + 1].len)
<1> DEFINE l1 == Moving(moved)
<1> DEFINE l2 == Moving(moved + 1)
<1>1. Len(r) \in Int /\ d \subseteq d /\ Extends(r, r)
  BY DEF Extends
<1>2. SameText(data, l1, w, l2) /\ Whole(data, l1, r, Len(r), d)
  BY MoveCopies
<1> HIDE DEF w, l1, l2
<1>3. Whole(w, l2, r, Len(r), d)
  BY <1>1, <1>2, WholeMoves
<1> QED BY <1>3 DEF w, l2

LEMMA RewrittenIs ==
  ASSUME idx \in Seq(Entry), NEW k \in Nat, k <= Len(Kept)
  PROVE  /\ Rewritten(k) \in Seq(Entry) /\ Len(Rewritten(k)) = Len(idx)
         /\ \A i \in 1..k : Rewritten(k)[i] = [Kept[i] EXCEPT !.off = NewOffset(i)]
<1>1. /\ Len(Kept) \in Nat /\ Len(Kept) <= Len(idx) /\ DOMAIN idx = 1..Len(idx) /\ Len(idx) \in Nat
      /\ \A i \in 1..Len(Kept) : Kept[i] \in Entry /\ NewOffset(i) \in Nat
      /\ \A i \in 1..Len(idx) : idx[i] \in Entry
  BY KeptEntry
<1> DEFINE w == Rewritten(k)
<1>2. w = [i \in 1..Len(idx) |-> IF i <= k THEN [Kept[i] EXCEPT !.off = NewOffset(i)] ELSE idx[i]]
  BY <1>1 DEF Rewritten
<1> HIDE DEF w
<1>3. ASSUME NEW i \in 1..Len(idx)
      PROVE  /\ w[i] \in Entry
             /\ i <= k => w[i] = [Kept[i] EXCEPT !.off = NewOffset(i)]
  <2>1. w[i] = IF i <= k THEN [Kept[i] EXCEPT !.off = NewOffset(i)] ELSE idx[i]
    BY <1>2
  <2>2. CASE i <= k
    <3>1. Kept[i] \in Entry /\ NewOffset(i) \in Nat
      BY <1>1, <2>2
    <3>2. [Kept[i] EXCEPT !.off = NewOffset(i)] \in Entry
      BY <3>1 DEF Entry
    <3> QED BY <2>1, <2>2, <3>2
  <2>3. CASE ~(i <= k)
    BY <1>1, <2>1, <2>3
  <2> QED BY <2>2, <2>3
<1>4. w \in Seq(Entry) /\ Len(w) = Len(idx)
  <2>1. w = [i \in 1..Len(idx) |-> w[i]] /\ \A i \in 1..Len(idx) : w[i] \in Entry
    BY <1>2, <1>3
  <2> QED BY <1>1, <2>1
<1>5. \A i \in 1..k : w[i] = [Kept[i] EXCEPT !.off = NewOffset(i)]
  <2> TAKE i \in 1..k
  <2>1. i \in 1..Len(idx) /\ i <= k
    BY <1>1
  <2> QED BY <1>3, <2>1
<1> QED BY <1>4, <1>5 DEF w

\* The files cut to what was kept hold all of it.
LEMMA CutKeeps ==
  ASSUME idx \in Seq(Entry), data \in Seq(Cell), CompactedSize <= Len(data),
         NEW r \in Seq(Record), NEW d, d \subseteq 1..Len(r),
         Apart(Kept), Whole(data, Moving(Len(Kept)), r, Len(r), d)
  PROVE  /\ SubSeq(data, 1, CompactedSize) \in Seq(Cell)
         /\ Len(SubSeq(data, 1, CompactedSize)) = CompactedSize
         /\ Len(Rewritten(Len(Kept))) = Len(idx) /\ Len(Kept) <= Len(idx)
         /\ Whole(SubSeq(data, 1, CompactedSize), SubSeq(Rewritten(Len(Kept)), 1, Len(Kept)),
                  r, Len(r), d)
         /\ Reads(SubSeq(data, 1, CompactedSize), SubSeq(Rewritten(Len(Kept)), 1, Len(Kept)))
              = Reads(data, Moving(Len(Kept)))
<1> DEFINE K == Len(Kept)
<1> DEFINE c2 == SubSeq(data, 1, CompactedSize)
<1> DEFINE l1 == Moving(K)
<1> DEFINE l2 == SubSeq(Rewritten(K), 1, K)
<1>1. K \in Nat /\ K <= Len(idx) /\ Len(idx) \in Nat /\ Len(data) \in Nat
  BY KeptEntry
<1>2. CompactedSize = NewOffset(K + 1) /\ NewOffset(K + 1) \in Nat
      /\ \A i \in 1..K : NewOffset(i + 1) <= NewOffset(K + 1)
  <2>1. K + 1 \in 1..K + 1 /\ \A i \in 1..K : i + 1 \in 1..K + 1 /\ i + 1 <= K + 1
    BY <1>1
  <2> QED BY <2>1, OffsetStep DEF CompactedSize
<1>3. c2 \in Seq(Cell) /\ Len(c2) = CompactedSize
      /\ \A k \in 1..CompactedSize : c2[k] = data[k]
  <2>1. CompactedSize \in 0..Len(data)
    BY <1>1, <1>2
  <2> QED BY <2>1, Prefix
<1>4. /\ Rewritten(K) \in Seq(Entry) /\ Len(Rewritten(K)) = Len(idx)
      /\ \A i \in 1..K : Rewritten(K)[i] = [Kept[i] EXCEPT !.off = NewOffset(i)]
  <2>1. K \in Nat /\ K <= Len(Kept)
    BY <1>1
  <2> HIDE DEF K
  <2> QED BY <2>1, RewrittenIs
<1>5. l2 \in Seq(Entry) /\ Len(l2) = K /\ DOMAIN l2 = 1..K
      /\ \A i \in 1..K : l2[i] = [Kept[i] EXCEPT !.off = NewOffset(i)]
  <2>1. K \in 0..Len(Rewritten(K))
    BY <1>1, <1>4
  <2>2. l2 \in Seq(Entry) /\ Len(l2) = K /\ \A i \in 1..K : l2[i] = Rewritten(K)[i]
    <3> HIDE DEF K
    <3> QED BY <1>4, <2>1, Prefix
  <2>3. DOMAIN l2 = 1..K
    <3> HIDE DEF l2
    <3> QED BY <2>2
  <2> QED BY <1>4, <2>2, <2>3
<1>6. /\ l1 \in Seq(Entry) /\ DOMAIN l1 = 1..K
      /\ \A i \in 1..K : /\ l1[i].len = Kept[i].len /\ l1[i].type = Kept[i].type
                         /\ l1[i].off = NewOffset(i)
  <2>1. \A i \in 1..K : i <= K
    BY <1>1
  <2> QED BY <1>1, <2>1, MovingEntry
<1>7. \A i \in 1..K : l2[i] = l1[i]
  <2>1. \A i \in 1..K : l1[i] = [Kept[i] EXCEPT !.off = NewOffset(i)]
    BY <1>1, KeptEntry DEF Moving
  <2> QED BY <1>5, <2>1
<1>8. Apart(l2)
  <2>1. Apart(l1)
    BY <1>1, MovingApart
  <2> HIDE DEF l1, l2
  <2> QED BY <1>5, <1>6, <1>7, <2>1 DEF Apart
<1>9. ASSUME NEW i \in 1..K
      PROVE  /\ l2[i].off + l2[i].len <= Len(c2)
             /\ \A k \in 1..l1[i].len : c2[l2[i].off + k] = data[l1[i].off + k]
  <2> DEFINE a == NewOffset(i)
  <2> DEFINE l == Kept[i].len
  <2>1. a \in Nat /\ l \in Nat /\ a + l <= CompactedSize /\ CompactedSize \in Nat
    <3>1. a \in Nat /\ l \in Nat /\ NewOffset(i + 1) = a + l
      BY KeptEntry
    <3> QED BY <1>2, <3>1
  <2>2. l1[i].off = a /\ l2[i].off = a /\ l1[i].len = l /\ l2[i].len = l
    BY <1>6, <1>7
  <2> HIDE DEF a, l, l1, l2, c2
  <2>3. \A k \in 1..l : a + k \in 1..CompactedSize
    BY <2>1
  <2> QED BY <1>3, <2>1, <2>2, <2>3
<1> HIDE DEF K, c2, l1, l2
<1>10. SameText(data, l1, c2, l2)
  BY <1>5, <1>6, <1>7, <1>8, <1>9 DEF SameText
<1>11. Whole(data, l1, r, Len(r), d)
  BY DEF l1, K
<1>12. Whole(c2, l2, r, Len(r), d)
  <2>1. Len(r) \in Int /\ d \subseteq d /\ Extends(r, r)
    BY DEF Extends
  <2> QED BY <1>10, <1>11, <2>1, WholeMoves
<1>13. Reads(c2, l2) = Reads(data, l1)
  BY <1>10, SameReads
<1> QED BY <1>1, <1>3, <1>4, <1>12, <1>13 DEF c2, l1, l2, K

-----------------------------------------------------------------------------
(***************************************************************************)
(* Steps.                                                                  *)
(***************************************************************************)

\* The plan depends on the index only.
LEMMA PlanStays ==
  ASSUME idx' = idx
  PROVE  /\ Kept' = Kept /\ CompactedSize' = CompactedSize
         /\ \A k : NewOffset(k)' = NewOffset(k)
<1>1. \A i : TurnStart(i)' = TurnStart(i)
  <2> TAKE i
  <2>1. {j \in 1..i : j = 1 \/ idx'[j].type = "user"} = {j \in 1..i : j = 1 \/ idx[j].type = "user"}
    OBVIOUS
  <2> QED BY <2>1 DEF TurnStart
<1>2. \A i : Turn(i)' = Turn(i)
  <2> TAKE i
  <2> QED BY <1>1 DEF Turn
<1>3. \A i : Completed(i)' = Completed(i)
  BY <1>2 DEF Completed
<1>4. \A i : HasTools(i)' = HasTools(i)
  BY <1>2 DEF HasTools
<1>5. \A i : KeepsTools(i)' = KeepsTools(i)
  BY <1>1, <1>3, <1>4 DEF KeepsTools
<1>6. \A i : KeepRecord(i)' = KeepRecord(i)
  BY <1>1, <1>3, <1>5 DEF KeepRecord
<1>7. KeptPositions' = KeptPositions
  <2> DEFINE S == {i \in DOMAIN idx : KeepRecord(i)}
  <2>1. S' = S
    BY <1>6
  <2>2. KeptPositions = InOrder(S) /\ KeptPositions' = InOrder(S')
    BY DEF KeptPositions
  <2> HIDE DEF S
  <2> QED BY <2>1, <2>2
<1>8. Kept' = Kept
  BY <1>7 DEF Kept
<1>9. \A k : NewOffset(k)' = NewOffset(k)
  BY <1>8 DEF NewOffset
<1>10. CompactedSize' = CompactedSize
  BY <1>8, <1>9 DEF CompactedSize
<1> QED BY <1>8, <1>9, <1>10

LEMMA MovingStays ==
  ASSUME idx' = idx
  PROVE  Moving(moved)' = Moving(moved')
<1>1. Kept' = Kept /\ \A k : NewOffset(k)' = NewOffset(k)
  BY PlanStays
<1> QED BY <1>1 DEF Moving

LEMMA BatchCellsStay ==
  ASSUME UNCHANGED <<rec, batch>>
  PROVE  BatchCells' = BatchCells
<1> DEFINE c == [i \in DOMAIN batch |-> Cells(batch[i])]
<1>1. c' = c
  BY DEF Cells
<1>2. BatchCells = FlattenSeq(c) /\ BatchCells' = FlattenSeq(c')
  BY DEF BatchCells
<1> HIDE DEF c
<1> QED BY <1>1, <1>2

LEMMA ValidTypes ==
  ASSUME HistoryTypes, ValidPair
  PROVE  /\ data \in Seq(Cell) /\ idx \in Seq(Entry) /\ EntriesFit
         /\ Len(idx) + Len(batch) <= Len(rec)
<1>1. data \in Seq(Cell) /\ idx \in Seq(Entry) /\ Len(idx) + Len(batch) <= Len(rec)
  BY DEF HistoryTypes, ValidPair, Exists
<1>2. EntriesFit
  BY <1>1 DEF ValidPair, EntriesFit
<1> QED BY <1>1, <1>2

LEMMA ValidStays ==
  ASSUME UNCHANGED <<data, idx>>
  PROVE  ValidPair' = ValidPair
BY DEF ValidPair, Exists

LEMMA WholeSame ==
  ASSUME NEW c, NEW l \in Seq(Entry), NEW r1 \in Seq(Record), NEW r2, NEW m \in Int, NEW d,
         d \subseteq 1..Len(r1), Whole(c, l, r1, m, d), Extends(r1, r2)
  PROVE  Whole(c, l, r2, m, d)
<1>1. SameText(c, l, c, l)
  BY DEF SameText, Whole, Good
<1>2. d \subseteq d
  OBVIOUS
<1> QED BY <1>1, <1>2, WholeMoves

LEMMA BatchSizes ==
  ASSUME NEW kind \in DOMAIN BatchTypes
  PROVE  /\ Len(BatchTypes[kind]) \in {1, 2}
         /\ DOMAIN BatchTypes[kind] = 1..Len(BatchTypes[kind])
         /\ \A i \in 1..Len(BatchTypes[kind]) : BatchTypes[kind][i] \in Types
<1>1. /\ BatchTypes["user"] = <<"user">> /\ BatchTypes["tool"] = <<"tool", "result">>
      /\ BatchTypes["final"] = <<"final">> /\ kind \in {"user", "tool", "final"}
  BY DEF BatchTypes
<1>2. CASE kind = "user"
  BY <1>1, <1>2 DEF Types
<1>3. CASE kind = "tool"
  BY <1>1, <1>3 DEF Types
<1>4. CASE kind = "final"
  BY <1>1, <1>4 DEF Types
<1> QED BY <1>1, <1>2, <1>3, <1>4

\* Failed opens are counted like failed writes.
LEMMA BreaksBounded ==
  ASSUME HistoryAssumption, HistoryTypes, UNCHANGED breaks \/ Faulty
  PROVE  breaks' \in 0..MaxBreaks
BY DEF HistoryAssumption, HistoryTypes, Faulty

\* Records handed over go behind those before.
LEMMA PersistStep ==
  ASSUME HistoryAssumption, HistoryInv,
         NEW kind \in DOMAIN BatchTypes, NEW lens \in Lens(BatchTypes[kind]), Persist(kind, lens)
  PROVE  HistoryInv'
<1> DEFINE types == BatchTypes[kind]
<1> DEFINE n == Len(types)
<1> DEFINE new == [i \in DOMAIN types |-> [type |-> types[i], len |-> lens[i]]]
<1>1. n \in {1, 2} /\ DOMAIN types = 1..n /\ \A i \in 1..n : types[i] \in Types
  BY BatchSizes
<1>2. /\ pc = "idle" /\ Len(rec) + n <= MaxRecords
      /\ rec' = rec \o new
      /\ batch' = [i \in DOMAIN types |-> Len(rec) + i]
      /\ turnOpen' \in BOOLEAN /\ settled' = FALSE
      /\ \/ ValidPair /\ pc' = "append" /\ UNCHANGED data
         \/ pc' = "recreate" /\ data' = <<>>
      /\ UNCHANGED breaks \/ Faulty
      /\ UNCHANGED <<idx, blocked, moved, deleter, acked, damaged>>
  BY DEF Persist, Valid, Invalid
<1>3. \A i \in 1..n : lens[i] \in Nat \ {0}
  <2> TAKE i \in 1..n
  <2>1. lens[i] \in RecordLens[types[i]] /\ types[i] \in Types
    BY <1>1 DEF Lens
  <2>2. RecordLens[types[i]] \in SUBSET (Nat \ {0})
    BY <2>1 DEF HistoryAssumption
  <2> QED BY <2>1, <2>2
<1>4. new \in Seq(Record) /\ Len(new) = n
  <2>1. new = [i \in 1..n |-> [type |-> types[i], len |-> lens[i]]]
    BY <1>1
  <2>2. \A i \in 1..n : [type |-> types[i], len |-> lens[i]] \in Record
    BY <1>1, <1>3 DEF Record
  <2>3. n \in Nat
    BY <1>1
  <2> HIDE DEF new, types, n
  <2> QED BY <2>1, <2>2, <2>3
<1>5. HistoryTypes /\ BatchLast /\ IdlePair /\ EmptyIdx /\ Settled
  BY DEF HistoryInv
<1>6. rec \in Seq(Record) /\ Len(rec) \in Nat /\ acked \subseteq 1..Len(rec) /\ MaxRecords \in Nat
  BY <1>5 DEF HistoryTypes, HistoryAssumption
<1>7. batch = <<>> /\ moved = 0
  BY <1>2, <1>5 DEF BatchLast, HistoryTypes
<1> HIDE DEF new, types, n
<1>8. /\ rec' \in Seq(Record) /\ Len(rec') = Len(rec) + n /\ Len(rec') <= MaxRecords
      /\ \A i \in 1..Len(rec) : rec'[i] = rec[i]
  BY <1>2, <1>4, <1>6, Joined
<1>9. Extends(rec, rec')
  <2>1. DOMAIN rec = 1..Len(rec) /\ DOMAIN rec' = 1..Len(rec')
    BY <1>6, <1>8
  <2>2. \A i \in 1..Len(rec) : i \in 1..Len(rec')
    BY <1>1, <1>6, <1>8
  <2> QED BY <1>8, <2>1, <2>2 DEF Extends
<1>10. batch' \in Seq(Nat) /\ Len(batch') = n /\ \A i \in 1..n : batch'[i] = Len(rec) + i
  <2>1. batch' = [i \in 1..n |-> Len(rec) + i]
    BY <1>1, <1>2
  <2>2. n \in Nat /\ \A i \in 1..n : Len(rec) + i \in Nat
    BY <1>1, <1>6
  <2> QED BY <2>1, <2>2
<1>11. BatchLast'
  <2>1. \A i \in 1..Len(batch') : batch'[i] = Len(rec') - Len(batch') + i
    BY <1>1, <1>6, <1>8, <1>10
  <2>2. Len(batch') \in 0..2 /\ Len(batch') <= Len(rec') /\ batch' # <<>>
    BY <1>1, <1>6, <1>8, <1>10
  <2>3. pc' \in {"append", "recreate"}
    BY <1>2
  <2> QED BY <1>10, <2>1, <2>2, <2>3 DEF BatchLast
<1>12. HistoryTypes'
  <2>1. data' = Missing \/ data' \in Seq(Cell)
    <3>1. <<>> \in Seq(Cell)
      OBVIOUS
    <3> QED BY <1>2, <1>5, <3>1 DEF HistoryTypes
  <2>2. idx' = Missing \/ idx' = Torn \/ (idx' \in Seq(Entry) /\ Len(idx') + Len(batch') <= Len(rec'))
    <3>1. ASSUME idx \in Seq(Entry), Len(idx) + Len(batch) <= Len(rec)
          PROVE  Len(idx) + Len(batch') <= Len(rec')
      <4>1. Len(batch) = 0 /\ Len(idx) \in Nat
        BY <1>7, <3>1
      <4> QED BY <1>1, <1>6, <1>8, <1>10, <3>1, <4>1
    <3> QED BY <1>2, <1>5, <3>1 DEF HistoryTypes
  <2>3. acked' \subseteq 1..Len(rec')
    BY <1>1, <1>2, <1>6, <1>8
  <2>4. pc' \in {"idle", "recreate", "append", "closeIdx", "compact", "rewrite", "truncate"}
    BY <1>2
  <2>5. moved' = 0 /\ blocked' \in BOOLEAN /\ turnOpen' \in BOOLEAN
        /\ deleter' \in {"none", "idx", "marker"} /\ breaks' \in 0..MaxBreaks
        /\ damaged' \in BOOLEAN /\ settled' \in BOOLEAN
    BY <1>2, <1>5, <1>7, BreaksBounded DEF HistoryTypes
  <2> QED BY <1>8, <2>1, <2>2, <2>3, <2>4, <2>5 DEF HistoryTypes
<1>13. AppendPair'
  <2> SUFFICES ASSUME pc' = "append"
               PROVE  /\ ValidPair'
                      /\ ~damaged' => Whole(data', idx', rec', Len(rec') - Len(batch'), acked')
    BY DEF AppendPair
  <2>1. ValidPair /\ UNCHANGED <<data, idx>>
    BY <1>2
  <2>2. ASSUME ~damaged PROVE Whole(data, idx, rec', Len(rec), acked)
    <3>1. Whole(data, idx, rec, Len(rec), acked)
      BY <1>2, <1>5, <2>1, <2>2 DEF IdlePair
    <3>2. idx \in Seq(Entry) /\ Len(rec) \in Int
      BY <1>5, <1>6, <2>1, ValidTypes
    <3> QED BY <1>6, <1>9, <3>1, <3>2, WholeSame
  <2>3. Len(rec') - Len(batch') = Len(rec)
    BY <1>1, <1>6, <1>8, <1>10
  <2> QED BY <1>2, <2>1, <2>2, <2>3, ValidStays
<1>14. IdlePair' /\ RecreatePair' /\ ClosePair' /\ RewritePair' /\ TruncatePair'
  BY <1>2 DEF IdlePair, RecreatePair, ClosePair, RewritePair, TruncatePair
<1>15. EmptyIdx'
  <2>1. \A id \in acked : rec'[id] = rec[id]
    BY <1>6, <1>8
  <2> QED BY <1>2, <1>5, <2>1 DEF EmptyIdx
<1>16. Settled'
  BY <1>2 DEF Settled, SizeSettled
<1> QED BY <1>11, <1>12, <1>13, <1>14, <1>15, <1>16 DEF HistoryInv

LEMMA WholeEmpty ==
  ASSUME NEW c, NEW r, NEW m, NEW d, \A id \in d : r[id].type \notin Spoken
  PROVE  Whole(c, <<>>, r, m, d)
BY DEF Whole, Apart

\* An emptied pair holds nothing, and nothing is expected of it.
LEMMA RecreateStep == ASSUME HistoryAssumption, HistoryInv, Recreate PROVE HistoryInv'
<1>1. /\ pc = "recreate" /\ idx' = <<>> /\ acked' = {} /\ damaged' = FALSE
      /\ \/ batch = <<>> /\ pc' = "idle"
         \/ batch # <<>> /\ pc' = "append"
      /\ UNCHANGED <<data, blocked, rec, batch, moved, turnOpen, deleter, breaks, settled>>
  BY DEF Recreate, RecreateIdx
<1>2. HistoryTypes /\ BatchLast /\ RecreatePair /\ Settled
  BY DEF HistoryInv
<1>3. data = <<>> /\ moved = 0
  BY <1>1, <1>2 DEF RecreatePair, HistoryTypes
<1>4. BatchLast'
  BY <1>1, <1>2 DEF BatchLast
<1>5. HistoryTypes'
  <2>1. idx' \in Seq(Entry) /\ Len(idx') = 0 /\ Len(batch) <= Len(rec) /\ Len(batch) \in Nat
    BY <1>1, <1>2 DEF BatchLast
  <2>2. Len(idx') + Len(batch') <= Len(rec')
    BY <1>1, <2>1
  <2> QED BY <1>1, <1>2, <1>3, <2>1, <2>2 DEF HistoryTypes
<1>6. \A m : Whole(data', idx', rec', m, acked')
  BY <1>1, WholeEmpty
<1>7. ValidPair'
  <2>1. <<>> # Missing /\ <<>> # Torn
    <3>1. <<>> \in Seq(Entry)
      OBVIOUS
    <3> QED BY <3>1 DEF HistoryAssumption
  <2>2. data' = <<>> /\ idx' = <<>> /\ DOMAIN idx' = {}
    BY <1>1, <1>3
  <2> QED BY <2>1, <2>2 DEF ValidPair, Exists
<1>8. IdlePair' /\ AppendPair'
  BY <1>6, <1>7 DEF IdlePair, AppendPair
<1>9. RecreatePair' /\ ClosePair' /\ RewritePair' /\ TruncatePair'
  BY <1>1 DEF RecreatePair, ClosePair, RewritePair, TruncatePair
<1>10. EmptyIdx'
  BY <1>1 DEF EmptyIdx
<1>11. Settled'
  <2>1. settled' => pc' = "idle" \/ (pc' = "recreate" /\ batch' = <<>>)
    BY <1>1, <1>2 DEF Settled
  <2>2. SizeSettled'
    BY <1>1, <1>2 DEF Settled, SizeSettled, Exists
  <2> QED BY <2>1, <2>2 DEF Settled
<1> QED BY <1>4, <1>5, <1>8, <1>9, <1>10, <1>11 DEF HistoryInv

LEMMA AppendDataStep == ASSUME HistoryAssumption, HistoryInv, AppendData PROVE HistoryInv'
<1>1. /\ pc = "append" /\ data' = data \o BatchCells /\ pc' = "closeIdx"
      /\ UNCHANGED <<idx, blocked, rec, batch, moved, turnOpen, deleter, breaks, acked,
                     damaged, settled>>
  BY DEF AppendData
<1>2. HistoryTypes /\ BatchLast /\ AppendPair /\ EmptyIdx /\ Settled
  BY DEF HistoryInv
<1>3. /\ batch # <<>> /\ moved = 0 /\ settled = FALSE
      /\ ValidPair /\ (~damaged => Whole(data, idx, rec, Len(rec) - Len(batch), acked))
  BY <1>1, <1>2 DEF BatchLast, HistoryTypes, AppendPair, Settled
<1>4. data \in Seq(Cell) /\ idx \in Seq(Entry)
  BY <1>2, <1>3, ValidTypes
<1>5. BatchCells \in Seq(Cell) /\ BatchCells' = BatchCells
  <2>1. BatchCells \in Seq(Cell)
    BY <1>2, <1>3, BatchWritten
  <2>2. BatchCells' = BatchCells
    BY <1>1, BatchCellsStay
  <2> QED BY <2>1, <2>2
<1>6. data' \in Seq(Cell)
  BY <1>1, <1>4, <1>5
<1>7. HistoryTypes'
  BY <1>1, <1>2, <1>3, <1>6 DEF HistoryTypes
<1>8. BatchLast'
  BY <1>1, <1>2 DEF BatchLast
<1>9. ClosePair'
  BY <1>1, <1>3, <1>4, <1>5 DEF ClosePair
<1>10. IdlePair' /\ RecreatePair' /\ AppendPair' /\ RewritePair' /\ TruncatePair'
  BY <1>1 DEF IdlePair, RecreatePair, AppendPair, RewritePair, TruncatePair
<1>11. EmptyIdx'
  BY <1>1, <1>2 DEF EmptyIdx
<1>12. Settled'
  BY <1>1, <1>3 DEF Settled, SizeSettled
<1> QED BY <1>7, <1>8, <1>9, <1>10, <1>11, <1>12 DEF HistoryInv

\* The whole batch is in both files.
LEMMA CloseIdxStep == ASSUME HistoryAssumption, HistoryInv, CloseIdx PROVE HistoryInv'
<1>1. /\ pc = "closeIdx" /\ idx' = idx \o BatchEntries(Len(data) - Len(BatchCells))
      /\ acked' = acked \cup ToSet(batch) /\ pc' \in {"idle", "compact"} /\ batch' = <<>>
      /\ UNCHANGED <<data, blocked, rec, moved, turnOpen, deleter, breaks, damaged, settled>>
  BY DEF CloseIdx
<1>2. HistoryTypes /\ BatchLast /\ ClosePair /\ Settled
  BY DEF HistoryInv
<1>3. batch # <<>> /\ moved = 0 /\ settled = FALSE /\ idx \in Seq(Entry)
  BY <1>1, <1>2 DEF BatchLast, HistoryTypes, ClosePair, Settled
<1>4. PICK base \in Seq(Cell) :
        /\ data = base \o BatchCells
        /\ ~damaged => Whole(base, idx, rec, Len(rec) - Len(batch), acked)
  BY <1>1, <1>2 DEF ClosePair
<1> DEFINE size == Len(base)
<1> DEFINE es == BatchEntries(size)
<1>5. size \in Nat /\ BatchCells \in Seq(Cell)
      /\ es \in Seq(Entry) /\ Len(es) = Len(batch)
  BY <1>2, <1>3, BatchWritten
<1>6. Len(data) - Len(BatchCells) = size
  <2>1. Len(base \o BatchCells) = Len(base) + Len(BatchCells) /\ Len(BatchCells) \in Nat
    BY <1>5
  <2> QED BY <1>4, <1>5, <2>1
<1>7. idx' = idx \o es
  BY <1>1, <1>6
<1> HIDE DEF es
<1>8. idx' \in Seq(Entry) /\ Len(idx') = Len(idx) + Len(batch)
  <2>1. idx \o es \in Seq(Entry) /\ Len(idx \o es) = Len(idx) + Len(es)
    BY <1>3, <1>5, Joined
  <2> QED BY <1>5, <1>7, <2>1
<1>9. rec \in Seq(Record) /\ Len(rec) \in Nat /\ Len(batch) \in Nat
      /\ Len(idx) + Len(batch) <= Len(rec) /\ acked \subseteq 1..Len(rec)
      /\ Len(idx) \in Nat /\ Len(batch) <= Len(rec)
      /\ \A i \in 1..Len(batch) : batch[i] = Len(rec) - Len(batch) + i
  <2>1. idx # Missing /\ idx # Torn
    BY <1>3 DEF HistoryAssumption
  <2> QED BY <1>2, <1>3, <2>1 DEF HistoryTypes, BatchLast
<1>10. DOMAIN batch = 1..Len(batch) /\ \A i \in 1..Len(batch) : batch[i] \in 1..Len(rec)
  <2>1. DOMAIN batch = 1..Len(batch)
    BY <1>2 DEF BatchLast
  <2> QED BY <1>9, <2>1
<1>11. acked' \subseteq 1..Len(rec)
  BY <1>1, <1>9, <1>10 DEF ToSet
<1>12. HistoryTypes'
  <2>1. Len(batch') = 0
    BY <1>1
  <2>2. Len(idx') + Len(batch') <= Len(rec')
    BY <1>1, <1>8, <1>9, <2>1
  <2> QED BY <1>1, <1>2, <1>3, <1>8, <1>11, <2>2 DEF HistoryTypes
<1>13. BatchLast'
  <2>1. batch' \in Seq(Nat) /\ Len(batch') = 0
    BY <1>1
  <2> QED BY <1>1, <1>9, <2>1 DEF BatchLast
<1>14. ASSUME ~damaged, ValidPair' PROVE Whole(data', idx', rec', Len(rec'), acked')
  <2> DEFINE n == Len(BatchCells)
  <2> DEFINE m == Len(batch)
  <2>1. BatchCells = SubSeq(BatchCells, 1, n) /\ es = SubSeq(es, 1, m)
    BY <1>5
  <2>2. AppendedUpTo(base, idx, n, m, data, idx')
    <3>1. n \in 0..n /\ m \in 0..m
      BY <1>5, <1>9
    <3>2. \A i \in DOMAIN idx' : idx'[i].off + idx'[i].len <= Len(data)
      BY <1>1, <1>14 DEF ValidPair
    <3>3. data = base \o SubSeq(BatchCells, 1, n)
      BY <1>4, <2>1
    <3>4. idx' = idx \o SubSeq(BatchEntries(Len(base)), 1, m)
      BY <1>7, <2>1 DEF es
    <3> QED BY <1>3, <1>4, <3>1, <3>2, <3>3, <3>4 DEF AppendedUpTo
  <2> HIDE DEF n, m, size
  <2>3. /\ Whole(data, idx', rec, Len(rec), acked)
        /\ \A i \in 1..m : \E j \in DOMAIN idx' : Held(data, idx'[j]) = batch[i]
    <3>1. /\ acked \subseteq 1..Len(rec) /\ Whole(base, idx, rec, Len(rec) - Len(batch), acked)
          /\ batch # <<>>
      BY <1>3, <1>4, <1>9, <1>14
    <3>2. Whole(data, idx', rec, Len(rec), acked)
      BY <1>2, <2>2, <3>1, Appended
    <3>3. HoldsBatch(data, idx', m)
      BY <1>2, <2>2, <3>1, Appended
    <3> QED BY <3>2, <3>3 DEF HoldsBatch
  <2>4. \A id \in acked' : rec[id].type \in Spoken => \E j \in DOMAIN idx' : Held(data, idx'[j]) = id
    <3> TAKE id \in acked'
    <3> HAVE rec[id].type \in Spoken
    <3>1. CASE id \in acked
      BY <2>3, <3>1 DEF Whole
    <3>2. CASE id \in ToSet(batch)
      <4>1. PICK i \in 1..m : batch[i] = id
        BY <1>10, <3>2 DEF ToSet, m
      <4> QED BY <2>3, <4>1
    <3> QED BY <1>1, <3>1, <3>2
  <2>5. Whole(data, idx', rec, Len(rec), acked')
    BY <2>3, <2>4 DEF Whole
  <2> QED BY <1>1, <2>5
<1>15. IdlePair'
  BY <1>1, <1>14 DEF IdlePair
<1>16. RecreatePair' /\ AppendPair' /\ ClosePair' /\ RewritePair' /\ TruncatePair'
  BY <1>1 DEF RecreatePair, AppendPair, ClosePair, RewritePair, TruncatePair
<1>17. EmptyIdx'
  <2>1. Len(batch) # 0
    BY <1>2, <1>3 DEF BatchLast
  <2>2. idx' # <<>>
    BY <1>8, <1>9, <2>1
  <2> QED BY <2>2 DEF EmptyIdx
<1>18. Settled'
  BY <1>1, <1>3 DEF Settled, SizeSettled
<1> QED BY <1>12, <1>13, <1>15, <1>16, <1>17, <1>18 DEF HistoryInv

LEMMA CompactStep == ASSUME HistoryAssumption, HistoryInv, Compact PROVE HistoryInv'
<1>1. /\ pc = "compact"
      /\ \/ ~TooLarge /\ pc' = "idle" /\ settled' = TRUE /\ UNCHANGED <<data, blocked>>
         \/ TooLarge /\ pc' = "recreate" /\ data' = <<>> /\ UNCHANGED <<blocked, settled>>
         \/ /\ TooLarge /\ pc' = "idle" /\ blocked' \in BOOLEAN /\ settled' = blocked'
            /\ UNCHANGED data
         \/ /\ TooLarge /\ ValidPair /\ CompactedSize <= SizeLimit
            /\ pc' = "rewrite" /\ UNCHANGED <<data, blocked, settled>>
      /\ UNCHANGED breaks \/ Faulty
      /\ UNCHANGED <<idx, rec, batch, moved, turnOpen, deleter, acked, damaged>>
  BY DEF Compact, Valid, Invalid
<1>2. HistoryTypes /\ BatchLast /\ IdlePair /\ EmptyIdx /\ Settled
  BY DEF HistoryInv
<1>3. moved = 0 /\ settled = FALSE /\ batch = <<>>
  BY <1>1, <1>2 DEF HistoryTypes, BatchLast, Settled
<1>4. pc' \in {"idle", "recreate", "rewrite"} /\ settled' \in BOOLEAN /\ blocked' \in BOOLEAN
      /\ (data' = data \/ data' = <<>>)
  BY <1>1, <1>2, <1>3 DEF HistoryTypes
<1>5. HistoryTypes'
  <2>1. data' = Missing \/ data' \in Seq(Cell)
    <3>1. <<>> \in Seq(Cell)
      OBVIOUS
    <3> QED BY <1>2, <1>4, <3>1 DEF HistoryTypes
  <2>2. /\ rec' \in Seq(Record) /\ Len(rec') <= MaxRecords
        /\ idx' = Missing \/ idx' = Torn
             \/ (idx' \in Seq(Entry) /\ Len(idx') + Len(batch') <= Len(rec'))
        /\ moved' = 0 /\ turnOpen' \in BOOLEAN /\ deleter' \in {"none", "idx", "marker"}
        /\ acked' \subseteq 1..Len(rec') /\ damaged' \in BOOLEAN
    BY <1>1, <1>2, <1>3 DEF HistoryTypes
  <2>3. breaks' \in 0..MaxBreaks
    BY <1>1, <1>2, BreaksBounded
  <2> QED BY <1>4, <2>1, <2>2, <2>3 DEF HistoryTypes
<1>6. BatchLast'
  BY <1>1, <1>2, <1>3, <1>4 DEF BatchLast
<1>7. IdlePair'
  <2> SUFFICES ASSUME pc' = "idle", ValidPair', ~damaged'
               PROVE  Whole(data', idx', rec', Len(rec'), acked')
    BY <1>4 DEF IdlePair
  <2>1. UNCHANGED <<data, idx>>
    BY <1>1
  <2>2. ValidPair
    BY <2>1, ValidStays
  <2> QED BY <1>1, <1>2, <2>1, <2>2 DEF IdlePair
<1>8. RewritePair'
  <2> SUFFICES ASSUME pc' = "rewrite"
               PROVE  /\ ValidPair'
                      /\ CompactedSize' <= SizeLimit /\ SizeLimit < Len(data') /\ moved' <= Len(Kept')
                      /\ ~damaged' => /\ Apart(Kept')
                                      /\ Whole(data', Moving(moved)', rec', Len(rec'), acked')
    BY DEF RewritePair
  <2>1. TooLarge /\ ValidPair /\ CompactedSize <= SizeLimit /\ UNCHANGED <<data, idx>>
    BY <1>1
  <2>2. data \in Seq(Cell) /\ idx \in Seq(Entry)
    BY <1>2, <2>1, ValidTypes
  <2>3. CompactedSize <= SizeLimit /\ SizeLimit < Len(data)
    <3>1. Len(data) \in Nat /\ SizeLimit \in Nat
      BY <2>2 DEF HistoryAssumption
    <3>2. CompactedSize \in Nat
      <4>1. Len(Kept) + 1 \in 1..Len(Kept) + 1
        BY <2>2, KeptEntry
      <4> QED BY <2>2, <4>1, OffsetStep DEF CompactedSize
    <3> QED BY <2>1, <3>1, <3>2 DEF TooLarge
  <2>4. Kept' = Kept /\ CompactedSize' = CompactedSize /\ Moving(moved)' = Moving(0)
    BY <1>1, <1>3, <2>1, PlanStays, MovingStays
  <2>5. 0 <= Len(Kept)
    BY <2>2, KeptEntry
  <2>6. ASSUME ~damaged PROVE Apart(Kept) /\ Whole(data, Moving(0), rec, Len(rec), acked)
    <3>1. Whole(data, idx, rec, Len(rec), acked)
      BY <1>1, <1>2, <2>1, <2>6 DEF IdlePair
    <3> QED BY <2>2, <3>1, CompactionStarts
  <2> QED BY <1>1, <1>3, <2>1, <2>3, <2>4, <2>5, <2>6, ValidStays
<1>9. RecreatePair'
  BY <1>1 DEF RecreatePair
<1>10. AppendPair' /\ ClosePair' /\ TruncatePair'
  BY <1>4 DEF AppendPair, ClosePair, TruncatePair
<1>11. EmptyIdx'
  BY <1>1, <1>2 DEF EmptyIdx
<1>12. Settled'
  <2>1. SizeSettled'
    <3> SUFFICES ASSUME settled', data' # Missing, ~blocked' PROVE Len(data') <= SizeLimit
      BY DEF SizeSettled, Exists
    <3>1. ~TooLarge /\ data' = data
      BY <1>1, <1>3
    <3>2. data \in Seq(Cell) /\ SizeLimit \in Nat
      BY <1>2, <3>1 DEF HistoryTypes, HistoryAssumption
    <3>3. Len(data) \in Nat
      BY <3>2
    <3> QED BY <3>1, <3>2, <3>3 DEF TooLarge, Exists
  <2>2. settled' => pc' = "idle" \/ (pc' = "recreate" /\ batch' = <<>>)
    BY <1>1, <1>3
  <2> QED BY <2>1, <2>2 DEF Settled
<1> QED BY <1>5, <1>6, <1>7, <1>8, <1>9, <1>10, <1>11, <1>12 DEF HistoryInv

\* What the moves need of the files.
LEMMA RewriteFacts ==
  ASSUME HistoryAssumption, HistoryInv, pc = "rewrite"
  PROVE  /\ data \in Seq(Cell) /\ idx \in Seq(Entry) /\ EntriesFit /\ moved \in Nat
         /\ Len(data) \in Nat /\ SizeLimit \in Nat /\ moved <= Len(Kept)
         /\ CompactedSize \in Nat /\ CompactedSize <= SizeLimit /\ SizeLimit < Len(data)
         /\ \A m \in 1..Len(Kept) : NewOffset(m) + Kept[m].len <= Len(data)
         /\ batch = <<>> /\ settled = FALSE /\ Len(idx) <= Len(rec)
         /\ ~damaged => Apart(Kept) /\ Whole(data, Moving(moved), rec, Len(rec), acked)
         /\ rec \in Seq(Record) /\ acked \subseteq 1..Len(rec)
<1>1. HistoryTypes /\ BatchLast /\ RewritePair /\ Settled
  BY DEF HistoryInv
<1>2. /\ ValidPair /\ CompactedSize <= SizeLimit /\ SizeLimit < Len(data) /\ moved <= Len(Kept)
      /\ ~damaged => Apart(Kept) /\ Whole(data, Moving(moved), rec, Len(rec), acked)
  BY <1>1 DEF RewritePair
<1>3. /\ data \in Seq(Cell) /\ idx \in Seq(Entry) /\ EntriesFit
      /\ Len(idx) + Len(batch) <= Len(rec)
  BY <1>1, <1>2, ValidTypes
<1>4. batch = <<>> /\ settled = FALSE /\ moved \in Nat /\ rec \in Seq(Record)
      /\ acked \subseteq 1..Len(rec)
  BY <1>1 DEF BatchLast, Settled, HistoryTypes
<1>5. Len(idx) <= Len(rec)
  <2>1. Len(batch) = 0 /\ Len(idx) \in Nat
    BY <1>3, <1>4
  <2> QED BY <1>3, <2>1
<1>6. Len(data) \in Nat /\ SizeLimit \in Nat
  BY <1>3 DEF HistoryAssumption
<1>7. CompactedSize \in Nat /\ \A m \in 1..Len(Kept) : NewOffset(m + 1) <= CompactedSize
  <2>1. Len(Kept) + 1 \in 1..Len(Kept) + 1 /\ Len(Kept) \in Nat
    BY <1>3, KeptEntry
  <2>2. \A m \in 1..Len(Kept) : m + 1 \in 1..Len(Kept) + 1 /\ m + 1 <= Len(Kept) + 1
    BY <2>1
  <2> QED BY <1>3, <2>1, <2>2, OffsetStep DEF CompactedSize
<1>8. ASSUME NEW m \in 1..Len(Kept) PROVE NewOffset(m) + Kept[m].len <= Len(data)
  <2>1. NewOffset(m + 1) = NewOffset(m) + Kept[m].len /\ NewOffset(m + 1) \in Nat
    BY <1>3, KeptEntry
  <2> QED BY <1>2, <1>6, <1>7, <2>1
<1> QED BY <1>2, <1>3, <1>4, <1>5, <1>6, <1>7, <1>8

LEMMA MoveRecordStep == ASSUME HistoryAssumption, HistoryInv, MoveRecord PROVE HistoryInv'
<1>1. /\ pc = "rewrite" /\ moved < Len(Kept)
      /\ data' = Overwritten(Kept[moved + 1].len) /\ moved' = moved + 1
      /\ UNCHANGED <<idx, blocked, rec, pc, batch, turnOpen, deleter, breaks, acked,
                     damaged, settled>>
  BY DEF MoveRecord
<1>2. /\ data \in Seq(Cell) /\ idx \in Seq(Entry) /\ EntriesFit /\ moved \in Nat
      /\ Len(data) \in Nat /\ SizeLimit \in Nat
      /\ CompactedSize \in Nat /\ CompactedSize <= SizeLimit /\ SizeLimit < Len(data)
      /\ \A m \in 1..Len(Kept) : NewOffset(m) + Kept[m].len <= Len(data)
      /\ batch = <<>> /\ settled = FALSE
      /\ ~damaged => Apart(Kept) /\ Whole(data, Moving(moved), rec, Len(rec), acked)
      /\ rec \in Seq(Record) /\ acked \subseteq 1..Len(rec)
  BY <1>1, RewriteFacts
<1>3. HistoryTypes /\ BatchLast /\ RewritePair /\ EmptyIdx /\ Settled
  BY DEF HistoryInv
<1>4. Len(Kept) \in Nat /\ moved + 1 \in 1..Len(Kept)
  BY <1>1, <1>2, KeptEntry
<1>5. data' \in Seq(Cell) /\ Len(data') = Len(data)
  <2> DEFINE m == moved + 1
  <2>1. m = moved + 1 /\ m \in Nat /\ m \in 1..Len(Kept)
    BY <1>2, <1>4
  <2> DEFINE n == Kept[m].len
  <2>2. n \in Nat /\ n <= Kept[m].len /\ NewOffset(m) + Kept[m].len <= Len(data)
    BY <1>2, <1>4, KeptEntry
  <2>3. data' = Overwritten(n)
    BY <1>1
  <2> HIDE DEF m, n
  <2> QED BY <1>2, <2>1, <2>2, <2>3, OverwrittenIs
<1>6. HistoryTypes'
  <2>1. moved' \in Nat
    BY <1>1, <1>2
  <2> QED BY <1>1, <1>3, <1>5, <2>1 DEF HistoryTypes
<1>7. BatchLast'
  BY <1>1, <1>3 DEF BatchLast
<1>8. RewritePair'
  <2>1. ValidPair'
    <3>1. data # Missing /\ data' # Missing /\ idx = idx'
      BY <1>1, <1>2, <1>5 DEF HistoryAssumption
    <3>2. idx # <<>>
      <4>1. Len(Kept) <= Len(idx)
        BY <1>2, KeptEntry
      <4> QED BY <1>2, <1>4, <4>1
    <3>3. ValidPair
      BY <1>1, <1>3 DEF RewritePair
    <3> QED BY <1>5, <3>1, <3>2, <3>3 DEF ValidPair, Exists
  <2>2. Kept' = Kept /\ CompactedSize' = CompactedSize /\ Moving(moved)' = Moving(moved + 1)
    BY <1>1, PlanStays, MovingStays
  <2>3. moved + 1 <= Len(Kept)
    BY <1>4
  <2>4. ASSUME ~damaged PROVE Apart(Kept) /\ Whole(data', Moving(moved + 1), rec, Len(rec), acked)
    <3>1. Apart(Kept) /\ Whole(data, Moving(moved), rec, Len(rec), acked)
      BY <1>2, <2>4
    <3> QED BY <1>1, <1>2, <3>1, MoveKeeps
  <2> QED BY <1>1, <1>2, <1>5, <2>1, <2>2, <2>3, <2>4 DEF RewritePair
<1>9. IdlePair' /\ RecreatePair' /\ AppendPair' /\ ClosePair' /\ TruncatePair'
  BY <1>1 DEF IdlePair, RecreatePair, AppendPair, ClosePair, TruncatePair
<1>10. EmptyIdx'
  BY <1>1, <1>3 DEF EmptyIdx
<1>11. Settled'
  BY <1>1, <1>2 DEF Settled, SizeSettled
<1> QED BY <1>6, <1>7, <1>8, <1>9, <1>10, <1>11 DEF HistoryInv

LEMMA FlushIdxStep == ASSUME HistoryAssumption, HistoryInv, FlushIdx PROVE HistoryInv'
<1>1. /\ pc = "rewrite" /\ moved = Len(Kept)
      /\ data' = SubSeq(data, 1, CompactedSize) /\ idx' = Rewritten(moved) /\ pc' = "truncate"
      /\ UNCHANGED <<blocked, rec, batch, moved, turnOpen, deleter, breaks, acked, damaged,
                     settled>>
  BY DEF FlushIdx
<1>2. /\ data \in Seq(Cell) /\ idx \in Seq(Entry) /\ moved \in Nat
      /\ Len(data) \in Nat /\ SizeLimit \in Nat
      /\ CompactedSize \in Nat /\ CompactedSize <= SizeLimit /\ SizeLimit < Len(data)
      /\ batch = <<>> /\ settled = FALSE /\ Len(idx) <= Len(rec)
      /\ ~damaged => Apart(Kept) /\ Whole(data, Moving(moved), rec, Len(rec), acked)
      /\ rec \in Seq(Record) /\ acked \subseteq 1..Len(rec)
  BY <1>1, RewriteFacts
<1>3. HistoryTypes /\ BatchLast /\ EmptyIdx
  BY DEF HistoryInv
<1>4. idx' \in Seq(Entry) /\ Len(idx') = Len(idx) /\ moved <= Len(idx)
  <2>1. moved <= Len(Kept) /\ Len(Kept) <= Len(idx)
    BY <1>1, <1>2, KeptEntry
  <2> QED BY <1>1, <1>2, <2>1, RewrittenIs
<1>5. data' \in Seq(Cell) /\ Len(data') = CompactedSize
  <2>1. CompactedSize \in 0..Len(data)
    BY <1>2
  <2> QED BY <1>1, <1>2, <2>1, Prefix
<1>6. HistoryTypes'
  <2>1. Len(idx') + Len(batch') <= Len(rec')
    <3>1. Len(batch') = 0 /\ Len(idx) \in Nat
      BY <1>1, <1>2
    <3> QED BY <1>1, <1>2, <1>4, <3>1
  <2> QED BY <1>1, <1>3, <1>4, <1>5, <2>1 DEF HistoryTypes
<1>7. BatchLast'
  BY <1>1, <1>2, <1>3 DEF BatchLast
<1>8. TruncatePair'
  <2>1. Len(data') <= SizeLimit
    BY <1>2, <1>5
  <2>2. ASSUME ~damaged PROVE Whole(data', SubSeq(idx', 1, moved'), rec, Len(rec), acked)
    <3>1. CompactedSize <= Len(data) /\ Apart(Kept)
          /\ Whole(data, Moving(Len(Kept)), rec, Len(rec), acked)
      BY <1>1, <1>2, <2>2
    <3>2. Whole(SubSeq(data, 1, CompactedSize), SubSeq(Rewritten(Len(Kept)), 1, Len(Kept)),
                rec, Len(rec), acked)
      BY <1>2, <3>1, CutKeeps
    <3> QED BY <1>1, <3>2
  <2> QED BY <1>1, <1>4, <1>5, <2>1, <2>2 DEF TruncatePair
<1>9. IdlePair' /\ RecreatePair' /\ AppendPair' /\ ClosePair' /\ RewritePair'
  BY <1>1 DEF IdlePair, RecreatePair, AppendPair, ClosePair, RewritePair
<1>10. EmptyIdx'
  <2>1. idx' = <<>> => idx = <<>>
    BY <1>2, <1>4
  <2> QED BY <1>1, <1>3, <2>1 DEF EmptyIdx
<1>11. Settled'
  BY <1>1, <1>2 DEF Settled, SizeSettled
<1> QED BY <1>6, <1>7, <1>8, <1>9, <1>10, <1>11 DEF HistoryInv

LEMMA TruncateIdxStep == ASSUME HistoryAssumption, HistoryInv, TruncateIdx PROVE HistoryInv'
<1>1. /\ pc = "truncate" /\ idx' = SubSeq(idx, 1, moved)
      /\ pc' = "idle" /\ moved' = 0 /\ settled' = TRUE
      /\ UNCHANGED <<data, blocked, rec, batch, turnOpen, deleter, breaks, acked, damaged>>
  BY DEF TruncateIdx
<1>2. HistoryTypes /\ BatchLast /\ TruncatePair
  BY DEF HistoryInv
<1>3. /\ data \in Seq(Cell) /\ idx \in Seq(Entry) /\ moved <= Len(idx) /\ moved \in Nat
      /\ Len(data) <= SizeLimit
      /\ ~damaged => Whole(data, SubSeq(idx, 1, moved), rec, Len(rec), acked)
  BY <1>1, <1>2 DEF TruncatePair, HistoryTypes
<1>4. idx' \in Seq(Entry) /\ Len(idx') = moved
  <2>1. moved \in 0..Len(idx)
    BY <1>3
  <2> QED BY <1>1, <1>3, <2>1, Prefix
<1>5. HistoryTypes'
  <2>1. Len(idx') + Len(batch') <= Len(rec')
    <3>1. Len(idx) + Len(batch) <= Len(rec)
      BY <1>2, <1>3 DEF HistoryTypes, HistoryAssumption
    <3>2. Len(idx) \in Nat /\ Len(batch) \in Nat /\ Len(rec) \in Nat
      BY <1>2, <1>3 DEF HistoryTypes, BatchLast
    <3> QED BY <1>1, <1>3, <1>4, <3>1, <3>2
  <2> QED BY <1>1, <1>2, <1>4, <2>1 DEF HistoryTypes
<1>6. BatchLast'
  BY <1>1, <1>2 DEF BatchLast
<1>7. ~damaged => Whole(data', idx', rec', Len(rec'), acked')
  BY <1>1, <1>3
<1>8. IdlePair'
  BY <1>1, <1>7 DEF IdlePair
<1>9. RecreatePair' /\ AppendPair' /\ ClosePair' /\ RewritePair' /\ TruncatePair'
  BY <1>1 DEF RecreatePair, AppendPair, ClosePair, RewritePair, TruncatePair
<1>10. EmptyIdx'
  <2> SUFFICES ASSUME idx' = <<>>, ~damaged' PROVE \A id \in acked' : rec'[id].type \notin Spoken
    BY DEF EmptyIdx
  <2>1. Whole(data', idx', rec', Len(rec'), acked') /\ DOMAIN idx' = {}
    BY <1>1, <1>7
  <2> QED BY <2>1 DEF Whole
<1>11. Settled'
  BY <1>1, <1>3 DEF Settled, SizeSettled
<1> QED BY <1>5, <1>6, <1>8, <1>9, <1>10, <1>11 DEF HistoryInv

LEMMA LoadResetsStep == ASSUME HistoryAssumption, HistoryInv, LoadResets PROVE HistoryInv'
<1>1. /\ pc = "idle" /\ data' = <<>> /\ pc' = "recreate"
      /\ UNCHANGED breaks \/ Faulty
      /\ UNCHANGED <<idx, blocked, rec, batch, moved, turnOpen, deleter, acked,
                     damaged, settled>>
  BY DEF LoadResets
<1>2. HistoryTypes /\ BatchLast /\ EmptyIdx /\ Settled
  BY DEF HistoryInv
<1>3. moved = 0 /\ batch = <<>> /\ <<>> \in Seq(Cell)
  BY <1>1, <1>2 DEF HistoryTypes, BatchLast
<1>4. HistoryTypes'
  <2>1. breaks' \in 0..MaxBreaks
    BY <1>1, <1>2, BreaksBounded
  <2> QED BY <1>1, <1>2, <1>3, <2>1 DEF HistoryTypes
<1>5. BatchLast'
  BY <1>1, <1>2, <1>3 DEF BatchLast
<1>6. RecreatePair' /\ IdlePair' /\ AppendPair' /\ ClosePair' /\ RewritePair' /\ TruncatePair'
  BY <1>1 DEF RecreatePair, IdlePair, AppendPair, ClosePair, RewritePair, TruncatePair
<1>7. EmptyIdx'
  BY <1>1, <1>2 DEF EmptyIdx
<1>8. Settled'
  <2>1. Len(data') = 0 /\ SizeLimit \in Nat
    BY <1>1 DEF HistoryAssumption
  <2>2. Len(data') <= SizeLimit
    BY <2>1
  <2> QED BY <1>1, <1>3, <2>2 DEF Settled, SizeSettled
<1> QED BY <1>4, <1>5, <1>6, <1>7, <1>8 DEF HistoryInv

\* A file that does not exist makes no valid pair.
LEMMA DeleteDataStep == ASSUME HistoryAssumption, HistoryInv, DeleteData PROVE HistoryInv'
<1>1. /\ pc \in {"idle", "compact"} /\ data' = Missing
      /\ deleter' = "idx" /\ acked' = {} /\ settled' = FALSE
      /\ UNCHANGED <<idx, blocked, rec, pc, batch, moved, turnOpen, breaks, damaged>>
  BY DEF DeleteData, NotOpen
<1>2. HistoryTypes /\ BatchLast
  BY DEF HistoryInv
<1>3. HistoryTypes'
  BY <1>1, <1>2 DEF HistoryTypes
<1>4. BatchLast'
  BY <1>1, <1>2 DEF BatchLast
<1>5. ~ValidPair'
  BY <1>1 DEF ValidPair, Exists
<1>6. RecreatePair' /\ IdlePair' /\ AppendPair' /\ ClosePair' /\ RewritePair' /\ TruncatePair'
  BY <1>1, <1>5 DEF RecreatePair, IdlePair, AppendPair, ClosePair, RewritePair, TruncatePair
<1>7. EmptyIdx' /\ Settled'
  BY <1>1 DEF EmptyIdx, Settled, SizeSettled
<1> QED BY <1>3, <1>4, <1>6, <1>7 DEF HistoryInv

LEMMA DeleteIdxStep == ASSUME HistoryAssumption, HistoryInv, DeleteIdx PROVE HistoryInv'
<1>1. /\ pc \in {"idle", "compact"} /\ idx' = Missing /\ deleter' = "marker"
      /\ UNCHANGED <<data, blocked, rec, pc, batch, moved, turnOpen, breaks, acked, damaged,
                     settled>>
  BY DEF DeleteIdx, NotOpen
<1>2. HistoryTypes /\ BatchLast /\ Settled
  BY DEF HistoryInv
<1>3. HistoryTypes'
  BY <1>1, <1>2 DEF HistoryTypes
<1>4. BatchLast'
  BY <1>1, <1>2 DEF BatchLast
<1>5. ~ValidPair'
  BY <1>1 DEF ValidPair, Exists
<1>6. RecreatePair' /\ IdlePair' /\ AppendPair' /\ ClosePair' /\ RewritePair' /\ TruncatePair'
  BY <1>1, <1>5 DEF RecreatePair, IdlePair, AppendPair, ClosePair, RewritePair, TruncatePair
<1>7. EmptyIdx'
  <2>1. <<>> # Missing
    <3>1. <<>> \in Seq(Entry)
      OBVIOUS
    <3> QED BY <3>1 DEF HistoryAssumption
  <2> QED BY <1>1, <2>1 DEF EmptyIdx
<1>8. Settled'
  BY <1>1, <1>2 DEF Settled, SizeSettled, Exists
<1> QED BY <1>3, <1>4, <1>6, <1>7, <1>8 DEF HistoryInv

\* Steps that leave the files, the plan and the history alone.
LEMMA FilesStay ==
  ASSUME HistoryAssumption, HistoryInv,
         UNCHANGED <<data, idx, rec, pc, batch, moved, acked, damaged>>,
         HistoryTypes', Settled'
  PROVE  HistoryInv'
<1>1. HistoryTypes /\ BatchLast /\ IdlePair /\ RecreatePair /\ AppendPair /\ ClosePair
      /\ RewritePair /\ TruncatePair /\ EmptyIdx
  BY DEF HistoryInv
<1>2. ValidPair' = ValidPair
  BY ValidStays
<1>3. Kept' = Kept /\ CompactedSize' = CompactedSize /\ Moving(moved)' = Moving(moved)
  BY PlanStays, MovingStays
<1>4. BatchCells' = BatchCells
  BY BatchCellsStay
<1>5. BatchLast'
  BY <1>1 DEF BatchLast
<1>6. IdlePair'
  BY <1>1, <1>2 DEF IdlePair
<1>7. RecreatePair'
  BY <1>1 DEF RecreatePair
<1>8. AppendPair'
  BY <1>1, <1>2 DEF AppendPair
<1>9. ClosePair'
  BY <1>1, <1>4 DEF ClosePair
<1>10. RewritePair'
  BY <1>1, <1>2, <1>3 DEF RewritePair
<1>11. TruncatePair'
  BY <1>1 DEF TruncatePair
<1>12. EmptyIdx'
  BY <1>1 DEF EmptyIdx
<1> QED BY <1>5, <1>6, <1>7, <1>8, <1>9, <1>10, <1>11, <1>12 DEF HistoryInv

LEMMA DeleteMarkerStep == ASSUME HistoryAssumption, HistoryInv, DeleteMarker PROVE HistoryInv'
<1>1. /\ blocked' = FALSE /\ deleter' = "none" /\ settled' = FALSE
      /\ UNCHANGED <<data, idx, rec, pc, batch, moved, turnOpen, breaks, acked, damaged>>
  BY DEF DeleteMarker
<1>2. HistoryTypes
  BY DEF HistoryInv
<1>3. HistoryTypes'
  BY <1>1, <1>2 DEF HistoryTypes
<1>4. Settled'
  BY <1>1 DEF Settled, SizeSettled
<1> QED BY <1>1, <1>3, <1>4, FilesStay

LEMMA DeleteFailsStep == ASSUME HistoryAssumption, HistoryInv, DeleteFails PROVE HistoryInv'
<1>1. /\ deleter' = "none"
      /\ UNCHANGED <<data, idx, blocked, rec, pc, batch, moved, turnOpen, breaks, acked, damaged,
                     settled>>
  BY DEF DeleteFails, files
<1>2. HistoryTypes /\ Settled
  BY DEF HistoryInv
<1>3. HistoryTypes'
  BY <1>1, <1>2 DEF HistoryTypes
<1>4. Settled'
  BY <1>1, <1>2 DEF Settled, SizeSettled, Exists
<1> QED BY <1>1, <1>3, <1>4, FilesStay

\* The files a break leaves: what of them is valid reads as it should.
Survives ==
  /\ data' = Missing \/ data' \in Seq(Cell)
  /\ idx' = Missing \/ idx' = Torn \/ (idx' \in Seq(Entry) /\ Len(idx') <= Len(rec))
  /\ damaged' \in BOOLEAN
  /\ ValidPair' /\ ~damaged' => Whole(data', idx', rec, Len(rec), acked)
  /\ idx' = <<>> /\ ~damaged' => \A id \in acked : rec[id].type \notin Spoken
  /\ pc = "idle" => data' = data

LEMMA TornPair == ASSUME idx' = Torn PROVE ~ValidPair'
BY DEF ValidPair

\* A break while the batch is appended, to a data file that was `base'.
LEMMA AppendBreaks ==
  ASSUME HistoryAssumption, HistoryTypes, BatchLast, EmptyIdx, batch # <<>>, pc # "idle",
         NEW base \in Seq(Cell), idx \in Seq(Entry), Len(idx) + Len(batch) <= Len(rec),
         ~damaged => Whole(base, idx, rec, Len(rec) - Len(batch), acked),
         NEW n \in 0..Len(BatchCells), data' = base \o SubSeq(BatchCells, 1, n),
         \/ \E m \in 0..Len(batch) : idx' = idx \o SubSeq(BatchEntries(Len(base)), 1, m)
         \/ idx' = Torn,
         damaged' = damaged
  PROVE  Survives
<1>1. /\ Len(base) \in Nat /\ Len(idx) \in Nat /\ Len(batch) \in Nat
      /\ rec \in Seq(Record) /\ Len(rec) \in Nat /\ acked \subseteq 1..Len(rec) /\ damaged \in BOOLEAN
  BY DEF HistoryTypes, BatchLast
<1>2. /\ BatchCells \in Seq(Cell) /\ BatchEntries(Len(base)) \in Seq(Entry)
      /\ Len(BatchEntries(Len(base))) = Len(batch)
  BY <1>1, BatchWritten
<1>3. data' \in Seq(Cell)
  BY <1>2, JoinedPrefix
<1>4. CASE idx' = Torn
  <2>1. idx' # <<>>
    <3>1. <<>> \in Seq(Entry)
      OBVIOUS
    <3> QED BY <1>4, <3>1 DEF HistoryAssumption
  <2> QED BY <1>1, <1>3, <1>4, <2>1, TornPair DEF Survives
<1>5. ASSUME NEW m \in 0..Len(batch), idx' = idx \o SubSeq(BatchEntries(Len(base)), 1, m)
      PROVE  Survives
  <2>1. idx' \in Seq(Entry) /\ Len(idx') = Len(idx) + m
    BY <1>2, <1>5, JoinedPrefix
  <2>2. Len(idx') <= Len(rec) /\ (idx' = <<>> => idx = <<>>)
    <3>0. m \in Nat /\ m <= Len(batch)
      BY <1>1
    <3>1. Len(idx') = 0 => Len(idx) = 0
      <4> DEFINE l == Len(idx)
      <4> DEFINE k == Len(idx')
      <4>1. l \in Nat /\ m \in Nat /\ k = l + m
        BY <1>1, <2>1, <3>0
      <4> HIDE DEF l, k
      <4>2. k = 0 => l = 0
        BY <4>1
      <4> QED BY <4>2 DEF l, k
    <3>2. Len(idx') <= Len(rec)
      BY <1>1, <2>1, <3>0
    <3> QED BY <3>1, <3>2
  <2>3. ASSUME ValidPair', ~damaged PROVE Whole(data', idx', rec, Len(rec), acked)
    <3>1. \A i \in DOMAIN idx' : idx'[i].off + idx'[i].len <= Len(data')
      BY <2>3 DEF ValidPair
    <3>2. AppendedUpTo(base, idx, n, m, data', idx')
      BY <1>5, <3>1 DEF AppendedUpTo
    <3>3. Whole(base, idx, rec, Len(rec) - Len(batch), acked)
      BY <2>3
    <3> QED BY <1>1, <3>2, <3>3, Appended
  <2> QED BY <1>1, <1>3, <2>1, <2>2, <2>3 DEF Survives, EmptyIdx
<1> QED BY <1>4, <1>5

LEMMA AftermathSurvives == ASSUME HistoryAssumption, HistoryInv, Aftermath PROVE Survives
<1>1. HistoryTypes /\ BatchLast /\ IdlePair /\ RecreatePair /\ AppendPair /\ ClosePair
      /\ TruncatePair /\ EmptyIdx
  BY DEF HistoryInv
<1>2. Len(batch) \in Nat /\ rec \in Seq(Record) /\ Len(rec) \in Nat /\ acked \subseteq 1..Len(rec)
      /\ damaged \in BOOLEAN
  BY <1>1 DEF HistoryTypes, BatchLast
<1>3. idx = Missing \/ idx = Torn \/ (idx \in Seq(Entry) /\ Len(idx) <= Len(rec))
  <2>1. ASSUME idx \in Seq(Entry), Len(idx) + Len(batch) <= Len(rec) PROVE Len(idx) <= Len(rec)
    <3>1. Len(idx) \in Nat
      BY <2>1
    <3> QED BY <1>2, <2>1, <3>1
  <2> QED BY <1>1, <2>1 DEF HistoryTypes
<1>4. CASE pc \in {"idle", "compact"} /\ UNCHANGED <<data, idx, damaged>>
  <2>1. ValidPair' = ValidPair
    BY <1>4, ValidStays
  <2> QED BY <1>1, <1>2, <1>3, <1>4, <2>1 DEF Survives, HistoryTypes, IdlePair, EmptyIdx
<1>5. CASE pc = "recreate" /\ idx' \in {idx, Torn} /\ UNCHANGED <<data, damaged>>
  <2>1. data' = <<>> /\ <<>> \in Seq(Cell) /\ <<>> \in Seq(Entry)
    BY <1>1, <1>5 DEF RecreatePair
  <2>2. Torn # <<>> /\ Missing # <<>>
    BY <2>1 DEF HistoryAssumption
  <2>3. ASSUME ValidPair' PROVE idx' = <<>>
    <3>1. idx' = idx /\ idx # Missing /\ idx # Torn
      BY <1>5, <2>3, TornPair DEF ValidPair, Exists
    <3>2. idx \in Seq(Entry)
      BY <1>3, <3>1
    <3>3. \A i \in DOMAIN idx : idx[i].off + idx[i].len <= 0
      BY <2>1, <2>3, <3>1 DEF ValidPair
    <3>4. ASSUME NEW i \in DOMAIN idx PROVE FALSE
      <4>1. idx[i] \in Entry
        BY <3>2
      <4>2. idx[i].off \in Nat /\ idx[i].len \in Nat \ {0}
        BY <4>1 DEF Entry
      <4> QED BY <3>3, <4>2
    <3>5. Len(idx) = 0
      <4>1. Len(idx) \in Nat /\ DOMAIN idx = 1..Len(idx)
        BY <3>2
      <4>2. Len(idx) # 0 => 1 \in DOMAIN idx
        BY <4>1
      <4> QED BY <3>4, <4>2
    <3> QED BY <3>1, <3>2, <3>5
  <2>4. idx' = <<>> /\ ~damaged' => \A id \in acked : rec[id].type \notin Spoken
    BY <1>1, <1>5, <2>2 DEF EmptyIdx
  <2>5. ValidPair' /\ ~damaged' => Whole(data', idx', rec, Len(rec), acked)
    BY <2>3, <2>4, WholeEmpty
  <2>6. idx' = Missing \/ idx' = Torn \/ (idx' \in Seq(Entry) /\ Len(idx') <= Len(rec))
    BY <1>3, <1>5
  <2> QED BY <1>2, <1>5, <2>1, <2>4, <2>5, <2>6 DEF Survives
<1>6. CASE /\ pc = "append"
           /\ \E n \in 0..Len(BatchCells) : data' = data \o SubSeq(BatchCells, 1, n)
           /\ \/ \E n \in 0..Len(batch) : idx' = idx \o SubSeq(BatchEntries(Len(data)), 1, n)
              \/ idx' = Torn
           /\ UNCHANGED damaged
  <2>1. ValidPair /\ (~damaged => Whole(data, idx, rec, Len(rec) - Len(batch), acked))
    BY <1>1, <1>6 DEF AppendPair
  <2>2. data \in Seq(Cell) /\ idx \in Seq(Entry) /\ Len(idx) + Len(batch) <= Len(rec)
    BY <1>1, <2>1, ValidTypes
  <2>3. batch # <<>> /\ pc # "idle"
    BY <1>1, <1>6 DEF BatchLast
  <2>4. PICK n \in 0..Len(BatchCells) : data' = data \o SubSeq(BatchCells, 1, n)
    BY <1>6
  <2>5. \/ \E m \in 0..Len(batch) : idx' = idx \o SubSeq(BatchEntries(Len(data)), 1, m)
        \/ idx' = Torn
    BY <1>6
  <2>6. damaged' = damaged
    BY <1>6
  <2> QED BY <1>1, <2>1, <2>2, <2>3, <2>4, <2>5, <2>6, AppendBreaks
<1>7. CASE /\ pc = "closeIdx"
           /\ \/ \E n \in 0..Len(batch) :
                   idx' = idx \o SubSeq(BatchEntries(Len(data) - Len(BatchCells)), 1, n)
              \/ idx' = Torn
           /\ UNCHANGED <<data, damaged>>
  <2>1. PICK base \in Seq(Cell) :
          /\ data = base \o BatchCells
          /\ ~damaged => Whole(base, idx, rec, Len(rec) - Len(batch), acked)
    BY <1>1, <1>7 DEF ClosePair
  <2>2. idx \in Seq(Entry) /\ Len(idx) + Len(batch) <= Len(rec)
    BY <1>1, <1>7 DEF ClosePair, HistoryTypes, HistoryAssumption
  <2>3. batch # <<>> /\ pc # "idle"
    BY <1>1, <1>7 DEF BatchLast
  <2>4. BatchCells \in Seq(Cell) /\ Len(BatchCells) \in Nat /\ Len(base) \in Nat
    BY <1>1, <2>3, BatchWritten
  <2>5. Len(data) - Len(BatchCells) = Len(base)
    <3>1. Len(base \o BatchCells) = Len(base) + Len(BatchCells)
      BY <2>4
    <3> QED BY <2>1, <2>4, <3>1
  <2> DEFINE n == Len(BatchCells)
  <2>6. n \in 0..Len(BatchCells) /\ data' = base \o SubSeq(BatchCells, 1, n)
    <3>1. SubSeq(BatchCells, 1, n) = BatchCells
      BY <2>4
    <3> QED BY <1>7, <2>1, <2>4, <3>1
  <2>7. \/ \E m \in 0..Len(batch) : idx' = idx \o SubSeq(BatchEntries(Len(base)), 1, m)
        \/ idx' = Torn
    BY <1>7, <2>5
  <2>8. damaged' = damaged
    BY <1>7
  <2> HIDE DEF n
  <2> QED BY <1>1, <2>1, <2>2, <2>3, <2>6, <2>7, <2>8, AppendBreaks
<1>8. CASE /\ pc = "rewrite"
           /\ \/ UNCHANGED data
              \/ /\ moved < Len(Kept)
                 /\ \E n \in 1..Kept[moved + 1].len : data' = Overwritten(n)
           /\ \E n \in 0..moved : idx' = Rewritten(n)
           /\ damaged' = TRUE
  <2>1. /\ data \in Seq(Cell) /\ idx \in Seq(Entry) /\ EntriesFit /\ moved \in Nat
        /\ moved <= Len(Kept) /\ Len(idx) <= Len(rec)
        /\ \A m \in 1..Len(Kept) : NewOffset(m) + Kept[m].len <= Len(data)
    BY <1>8, RewriteFacts
  <2>2. Len(Kept) \in Nat /\ \A m \in 1..Len(Kept) : Kept[m].len \in Nat
    BY <2>1, KeptEntry
  <2>3. data' \in Seq(Cell)
    <3>1. ASSUME moved < Len(Kept), NEW n \in 1..Kept[moved + 1].len, data' = Overwritten(n)
          PROVE  data' \in Seq(Cell)
      <4> DEFINE m == moved + 1
      <4>1. m = moved + 1 /\ m \in Nat /\ m \in 1..Len(Kept)
        BY <2>1, <2>2, <3>1
      <4>2. n \in Nat /\ n <= Kept[m].len /\ NewOffset(m) + Kept[m].len <= Len(data)
        BY <2>1, <2>2, <4>1
      <4> HIDE DEF m
      <4>3. Overwritten(n) \in Seq(Cell)
        BY <2>1, <4>1, <4>2, OverwrittenIs
      <4> QED BY <3>1, <4>3
    <3> QED BY <1>8, <2>1, <3>1
  <2>4. idx' \in Seq(Entry) /\ Len(idx') <= Len(rec)
    <3>1. PICK n \in 0..moved : idx' = Rewritten(n)
      BY <1>8
    <3>2. n \in Nat /\ n <= Len(Kept)
      BY <2>1, <2>2
    <3>3. Rewritten(n) \in Seq(Entry) /\ Len(Rewritten(n)) = Len(idx)
      BY <2>1, <3>2, RewrittenIs
    <3> QED BY <2>1, <3>1, <3>3
  <2> QED BY <1>8, <2>3, <2>4 DEF Survives
<1>9. CASE pc = "truncate" /\ damaged' = TRUE /\ UNCHANGED <<data, idx>>
  BY <1>1, <1>3, <1>9 DEF Survives, HistoryTypes
<1> QED BY <1>4, <1>5, <1>6, <1>7, <1>8, <1>9 DEF Aftermath

LEMMA BreakStep == ASSUME HistoryAssumption, HistoryInv, Break PROVE HistoryInv'
<1>1. /\ breaks < MaxBreaks /\ breaks' = breaks + 1
      /\ Aftermath
      /\ pc' = "idle" /\ batch' = <<>> /\ moved' = 0
      /\ settled' = (settled /\ pc = "idle")
      /\ turnOpen' \in {turnOpen, FALSE} /\ deleter' \in {deleter, "none"}
      /\ UNCHANGED <<blocked, rec, acked>>
  BY DEF Break, Faulty
<1>2. HistoryTypes /\ Settled
  BY DEF HistoryInv
<1>3. Survives
  BY <1>1, AftermathSurvives
<1>4. HistoryTypes'
  <2>1. idx' = Missing \/ idx' = Torn \/ (idx' \in Seq(Entry) /\ Len(idx') + Len(batch') <= Len(rec'))
    <3>1. ASSUME idx' \in Seq(Entry), Len(idx') <= Len(rec) PROVE Len(idx') + Len(batch') <= Len(rec')
      <4>1. Len(batch') = 0 /\ Len(idx') \in Nat
        BY <1>1, <3>1
      <4> QED BY <1>1, <3>1, <4>1
    <3> QED BY <1>3, <3>1 DEF Survives
  <2>2. breaks' \in 0..MaxBreaks
    BY <1>1, <1>2 DEF HistoryTypes, HistoryAssumption
  <2>3. data' = Missing \/ data' \in Seq(Cell)
    BY <1>3 DEF Survives
  <2>4. damaged' \in BOOLEAN /\ settled' \in BOOLEAN /\ turnOpen' \in BOOLEAN
        /\ deleter' \in {"none", "idx", "marker"} /\ moved' = 0 /\ pc' = "idle"
    BY <1>1, <1>2, <1>3 DEF HistoryTypes, Survives
  <2>5. rec' \in Seq(Record) /\ Len(rec') <= MaxRecords /\ acked' \subseteq 1..Len(rec')
        /\ blocked' \in BOOLEAN
    BY <1>1, <1>2 DEF HistoryTypes
  <2> QED BY <2>1, <2>2, <2>3, <2>4, <2>5 DEF HistoryTypes
<1>5. BatchLast'
  <2>1. batch' \in Seq(Nat) /\ Len(batch') = 0 /\ Len(rec') \in Nat
    BY <1>1, <1>4 DEF HistoryTypes
  <2> QED BY <1>1, <2>1 DEF BatchLast
<1>6. IdlePair'
  BY <1>1, <1>3 DEF IdlePair, Survives
<1>7. RecreatePair' /\ AppendPair' /\ ClosePair' /\ RewritePair' /\ TruncatePair'
  BY <1>1 DEF RecreatePair, AppendPair, ClosePair, RewritePair, TruncatePair
<1>8. EmptyIdx'
  BY <1>1, <1>3 DEF EmptyIdx, Survives
<1>9. Settled'
  BY <1>1, <1>2, <1>3 DEF Settled, SizeSettled, Survives, Exists
<1> QED BY <1>4, <1>5, <1>6, <1>7, <1>8, <1>9 DEF HistoryInv

-----------------------------------------------------------------------------
(***************************************************************************)
(* Theorems.                                                               *)
(***************************************************************************)

LEMMA HistoryInit == ASSUME HistoryAssumption, Init PROVE HistoryInv
<1>1. /\ data = Missing /\ idx = Missing /\ blocked = FALSE
      /\ rec = <<>> /\ pc = "idle" /\ batch = <<>> /\ moved = 0
      /\ turnOpen = FALSE /\ deleter = "none" /\ breaks = 0
      /\ acked = {} /\ damaged = FALSE /\ settled = FALSE
  BY DEF Init
<1>2. Len(rec) = 0 /\ Len(batch) = 0 /\ MaxRecords \in Nat /\ MaxBreaks \in Nat
  BY <1>1 DEF HistoryAssumption
<1>3. HistoryTypes
  <2>1. rec \in Seq(Record) /\ Len(rec) <= MaxRecords /\ breaks \in 0..MaxBreaks
        /\ acked \subseteq 1..Len(rec)
    BY <1>1, <1>2
  <2> QED BY <1>1, <2>1 DEF HistoryTypes
<1>4. BatchLast
  BY <1>1, <1>2 DEF BatchLast
<1>5. ~ValidPair
  BY <1>1 DEF ValidPair, Exists
<1>6. RecreatePair /\ IdlePair /\ AppendPair /\ ClosePair /\ RewritePair /\ TruncatePair
  BY <1>1, <1>5 DEF RecreatePair, IdlePair, AppendPair, ClosePair, RewritePair, TruncatePair
<1>7. EmptyIdx /\ Settled
  BY <1>1 DEF EmptyIdx, Settled, SizeSettled
<1> QED BY <1>3, <1>4, <1>6, <1>7 DEF HistoryInv

LEMMA HistoryStays == ASSUME HistoryAssumption, HistoryInv, UNCHANGED vars PROVE HistoryInv'
<1>1. UNCHANGED <<data, idx, blocked, rec, pc, batch, moved, turnOpen, deleter, breaks, acked,
                  damaged, settled>>
  BY DEF vars, files
<1>2. HistoryTypes /\ Settled
  BY DEF HistoryInv
<1>3. HistoryTypes'
  BY <1>1, <1>2 DEF HistoryTypes
<1>4. Settled'
  BY <1>1, <1>2 DEF Settled, SizeSettled, Exists
<1> QED BY <1>1, <1>3, <1>4, FilesStay

LEMMA HistoryNext == ASSUME HistoryAssumption, HistoryInv, [Next]_vars PROVE HistoryInv'
<1>1. CASE \E kind \in DOMAIN BatchTypes :
             \E lens \in Lens(BatchTypes[kind]) : Persist(kind, lens)
  BY <1>1, PersistStep
<1>2. CASE Recreate
  BY <1>2, RecreateStep
<1>3. CASE AppendData
  BY <1>3, AppendDataStep
<1>4. CASE CloseIdx
  BY <1>4, CloseIdxStep
<1>5. CASE Compact
  BY <1>5, CompactStep
<1>6. CASE MoveRecord
  BY <1>6, MoveRecordStep
<1>7. CASE FlushIdx
  BY <1>7, FlushIdxStep
<1>8. CASE TruncateIdx
  BY <1>8, TruncateIdxStep
<1>9. CASE LoadResets
  BY <1>9, LoadResetsStep
<1>10. CASE Break
  BY <1>10, BreakStep
<1>11. CASE Delete
  BY <1>11, DeleteDataStep, DeleteIdxStep, DeleteMarkerStep, DeleteFailsStep DEF Delete
<1>12. CASE UNCHANGED vars
  BY <1>12, HistoryStays
<1> QED BY <1>1, <1>2, <1>3, <1>4, <1>5, <1>6, <1>7, <1>8, <1>9, <1>10, <1>11, <1>12 DEF Next

LEMMA HistoryInvType == ASSUME HistoryAssumption, HistoryInv PROVE TypeOK
<1>1. HistoryTypes /\ BatchLast /\ RewritePair /\ TruncatePair
  BY DEF HistoryInv
<1>2. Len(rec) \in Nat /\ Len(rec) <= MaxRecords /\ MaxRecords \in Nat
  BY <1>1 DEF HistoryTypes, HistoryAssumption
<1>3. batch \in Seq(1..MaxRecords)
  <2>1. batch \in Seq(Nat) /\ \A i \in 1..Len(batch) : batch[i] \in 1..MaxRecords
    BY <1>1, <1>2 DEF BatchLast
  <2> QED BY <2>1, Retyped
<1>4. moved \in 0..MaxRecords
  <2>1. CASE moved = 0
    BY <1>2, <2>1
  <2>2. CASE pc = "rewrite"
    <3>1. moved \in Nat /\ moved <= Len(Kept) /\ idx \in Seq(Entry) /\ Len(idx) <= Len(rec)
      BY <2>2, RewriteFacts
    <3>2. Len(Kept) \in Nat /\ Len(Kept) <= Len(idx) /\ Len(idx) \in Nat
      BY <3>1, KeptEntry
    <3> QED BY <1>2, <3>1, <3>2
  <2>3. CASE pc = "truncate"
    <3>1. moved \in Nat /\ moved <= Len(idx) /\ idx \in Seq(Entry)
      BY <1>1, <2>3 DEF HistoryTypes, TruncatePair
    <3>2. Len(idx) + Len(batch) <= Len(rec) /\ Len(batch) \in Nat /\ Len(idx) \in Nat
      BY <1>1, <3>1 DEF HistoryTypes, HistoryAssumption, BatchLast
    <3> QED BY <1>2, <3>1, <3>2
  <2> QED BY <1>1, <2>1, <2>2, <2>3 DEF HistoryTypes
<1>5. acked \subseteq 1..MaxRecords
  BY <1>1, <1>2 DEF HistoryTypes
<1>6. rec \in Seq([type : Types, len : Nat])
  <2>1. Record \subseteq [type : Types, len : Nat]
    BY DEF Record
  <2>2. \A i \in 1..Len(rec) : rec[i] \in [type : Types, len : Nat]
    BY <1>1, <2>1 DEF HistoryTypes
  <2>3. rec \in Seq(Record)
    BY <1>1 DEF HistoryTypes
  <2> QED BY <2>2, <2>3, Retyped
<1> QED BY <1>1, <1>2, <1>3, <1>4, <1>5, <1>6 DEF TypeOK, HistoryTypes, Exists

\* A quiet history is whole.
LEMMA QuietWhole ==
  ASSUME HistoryAssumption, HistoryInv, Quiet
  PROVE  /\ Whole(data, idx, rec, Len(rec), acked)
         /\ data \in Seq(Cell) /\ idx \in Seq(Entry)
         /\ \A i \in DOMAIN idx : ReadBy(idx[i]) = Held(data, idx[i])
         /\ Loaded = {Held(data, idx[i]) : i \in DOMAIN idx}
<1>1. HistoryTypes /\ IdlePair /\ ValidPair /\ pc = "idle" /\ ~damaged /\ Loadable
  BY DEF HistoryInv, Quiet, Loadable
<1>2. Whole(data, idx, rec, Len(rec), acked) /\ data \in Seq(Cell) /\ idx \in Seq(Entry)
  BY <1>1, ValidTypes DEF IdlePair
<1>3. ASSUME NEW i \in DOMAIN idx PROVE ReadBy(idx[i]) = Held(data, idx[i])
  <2> DEFINE o == idx[i].off
  <2> DEFINE l == idx[i].len
  <2>1. idx[i] \in Entry /\ o + l <= Len(data)
    BY <1>2 DEF Whole, Good
  <2>2. o \in Nat /\ l \in Nat /\ l >= 1 /\ Len(data) \in Nat
    BY <1>2, <2>1 DEF Entry
  <2> HIDE DEF o, l
  <2>3. o + 1 \in 1..Len(data) + 1 /\ o + l \in 0..Len(data) /\ o + 1 <= o + l
    BY <2>1, <2>2
  <2>4. SubSeq(data, o + 1, o + l)[1] = data[o + 1]
    <3> DEFINE a == o + 1
    <3> DEFINE b == o + l
    <3>1. a \in 1..Len(data) + 1 /\ b \in a - 1..Len(data) /\ 1 \in 1..b - a + 1 /\ a + 1 - 1 = a
      BY <2>1, <2>2
    <3> HIDE DEF a, b
    <3>2. \A k \in 1..b - a + 1 : SubSeq(data, a, b)[k] = data[a + k - 1]
      BY <1>2, <3>1, SubSeqProperties
    <3> QED BY <3>1, <3>2 DEF a, b
  <2> QED BY <2>4 DEF ReadBy, At, Held, o, l
<1> QED BY <1>1, <1>2, <1>3 DEF Loaded

LEMMA HistoryInvOrder == ASSUME HistoryAssumption, HistoryInv PROVE HistoryInOrder
<1> SUFFICES ASSUME Quiet
             PROVE  /\ \A i \in DOMAIN idx : rec[ReadBy(idx[i])].type = idx[i].type
                    /\ \A i, j \in DOMAIN idx : i < j => ReadBy(idx[i]) < ReadBy(idx[j])
  BY DEF HistoryInOrder
<1>1. Whole(data, idx, rec, Len(rec), acked)
      /\ \A i \in DOMAIN idx : ReadBy(idx[i]) = Held(data, idx[i])
  BY QuietWhole
<1> QED BY <1>1 DEF Whole, Good

LEMMA HistoryInvKept == ASSUME HistoryAssumption, HistoryInv PROVE NothingForgotten
<1> SUFFICES ASSUME Quiet, NEW id \in acked, rec[id].type \in {"user", "final"}
             PROVE  id \in Loaded
  BY DEF NothingForgotten
<1>1. /\ Whole(data, idx, rec, Len(rec), acked)
      /\ Loaded = {Held(data, idx[i]) : i \in DOMAIN idx}
  BY QuietWhole
<1> QED BY <1>1 DEF Whole, Spoken

LEMMA MaxIs ==
  ASSUME NEW b \in Nat, NEW S, S \subseteq 0..b, S # {}
  PROVE  Max(S) \in S /\ \A y \in S : y <= Max(S)
<1> DEFINE T == {n \in Nat : b - n \in S}
<1>1. T # {}
  <2>1. PICK x \in S : TRUE
    OBVIOUS
  <2>2. b - x \in Nat /\ b - (b - x) = x
    BY <2>1
  <2> QED BY <2>1, <2>2
<1>2. PICK n \in T : \A m \in T : n <= m
  <2>1. T \subseteq Nat
    OBVIOUS
  <2> HIDE DEF T
  <2> QED BY <1>1, <2>1, LeastNumber
<1>3. ASSUME NEW y \in S PROVE b - n >= y
  <2>1. b - y \in Nat /\ b - (b - y) = y /\ n \in Nat
    BY <1>2
  <2>2. b - y \in T
    BY <2>1
  <2>3. n <= b - y
    BY <1>2, <2>2
  <2> QED BY <2>1, <2>3
<1>4. \E x \in S : \A y \in S : x >= y
  BY <1>2, <1>3
<1>5. Max(S) \in S /\ \A y \in S : Max(S) >= y
  BY <1>4 DEF Max
<1> QED BY <1>5

-----------------------------------------------------------------------------
(***************************************************************************)
(* The turns that ran tools.                                               *)
(***************************************************************************)

\* A record belongs to the turn of the last user text before it.
InTurn(known, records, u, id) ==
  u <= id /\ \A v \in known : records[v].type = "user" /\ v <= id => v <= u

OfTools(records, id) == records[id].type \in {"tool", "result"}

UserTexts(known, records) == {u \in known : records[u].type = "user"}

\* A turn that ran tools and has been completed.
Ran(known, records, u) ==
  /\ \E t \in known : OfTools(records, t) /\ InTurn(known, records, u, t)
  /\ \E f \in known : records[f].type = "final" /\ InTurn(known, records, u, f)

NewestRan(known, records, u) ==
  /\ u \in UserTexts(known, records) /\ Ran(known, records, u)
  /\ \A v \in UserTexts(known, records) : u < v => ~Ran(known, records, v)

LastText(known, records, u) ==
  /\ u \in UserTexts(known, records)
  /\ \A v \in UserTexts(known, records) : v <= u

\* No tool call is held without its result; the tool records of the newest turn
\* that ran them and has been completed are held, and so are those of the last.
Turns(held, ids, records) ==
  LET known == ids \cup held
  IN  /\ \A id \in ids : records[id].type = "tool" => (id \in held <=> id + 1 \in held)
      /\ \A u, t \in known : NewestRan(known, records, u) /\ OfTools(records, t)
                             /\ InTurn(known, records, u, t) => t \in held
      /\ \A u, t \in known : LastText(known, records, u) /\ OfTools(records, t) /\ u <= t => t \in held

\* Records that come later leave the turns before them as they are.
LEMMA TurnsApart ==
  ASSUME NEW known, NEW new, NEW r, known \subseteq Nat, new \subseteq Nat,
         \A a \in known, b \in new : a < b,
         NEW u \in Nat, NEW id \in known
  PROVE  InTurn(known \cup new, r, u, id) <=> InTurn(known, r, u, id)
<1>1. ASSUME NEW v \in new, v <= id PROVE FALSE
  <2>1. id < v /\ id \in Nat /\ v \in Nat
    OBVIOUS
  <2> QED BY <1>1, <2>1
<1> QED BY <1>1 DEF InTurn

\* What an append adds to the history.
Adds(held, ids, new, ids2) ==
  /\ held \subseteq Nat /\ ids \subseteq Nat /\ new \subseteq Nat
  /\ \A a \in ids \cup held, b \in new : a < b
  /\ ids \subseteq ids2 /\ ids2 \subseteq ids \cup new

\* The tool calls among them have been appended with their results.
Paired(ids, r) == \A id \in ids : r[id].type = "tool" => id + 1 \in ids

LEMMA TurnsGrow ==
  ASSUME NEW held, NEW ids, NEW new, NEW ids2, NEW r,
         Adds(held, ids, new, ids2), Turns(held, ids, r),
         Paired(ids, r), Paired(ids2, r)
  PROVE  Turns(held \cup new, ids2, r)
<1> DEFINE known == ids \cup held
<1> DEFINE held2 == held \cup new
<1> DEFINE known2 == known \cup new
<1>1. /\ known \subseteq Nat /\ new \subseteq Nat /\ ids2 \cup held2 = known2
      /\ \A a \in known, b \in new : a < b
      /\ held \subseteq known /\ ids \subseteq known
      /\ \A id \in ids2 : id \in ids \/ id \in new
  BY DEF Adds
<1>2. /\ \A id \in ids : r[id].type = "tool" => (id \in held <=> id + 1 \in held)
      /\ \A u, t \in known : NewestRan(known, r, u) /\ OfTools(r, t) /\ InTurn(known, r, u, t)
                             => t \in held
      /\ \A u, t \in known : LastText(known, r, u) /\ OfTools(r, t) /\ u <= t => t \in held
  BY DEF Turns
<1> HIDE DEF known, held2
<1>3. ASSUME NEW b \in new, NEW a \in known, b <= a PROVE FALSE
  <2>1. a < b /\ a \in Nat /\ b \in Nat
    BY <1>1
  <2> QED BY <1>3, <2>1
<1>4. \A u \in Nat, id \in known : InTurn(known2, r, u, id) <=> InTurn(known, r, u, id)
  BY <1>1, TurnsApart
<1> HIDE DEF known2
<1>5. known2 = known \cup new /\ held2 = held \cup new /\ known2 \subseteq Nat
  BY <1>1 DEF known2, held2
<1>6. ASSUME NEW id \in ids2, r[id].type = "tool" PROVE id \in held2 <=> id + 1 \in held2
  <2>1. CASE id \in ids
    <3>1. id + 1 \in known /\ id \in known
      BY <1>1, <1>6, <2>1 DEF Paired
    <3>2. id \notin new /\ id + 1 \notin new
      <4>1. id \in Nat /\ id + 1 \in Nat
        BY <1>1, <3>1
      <4>2. id <= id /\ id + 1 <= id + 1
        BY <4>1
      <4> QED BY <1>3, <3>1, <4>2
    <3> QED BY <1>2, <1>5, <1>6, <2>1, <3>2
  <2>2. CASE id \in new /\ id \notin ids
    <3>1. id + 1 \in ids2
      BY <1>6 DEF Paired
    <3>2. id + 1 \notin ids
      <4>1. id \in Nat
        BY <1>1, <2>2
      <4>2. id <= id + 1
        BY <4>1
      <4> QED BY <1>1, <1>3, <2>2, <4>2
    <3> QED BY <1>1, <1>5, <2>2, <3>1, <3>2
  <2> QED BY <1>1, <2>1, <2>2
<1>7. ASSUME NEW u \in known2, NEW t \in known2, LastText(known2, r, u), OfTools(r, t), u <= t
      PROVE  t \in held2
  <2>1. CASE t \in new
    BY <1>5, <2>1
  <2>2. CASE t \in known
    <3>1. u \in known
      BY <1>3, <1>5, <1>7, <2>2
    <3>2. LastText(known, r, u)
      BY <1>5, <1>7, <3>1 DEF LastText, UserTexts
    <3> QED BY <1>2, <1>5, <1>7, <2>2, <3>1, <3>2
  <2> QED BY <1>5, <2>1, <2>2
<1>8. ASSUME NEW u \in known2, NEW t \in known2, NewestRan(known2, r, u), OfTools(r, t),
             InTurn(known2, r, u, t)
      PROVE  t \in held2
  <2>1. CASE t \in new
    BY <1>5, <2>1
  <2>2. CASE t \in known
    <3>0. u <= t
      BY <1>8 DEF InTurn
    <3>1. u \in known /\ u \in Nat
      BY <1>1, <1>3, <1>5, <2>2, <3>0
    <3>2. InTurn(known, r, u, t) /\ u \in UserTexts(known, r)
      BY <1>4, <1>8, <2>2, <3>1 DEF NewestRan, UserTexts
    <3>3. CASE LastText(known, r, u)
      BY <1>2, <1>5, <1>8, <2>2, <3>0, <3>1, <3>3
    <3>4. CASE ~LastText(known, r, u)
      <4>1. PICK w \in UserTexts(known, r) : ~(w <= u)
        BY <3>2, <3>4 DEF LastText
      <4>2. w \in known /\ w \in known2 /\ r[w].type = "user" /\ w \in Nat
        BY <1>1, <1>5, <4>1 DEF UserTexts
      <4>3. ASSUME NEW id \in known2, InTurn(known2, r, u, id) PROVE id \in known
        <5>1. ~(w <= id)
          BY <4>1, <4>2, <4>3 DEF InTurn
        <5>2. id \in Nat
          BY <1>5
        <5>3. id \notin new
          BY <1>3, <4>2, <5>1, <5>2
        <5> QED BY <1>5, <5>3
      <4>4. Ran(known, r, u)
        BY <1>4, <1>8, <3>1, <4>3 DEF NewestRan, Ran
      <4>5. ASSUME NEW v \in UserTexts(known, r), u < v, Ran(known, r, v) PROVE FALSE
        <5>1. v \in known /\ v \in Nat /\ v \in UserTexts(known2, r)
          BY <1>1, <1>5 DEF UserTexts
        <5>2. Ran(known2, r, v)
          BY <1>4, <1>5, <4>5, <5>1 DEF Ran
        <5> QED BY <1>8, <4>5, <5>1, <5>2 DEF NewestRan
      <4>6. NewestRan(known, r, u)
        BY <3>2, <4>4, <4>5 DEF NewestRan
      <4> QED BY <1>2, <1>5, <1>8, <2>2, <3>1, <3>2, <4>6
    <3> QED BY <3>3, <3>4
  <2> QED BY <1>5, <2>1, <2>2
<1>9. ids2 \cup held2 = known2
  BY <1>1, <1>5
<1>10. Turns(held2, ids2, r)
  BY <1>6, <1>7, <1>8, <1>9 DEF Turns
<1> QED BY <1>10 DEF held2

\* The turns are those of the records, which stay as they are.
LEMMA TurnsSame ==
  ASSUME NEW held, NEW ids, NEW r, NEW r2, \A id \in ids \cup held : r2[id] = r[id],
         Turns(held, ids, r)
  PROVE  Turns(held, ids, r2)
<1> DEFINE known == ids \cup held
<1>1. \A id \in known : OfTools(r2, id) = OfTools(r, id)
  BY DEF OfTools
<1>2. UserTexts(known, r2) = UserTexts(known, r)
  BY DEF UserTexts
<1>3. \A u, id \in known : InTurn(known, r2, u, id) <=> InTurn(known, r, u, id)
  BY DEF InTurn
<1>4. \A u \in known : Ran(known, r2, u) <=> Ran(known, r, u)
  BY <1>1, <1>3 DEF Ran
<1>5. \A u \in known : NewestRan(known, r2, u) <=> NewestRan(known, r, u)
  <2>1. UserTexts(known, r) \subseteq known
    BY DEF UserTexts
  <2> QED BY <1>2, <1>4, <2>1 DEF NewestRan
<1>6. \A u \in known : LastText(known, r2, u) <=> LastText(known, r, u)
  BY <1>2 DEF LastText
<1>7. \A id \in ids : r2[id] = r[id] /\ id \in known
  OBVIOUS
<1>8. /\ \A id \in ids : r[id].type = "tool" => (id \in held <=> id + 1 \in held)
      /\ \A u, t \in known : NewestRan(known, r, u) /\ OfTools(r, t) /\ InTurn(known, r, u, t)
                             => t \in held
      /\ \A u, t \in known : LastText(known, r, u) /\ OfTools(r, t) /\ u <= t => t \in held
  BY DEF Turns
<1> HIDE DEF known
<1>9. \A u, t \in known : NewestRan(known, r2, u) /\ OfTools(r2, t) /\ InTurn(known, r2, u, t)
                             => t \in held
  BY <1>1, <1>3, <1>5, <1>8
<1>10. \A u, t \in known : LastText(known, r2, u) /\ OfTools(r2, t) /\ u <= t => t \in held
  BY <1>1, <1>6, <1>8
<1>11. \A id \in ids : r2[id].type = "tool" => (id \in held <=> id + 1 \in held)
  BY <1>7, <1>8
<1> QED BY <1>9, <1>10, <1>11 DEF Turns, known

\* Nothing is held of a history without user texts.
LEMMA TurnsEmpty ==
  ASSUME NEW ids, NEW r, \A id \in ids : r[id].type \notin Spoken
  PROVE  Turns({}, ids, r)
<1>1. UserTexts(ids \cup {}, r) = {}
  BY DEF UserTexts, Spoken
<1> QED BY <1>1 DEF Turns, NewestRan, LastText

LEMMA StartIs ==
  ASSUME NEW i \in Nat, i >= 1
  PROVE  /\ TurnStart(i) \in 1..i
         /\ TurnStart(i) = 1 \/ idx[TurnStart(i)].type = "user"
         /\ \A j \in 1..i : idx[j].type = "user" => j <= TurnStart(i)
<1> DEFINE S == {j \in 1..i : j = 1 \/ idx[j].type = "user"}
<1>1. 1 \in S /\ S \subseteq 0..i
  OBVIOUS
<1>2. TurnStart(i) = Max(S)
  BY DEF TurnStart
<1>3. Max(S) \in S /\ \A j \in S : j <= Max(S)
  <2> HIDE DEF S
  <2> QED BY <1>1, MaxIs
<1>4. /\ Max(S) \in 1..i /\ (Max(S) = 1 \/ idx[Max(S)].type = "user")
      /\ \A j \in 1..i : idx[j].type = "user" => j \in S
  BY <1>3
<1> HIDE DEF S
<1> QED BY <1>2, <1>3, <1>4

\* The index reads the records of a history.
HistoryReads ==
  /\ idx \in Seq(Entry) /\ rec \in Seq(Record) /\ acked \subseteq 1..Len(rec)
  /\ Whole(data, idx, rec, Len(rec), acked)

Number(i) == Held(data, idx[i])

\* Positions are in the order of the records they read.
LEMMA NumberIs ==
  ASSUME HistoryReads
  PROVE  /\ Len(idx) \in Nat /\ DOMAIN idx = 1..Len(idx)
         /\ \A i \in 1..Len(idx) : Number(i) \in 1..Len(rec) /\ rec[Number(i)].type = idx[i].type
         /\ \A i, j \in 1..Len(idx) : i <= j <=> Number(i) <= Number(j)
         /\ Reads(data, idx) = {Number(i) : i \in 1..Len(idx)}
         /\ \A id \in acked : rec[id].type \in Spoken => \E i \in 1..Len(idx) : id = Number(i)
<1>1. Len(idx) \in Nat /\ DOMAIN idx = 1..Len(idx) /\ \A i \in 1..Len(idx) : idx[i] \in Entry
  BY DEF HistoryReads
<1>2. \A i \in 1..Len(idx) : Number(i) \in 1..Len(rec) /\ rec[Number(i)].type = idx[i].type
  <2> TAKE i \in 1..Len(idx)
  <2>1. Good(data, rec, idx[i]) /\ idx[i] \in Entry /\ rec \in Seq(Record)
    BY <1>1 DEF HistoryReads, Whole
  <2> QED BY <2>1, HeldNumber DEF Good, Number
<1>3. ASSUME NEW i \in 1..Len(idx), NEW j \in 1..Len(idx) PROVE i <= j <=> Number(i) <= Number(j)
  <2>1. /\ i < j => Number(i) < Number(j)
        /\ j < i => Number(j) < Number(i)
    BY <1>1 DEF HistoryReads, Whole, Number
  <2>2. Number(i) \in Nat /\ Number(j) \in Nat /\ i \in Nat /\ j \in Nat
    BY <1>1, <1>2
  <2>3. i < j \/ j < i \/ i = j
    BY <2>2
  <2> QED BY <2>1, <2>2, <2>3
<1>4. Reads(data, idx) = {Number(i) : i \in 1..Len(idx)}
  BY <1>1 DEF Reads, Number
<1>5. \A id \in acked : rec[id].type \in Spoken => \E i \in 1..Len(idx) : id = Number(i)
  BY <1>1 DEF HistoryReads, Whole, Number
<1> QED BY <1>1, <1>2, <1>3, <1>4, <1>5

\* What is known of a history: what was appended and what its index reads.
Told == acked \cup Reads(data, idx)

\* User texts and final answers that are known are read.
LEMMA SpokenRead ==
  ASSUME HistoryReads, NEW id \in Told, rec[id].type \in Spoken
  PROVE  \E i \in 1..Len(idx) : id = Number(i) /\ idx[i].type = rec[id].type
<1>1. \E i \in 1..Len(idx) : id = Number(i)
  BY NumberIs DEF Told
<1> QED BY <1>1, NumberIs

\* The turn of a position is the turn of its record.
LEMMA StartInTurn ==
  ASSUME HistoryReads, NEW p \in 1..Len(idx), idx[p].type = "user", NEW i \in 1..Len(idx)
  PROVE  TurnStart(i) = p <=> InTurn(Told, rec, Number(p), Number(i))
<1>1. /\ i \in Nat /\ i >= 1 /\ p \in Nat /\ p >= 1 /\ Len(idx) \in Nat
      /\ \A j \in 1..Len(idx) : Number(j) \in Nat /\ rec[Number(j)].type = idx[j].type
                                /\ Number(j) \in Told
  BY NumberIs DEF Told
<1>2. /\ TurnStart(i) \in 1..i
      /\ TurnStart(i) = 1 \/ idx[TurnStart(i)].type = "user"
      /\ \A j \in 1..i : idx[j].type = "user" => j <= TurnStart(i)
  BY <1>1, StartIs
<1>3. \A a, b \in 1..Len(idx) : a <= b <=> Number(a) <= Number(b)
  BY NumberIs
<1>4. ASSUME TurnStart(i) = p PROVE InTurn(Told, rec, Number(p), Number(i))
  <2>1. p <= i
    BY <1>1, <1>2, <1>4
  <2>2. ASSUME NEW v \in Told, rec[v].type = "user", v <= Number(i) PROVE v <= Number(p)
    <3>1. PICK j \in 1..Len(idx) : v = Number(j) /\ idx[j].type = "user"
      BY <2>2, SpokenRead DEF Spoken
    <3>2. j \in 1..i
      BY <1>1, <1>3, <2>2, <3>1
    <3>3. j <= p
      BY <1>2, <1>4, <3>1, <3>2
    <3> QED BY <1>3, <3>1, <3>3
  <2> QED BY <1>3, <2>1, <2>2 DEF InTurn
<1>5. ASSUME InTurn(Told, rec, Number(p), Number(i)) PROVE TurnStart(i) = p
  <2>1. p \in 1..i
    BY <1>1, <1>3, <1>5 DEF InTurn
  <2>2. p <= TurnStart(i)
    BY <1>2, <2>1
  <2>3. TurnStart(i) <= p
    <3>1. CASE TurnStart(i) = 1
      BY <1>1, <3>1
    <3>2. CASE idx[TurnStart(i)].type = "user"
      <4> DEFINE q == TurnStart(i)
      <4>1. q \in 1..Len(idx) /\ q <= i
        BY <1>1, <1>2
      <4> HIDE DEF q
      <4>2. Number(q) <= Number(i) /\ rec[Number(q)].type = "user" /\ Number(q) \in Told
        BY <1>1, <1>3, <3>2, <4>1 DEF q
      <4>3. Number(q) <= Number(p)
        BY <1>5, <4>2 DEF InTurn
      <4>4. q <= p
        BY <1>3, <4>1, <4>3
      <4> QED BY <4>4 DEF q
    <3> QED BY <1>2, <3>1, <3>2
  <2> QED BY <1>1, <1>2, <2>2, <2>3
<1> QED BY <1>4, <1>5

\* A completed turn with tools, at its positions, and one that ran.
LEMMA TurnRan ==
  ASSUME HistoryReads, NEW j \in 1..Len(idx), idx[TurnStart(j)].type = "user",
         Completed(j), HasTools(j)
  PROVE  /\ TurnStart(j) \in 1..Len(idx) /\ Number(TurnStart(j)) \in UserTexts(Told, rec)
         /\ Ran(Told, rec, Number(TurnStart(j)))
<1> DEFINE q == TurnStart(j)
<1>1. /\ DOMAIN idx = 1..Len(idx) /\ Len(idx) \in Nat /\ j \in Nat /\ j >= 1
      /\ \A i \in 1..Len(idx) : rec[Number(i)].type = idx[i].type /\ Number(i) \in Told
  BY NumberIs DEF Told
<1>2. q \in 1..Len(idx)
  <2>1. q \in 1..j
    BY <1>1, StartIs
  <2> QED BY <1>1, <2>1
<1>3. PICK f \in 1..Len(idx) : TurnStart(f) = q /\ idx[f].type = "final"
  BY <1>1 DEF Completed, Turn
<1>4. PICK t \in 1..Len(idx) : TurnStart(t) = q /\ idx[t].type \in {"tool", "result"}
  BY <1>1 DEF HasTools, Turn
<1>5. idx[q].type = "user"
  OBVIOUS
<1> HIDE DEF q
<1>6. InTurn(Told, rec, Number(q), Number(f)) /\ InTurn(Told, rec, Number(q), Number(t))
  BY <1>2, <1>3, <1>4, <1>5, StartInTurn
<1>7. Ran(Told, rec, Number(q))
  BY <1>1, <1>3, <1>4, <1>6 DEF Ran, OfTools
<1> QED BY <1>1, <1>2, <1>5, <1>7 DEF UserTexts, q

\* The newest completed turn that ran tools keeps its tool records.
LEMMA NewestKeeps ==
  ASSUME HistoryReads, NEW p \in 1..Len(idx), NewestRan(Told, rec, Number(p)),
         NEW i \in 1..Len(idx), TurnStart(i) = p
  PROVE  KeepsTools(i)
<1>1. /\ DOMAIN idx = 1..Len(idx) /\ Len(idx) \in Nat
      /\ \A j \in 1..Len(idx) : rec[Number(j)].type = idx[j].type /\ Number(j) \in Nat
      /\ \A a, b \in 1..Len(idx) : a <= b <=> Number(a) <= Number(b)
  BY NumberIs
<1>2. idx[p].type = "user" /\ Ran(Told, rec, Number(p))
  BY <1>1 DEF NewestRan, UserTexts
<1>3. Completed(i)
  <2>1. PICK f \in Told : rec[f].type = "final" /\ InTurn(Told, rec, Number(p), f)
    BY <1>2 DEF Ran
  <2>2. PICK k \in 1..Len(idx) : f = Number(k) /\ idx[k].type = "final"
    BY <2>1, SpokenRead DEF Spoken
  <2>3. TurnStart(k) = p
    BY <1>2, <2>1, <2>2, StartInTurn
  <2> QED BY <1>1, <2>2, <2>3 DEF Completed, Turn
<1>4. ASSUME NEW j \in 1..Len(idx), TurnStart(j) > p, Completed(j), HasTools(j) PROVE FALSE
  <2> DEFINE q == TurnStart(j)
  <2>1. q \in 1..j /\ (q = 1 \/ idx[q].type = "user")
    <3>1. j \in Nat /\ j >= 1
      BY <1>1
    <3> QED BY <3>1, StartIs
  <2>2. idx[q].type = "user"
    BY <1>1, <1>4, <2>1
  <2>3. q \in 1..Len(idx) /\ Number(q) \in UserTexts(Told, rec) /\ Ran(Told, rec, Number(q))
    BY <1>4, <2>2, TurnRan
  <2>4. q > p
    BY <1>4
  <2> HIDE DEF q
  <2>5. Number(p) < Number(q)
    <3>1. ~(q <= p)
      BY <1>1, <2>3, <2>4
    <3>2. ~(Number(q) <= Number(p))
      BY <1>1, <2>3, <3>1
    <3> QED BY <1>1, <2>3, <3>2
  <2> QED BY <2>3, <2>5 DEF NewestRan
<1> QED BY <1>1, <1>3, <1>4 DEF KeepsTools

\* What the compaction keeps is read by the entries it keeps.
LEMMA KeptReads ==
  ASSUME HistoryReads
  PROVE  /\ Reads(data, Moving(0)) \subseteq Reads(data, idx)
         /\ \A i \in 1..Len(idx) : Number(i) \in Reads(data, Moving(0)) <=> KeepRecord(i)
<1> DEFINE N == Len(KeptPositions)
<1>1. /\ N \in Nat /\ KeptPositions \in [1..N -> 1..Len(idx)] /\ Len(Kept) = N
      /\ \A n \in 1..N : KeepRecord(KeptPositions[n]) /\ Kept[n] = idx[KeptPositions[n]]
      /\ \A i \in 1..Len(idx) : KeepRecord(i) => \E n \in 1..N : KeptPositions[n] = i
  BY KeptFacts DEF HistoryReads
<1> HIDE DEF N
<1>2. DOMAIN Moving(0) = 1..N /\ \A n \in 1..N : Moving(0)[n] = idx[KeptPositions[n]]
  <2>1. /\ DOMAIN Moving(0) = 1..Len(Kept)
        /\ \A i \in 1..Len(Kept) : ~(i <= 0) => Moving(0)[i] = Kept[i]
    BY MovingEntry DEF HistoryReads
  <2>2. \A n \in 1..N : ~(n <= 0)
    BY <1>1
  <2> QED BY <1>1, <2>1, <2>2
<1>3. Reads(data, Moving(0)) = {Number(KeptPositions[n]) : n \in 1..N}
  BY <1>2 DEF Reads, Number
<1>4. /\ Reads(data, idx) = {Number(i) : i \in 1..Len(idx)}
      /\ \A a, b \in 1..Len(idx) : a <= b <=> Number(a) <= Number(b)
      /\ \A i \in 1..Len(idx) : Number(i) \in Nat
      /\ Len(idx) \in Nat
  BY NumberIs
<1>5. ASSUME NEW i \in 1..Len(idx), NEW n \in 1..N, Number(i) = Number(KeptPositions[n])
      PROVE  i = KeptPositions[n]
  <2> DEFINE j == KeptPositions[n]
  <2>1. j \in 1..Len(idx) /\ Number(i) = Number(j)
    BY <1>1, <1>5
  <2> HIDE DEF j
  <2>2. Number(i) <= Number(j) /\ Number(j) <= Number(i)
    BY <1>4, <2>1
  <2>3. i <= j /\ j <= i
    BY <1>4, <2>1, <2>2
  <2>4. i = j
    BY <1>4, <2>1, <2>3
  <2> QED BY <2>4 DEF j
<1>6. Reads(data, Moving(0)) \subseteq Reads(data, idx)
  BY <1>1, <1>3, <1>4
<1>7. ASSUME NEW i \in 1..Len(idx) PROVE Number(i) \in Reads(data, Moving(0)) <=> KeepRecord(i)
  <2>1. ASSUME KeepRecord(i) PROVE Number(i) \in Reads(data, Moving(0))
    BY <1>1, <1>3, <2>1
  <2>2. ASSUME Number(i) \in Reads(data, Moving(0)) PROVE KeepRecord(i)
    BY <1>1, <1>3, <1>5, <2>2
  <2> QED BY <2>1, <2>2
<1> QED BY <1>6, <1>7

\* If a turn ran tools, one that did is the newest.
LEMMA NewestExists ==
  ASSUME NEW known, NEW r, NEW b \in Nat, known \subseteq 0..b,
         NEW v \in UserTexts(known, r), Ran(known, r, v)
  PROVE  \E u \in known : v <= u /\ NewestRan(known, r, u)
<1> DEFINE S == {u \in UserTexts(known, r) : Ran(known, r, u)}
<1>1. v \in S /\ S \subseteq 0..b
  BY DEF UserTexts
<1>2. \A u \in S : u \in known /\ u \in UserTexts(known, r) /\ Ran(known, r, u)
  BY DEF UserTexts
<1>3. Max(S) \in S /\ \A y \in S : y <= Max(S)
  <2> HIDE DEF S
  <2> QED BY <1>1, MaxIs
<1>4. ASSUME NEW y \in UserTexts(known, r), Max(S) < y, Ran(known, r, y) PROVE FALSE
  <2>1. y \in S
    BY <1>4
  <2> HIDE DEF S
  <2>2. y \in 0..b /\ Max(S) \in 0..b
    BY <1>1, <1>3, <2>1
  <2>3. y <= Max(S)
    BY <1>3, <2>1
  <2> DEFINE m == Max(S)
  <2>4. y \in 0..b /\ m \in 0..b /\ y <= m /\ m < y
    BY <1>4, <2>2, <2>3
  <2> HIDE DEF m
  <2> QED BY <2>4
<1>5. NewestRan(known, r, Max(S))
  BY <1>2, <1>3, <1>4 DEF NewestRan
<1> QED BY <1>1, <1>2, <1>3, <1>5

\* A tool call and its result that are both read are read one after the other.
LEMMA ResultNext ==
  ASSUME HistoryReads, NEW i \in 1..Len(idx), NEW j \in 1..Len(idx), Number(j) = Number(i) + 1
  PROVE  j = i + 1
<1>1. /\ \A a, b \in 1..Len(idx) : a <= b <=> Number(a) <= Number(b)
      /\ \A a \in 1..Len(idx) : Number(a) \in Nat
      /\ Len(idx) \in Nat
  BY NumberIs
<1>2. i < j
  <2>1. ~(Number(j) <= Number(i))
    BY <1>1
  <2>2. ~(j <= i)
    BY <1>1, <2>1
  <2> QED BY <1>1, <2>2
<1>3. ASSUME i + 1 < j PROVE FALSE
  <2> DEFINE k == i + 1
  <2>1. k \in 1..Len(idx) /\ ~(k <= i) /\ ~(j <= k)
    BY <1>1, <1>3
  <2> HIDE DEF k
  <2>2. ~(Number(k) <= Number(i)) /\ ~(Number(j) <= Number(k))
    BY <1>1, <2>1
  <2>3. Number(k) \in Nat /\ Number(i) \in Nat
    BY <1>1, <2>1
  <2> QED BY <2>2, <2>3
<1> QED BY <1>1, <1>2, <1>3

\* A position of the same turn is kept or not for the turn's sake alone.
LEMMA NeighboursAlike ==
  ASSUME HistoryReads, NEW i \in 1..Len(idx), i + 1 \in 1..Len(idx),
         idx[i].type \in {"tool", "result"}, idx[i + 1].type \in {"tool", "result"}
  PROVE  KeepRecord(i) <=> KeepRecord(i + 1)
<1>1. i \in Nat /\ i >= 1
  BY NumberIs
<1>2. TurnStart(i + 1) = TurnStart(i)
  <2>1. {j \in 1..i + 1 : j = 1 \/ idx[j].type = "user"} = {j \in 1..i : j = 1 \/ idx[j].type = "user"}
    <3>1. \A j \in 1..i + 1 : j \in 1..i \/ j = i + 1
      BY <1>1
    <3>2. \A j \in 1..i : j \in 1..i + 1
      BY <1>1
    <3>3. i + 1 # 1 /\ idx[i + 1].type # "user"
      BY <1>1
    <3> QED BY <3>1, <3>2, <3>3
  <2> QED BY <2>1 DEF TurnStart
<1>3. Turn(i + 1) = Turn(i)
  BY <1>2 DEF Turn
<1>4. Completed(i + 1) = Completed(i)
  BY <1>3 DEF Completed
<1>5. KeepsTools(i + 1) = KeepsTools(i)
  BY <1>2, <1>4 DEF KeepsTools
<1> QED BY <1>2, <1>4, <1>5 DEF KeepRecord

\* A tool call comes with its result.
CallsAnswered ==
  \A id \in acked : rec[id].type = "tool" => id + 1 \in acked /\ rec[id + 1].type = "result"

LEMMA CompactionTurns ==
  ASSUME HistoryReads, CallsAnswered, Turns(Reads(data, idx), acked, rec)
  PROVE  Turns(Reads(data, Moving(0)), acked, rec)
<1> DEFINE held == Reads(data, idx)
<1> DEFINE held2 == Reads(data, Moving(0))
<1> DEFINE known2 == acked \cup held2
<1>1. /\ Len(idx) \in Nat /\ DOMAIN idx = 1..Len(idx) /\ Len(rec) \in Nat /\ acked \subseteq 1..Len(rec)
      /\ \A i \in 1..Len(idx) : Number(i) \in 1..Len(rec) /\ rec[Number(i)].type = idx[i].type
      /\ \A a, b \in 1..Len(idx) : a <= b <=> Number(a) <= Number(b)
      /\ held = {Number(i) : i \in 1..Len(idx)}
  BY NumberIs DEF HistoryReads
<1>2. /\ held2 \subseteq held
      /\ \A i \in 1..Len(idx) : Number(i) \in held2 <=> KeepRecord(i)
  BY KeptReads
<1>3. /\ \A id \in acked : rec[id].type = "tool" => (id \in held <=> id + 1 \in held)
      /\ \A u, t \in Told : NewestRan(Told, rec, u) /\ OfTools(rec, t) /\ InTurn(Told, rec, u, t)
                            => t \in held
      /\ \A u, t \in Told : LastText(Told, rec, u) /\ OfTools(rec, t) /\ u <= t => t \in held
  BY DEF Turns, Told
<1>4. Told = acked \cup held
  BY DEF Told
<1> HIDE DEF held, held2
<1>5. /\ known2 \subseteq Told /\ Told \subseteq 0..Len(rec) /\ acked \subseteq known2
      /\ held2 \subseteq known2 /\ held \subseteq Told
  BY <1>1, <1>2, <1>4
<1>6. ASSUME NEW id \in Told, rec[id].type \in Spoken PROVE id \in known2
  <2>1. PICK i \in 1..Len(idx) : id = Number(i) /\ idx[i].type = rec[id].type
    BY <1>6, SpokenRead
  <2>2. KeepRecord(i)
    BY <1>6, <2>1 DEF KeepRecord, Spoken
  <2> QED BY <1>2, <2>1, <2>2
<1> HIDE DEF known2
<1>7. UserTexts(known2, rec) = UserTexts(Told, rec)
  BY <1>5, <1>6 DEF UserTexts, Spoken
<1>8. \A u, id : InTurn(known2, rec, u, id) <=> InTurn(Told, rec, u, id)
  <2>1. \A v : v \in known2 /\ rec[v].type = "user" <=> v \in Told /\ rec[v].type = "user"
    BY <1>5, <1>6 DEF Spoken
  <2> QED BY <2>1 DEF InTurn
<1>9. \A u : Ran(known2, rec, u) => Ran(Told, rec, u)
  BY <1>5, <1>8 DEF Ran
<1>10. ASSUME NEW u, NewestRan(Told, rec, u),
              NEW t \in Told, OfTools(rec, t), InTurn(Told, rec, u, t)
       PROVE  t \in held2
  <2>1. u \in Told /\ rec[u].type = "user"
    BY <1>10 DEF NewestRan, UserTexts
  <2>2. t \in held
    BY <1>3, <1>10, <2>1
  <2>3. PICK i \in 1..Len(idx) : t = Number(i)
    BY <1>1, <2>2
  <2>4. PICK p \in 1..Len(idx) : u = Number(p) /\ idx[p].type = "user"
    BY <2>1, SpokenRead DEF Spoken
  <2>5. TurnStart(i) = p
    BY <1>10, <2>3, <2>4, StartInTurn
  <2>6. KeepsTools(i)
    BY <1>10, <2>4, <2>5, NewestKeeps
  <2> QED BY <1>2, <2>3, <2>6 DEF KeepRecord
<1>11. ASSUME NEW u, NewestRan(Told, rec, u) PROVE Ran(known2, rec, u)
  <2>1. PICK t \in Told : OfTools(rec, t) /\ InTurn(Told, rec, u, t)
    BY <1>11 DEF NewestRan, Ran
  <2>2. t \in known2
    BY <1>5, <1>10, <1>11, <2>1
  <2>3. PICK f \in Told : rec[f].type = "final" /\ InTurn(Told, rec, u, f)
    BY <1>11 DEF NewestRan, Ran
  <2>4. f \in known2
    BY <1>6, <2>3 DEF Spoken
  <2> QED BY <1>8, <2>1, <2>2, <2>3, <2>4 DEF Ran
<1>12. ASSUME NEW u, NewestRan(known2, rec, u) PROVE NewestRan(Told, rec, u)
  <2>1. u \in UserTexts(Told, rec) /\ Ran(Told, rec, u)
    BY <1>7, <1>9, <1>12 DEF NewestRan
  <2>2. ASSUME NEW v \in UserTexts(Told, rec), u < v, Ran(Told, rec, v) PROVE FALSE
    <3>1. PICK w \in Told : v <= w /\ NewestRan(Told, rec, w)
      BY <1>1, <1>5, <2>2, NewestExists
    <3>2. Ran(known2, rec, w) /\ w \in UserTexts(known2, rec)
      BY <1>7, <1>11, <3>1 DEF NewestRan
    <3>3. u < w
      <4>1. u \in Int /\ v \in Int /\ w \in Int
        BY <1>5, <2>1, <2>2 DEF UserTexts
      <4> QED BY <2>2, <3>1, <4>1
    <3> QED BY <1>12, <3>2, <3>3 DEF NewestRan
  <2> QED BY <2>1, <2>2 DEF NewestRan
<1>13. ASSUME NEW id \in acked, rec[id].type = "tool" PROVE id \in held2 <=> id + 1 \in held2
  <2>1. CASE id \notin held
    BY <1>2, <1>3, <1>13, <2>1
  <2>2. CASE id \in held
    <3>1. id + 1 \in held /\ rec[id + 1].type = "result"
      BY <1>3, <1>13, <2>2 DEF CallsAnswered
    <3>2. PICK i \in 1..Len(idx) : id = Number(i)
      BY <1>1, <2>2
    <3>3. PICK j \in 1..Len(idx) : id + 1 = Number(j)
      BY <1>1, <3>1
    <3>4. j = i + 1
      BY <3>2, <3>3, ResultNext
    <3>5. idx[i].type = "tool" /\ idx[i + 1].type = "result"
      BY <1>1, <1>13, <3>1, <3>2, <3>3, <3>4
    <3>6. KeepRecord(i) <=> KeepRecord(j)
      BY <3>4, <3>5, NeighboursAlike
    <3>7. /\ Number(i) \in held2 <=> KeepRecord(i)
          /\ Number(j) \in held2 <=> KeepRecord(j)
      BY <1>2
    <3> QED BY <3>2, <3>3, <3>6, <3>7
  <2> QED BY <2>1, <2>2
<1>14. ASSUME NEW u \in known2, NEW t \in known2, NewestRan(known2, rec, u), OfTools(rec, t),
              InTurn(known2, rec, u, t)
       PROVE  t \in held2
  BY <1>5, <1>8, <1>10, <1>12, <1>14
<1>15. ASSUME NEW u \in known2, NEW t \in known2, LastText(known2, rec, u), OfTools(rec, t), u <= t
       PROVE  t \in held2
  <2>1. LastText(Told, rec, u) /\ rec[u].type = "user" /\ u \in Told /\ t \in Told
    BY <1>5, <1>7, <1>15 DEF LastText, UserTexts
  <2>2. t \in held
    BY <1>3, <1>15, <2>1
  <2>3. PICK i \in 1..Len(idx) : t = Number(i)
    BY <1>1, <2>2
  <2>4. PICK p \in 1..Len(idx) : u = Number(p) /\ idx[p].type = "user"
    BY <2>1, SpokenRead DEF Spoken
  <2>5. p <= i
    BY <1>1, <1>15, <2>3, <2>4
  <2>6. ASSUME NEW j \in 1..Len(idx) PROVE TurnStart(j) <= p
    <3>1. /\ TurnStart(j) \in 1..j
          /\ TurnStart(j) = 1 \/ idx[TurnStart(j)].type = "user"
      <4>1. j \in Nat /\ j >= 1
        BY <1>1
      <4> QED BY <4>1, StartIs
    <3>2. CASE TurnStart(j) = 1
      BY <1>1, <3>2
    <3>3. CASE idx[TurnStart(j)].type = "user"
      <4> DEFINE q == TurnStart(j)
      <4>1. q \in 1..Len(idx)
        BY <1>1, <3>1
      <4> HIDE DEF q
      <4>2. Number(q) \in UserTexts(Told, rec)
        BY <1>1, <1>5, <3>3, <4>1 DEF UserTexts, q
      <4>3. Number(q) <= Number(p)
        BY <2>1, <2>4, <4>2 DEF LastText
      <4>4. q <= p
        BY <1>1, <4>1, <4>3
      <4> QED BY <4>4 DEF q
    <3> QED BY <3>1, <3>2, <3>3
  <2>7. ASSUME NEW j \in 1..Len(idx), p <= j PROVE TurnStart(j) = p
    <3>1. j \in Nat /\ j >= 1 /\ p \in 1..j
      BY <1>1, <2>7
    <3>2. TurnStart(j) \in 1..j /\ p <= TurnStart(j)
      BY <2>4, <3>1, StartIs
    <3> QED BY <2>6, <3>1, <3>2
  <2>8. Len(idx) \in 1..Len(idx) /\ p <= Len(idx)
    BY <1>1
  <2>9. TurnStart(i) = TurnStart(Len(idx))
    BY <2>5, <2>7, <2>8
  <2>10. ~\E j \in DOMAIN idx : TurnStart(j) > TurnStart(i) /\ Completed(j) /\ HasTools(j)
    <3> SUFFICES ASSUME NEW j \in 1..Len(idx), TurnStart(j) > TurnStart(i) PROVE FALSE
      BY <1>1
    <3>1. TurnStart(j) \in 1..j /\ TurnStart(j) <= p /\ TurnStart(i) = p
      <4>1. j \in Nat /\ j >= 1
        BY <1>1
      <4> QED BY <2>5, <2>6, <2>7, <4>1, StartIs
    <3> QED BY <1>1, <3>1
  <2>11. KeepRecord(i)
    BY <2>9, <2>10 DEF KeepRecord, KeepsTools
  <2> QED BY <1>2, <2>3, <2>11
<1>16. Turns(held2, acked, rec)
  BY <1>13, <1>14, <1>15 DEF Turns, known2
<1> QED BY <1>16 DEF held2

\* What was acknowledged is not of the batch, and a tool call is handed over
\* with its result.
Batches ==
  /\ \A id \in acked : id <= Len(rec) - Len(batch)
  /\ CallsAnswered
  /\ Len(batch) = 1 => rec[batch[1]].type # "tool"
  /\ Len(batch) = 2 => rec[batch[2]].type = "result"

\* The turns of the entries the index has once what is under way has ended.
ToolTurns ==
  ~damaged =>
    /\ pc \in {"idle", "compact", "append"} /\ ValidPair => Turns(Reads(data, idx), acked, rec)
    /\ pc = "closeIdx" => Turns(Reads(data, idx), acked, rec)
    /\ pc = "rewrite" => Turns(Reads(data, Moving(moved)), acked, rec)
    /\ pc = "truncate" => Turns(Reads(data, SubSeq(idx, 1, moved)), acked, rec)

TurnsInv == Batches /\ ToolTurns

\* A quiet history keeps its tool turns.
LEMMA TurnsKept ==
  ASSUME HistoryAssumption, HistoryInv, TurnsInv PROVE ToolTurnKept
<1> SUFFICES ASSUME Quiet PROVE ToolTurnKept
  BY DEF ToolTurnKept
<1> DEFINE known == acked \cup Loaded
<1> DEFINE users == {id \in known : rec[id].type = "user"}
<1> DEFINE turn == [id \in known |-> Max({0} \cup {u \in users : u <= id})]
<1> DEFINE closed == {turn[id] : id \in {f \in known : rec[f].type = "final"}}
<1> DEFINE tools == {id \in known : rec[id].type \in {"tool", "result"} /\ turn[id] \in closed}
<1> DEFINE newest == Max({0} \cup {turn[id] : id \in tools})
<1>1. /\ Whole(data, idx, rec, Len(rec), acked) /\ idx \in Seq(Entry)
      /\ Loaded = Reads(data, idx)
  BY QuietWhole DEF Reads
<1>2. /\ rec \in Seq(Record) /\ acked \subseteq 1..Len(rec) /\ Len(rec) \in Nat
      /\ Turns(Reads(data, idx), acked, rec)
  BY DEF HistoryInv, HistoryTypes, TurnsInv, ToolTurns, Quiet, Loadable
<1>3. HistoryReads
  BY <1>1, <1>2 DEF HistoryReads
<1>4. known = Told /\ known \subseteq 1..Len(rec)
  <2>1. Reads(data, idx) \subseteq 1..Len(rec)
    BY <1>3, NumberIs
  <2> QED BY <1>1, <1>2, <2>1 DEF Told
<1>5. ASSUME NEW id \in known
      PROVE  /\ turn[id] \in 0..Len(rec)
             /\ turn[id] # 0 => turn[id] \in users /\ InTurn(known, rec, turn[id], id)
             /\ \A u \in users : InTurn(known, rec, u, id) => turn[id] = u
  <2> DEFINE S == {0} \cup {u \in users : u <= id}
  <2>1. S \subseteq 0..Len(rec) /\ 0 \in S /\ turn[id] = Max(S)
    BY <1>2, <1>4
  <2>2. Max(S) \in S /\ \A y \in S : y <= Max(S)
    <3> HIDE DEF S
    <3> QED BY <1>2, <2>1, MaxIs
  <2>3. turn[id] # 0 => turn[id] \in users /\ InTurn(known, rec, turn[id], id)
    BY <2>1, <2>2 DEF InTurn
  <2>4. ASSUME NEW u \in users, InTurn(known, rec, u, id) PROVE turn[id] = u
    <3>1. u \in S /\ u <= Max(S) /\ u \in 1..Len(rec)
      BY <1>4, <2>2, <2>4 DEF InTurn
    <3>2. Max(S) <= u
      <4>1. CASE Max(S) = 0
        BY <1>2, <3>1, <4>1
      <4>2. CASE Max(S) \in users /\ Max(S) <= id
        BY <2>4, <4>2 DEF InTurn
      <4> QED BY <2>2, <4>1, <4>2
    <3> DEFINE m == Max(S)
    <3>3. m \in 0..Len(rec) /\ u \in 0..Len(rec) /\ m <= u /\ u <= m /\ turn[id] = m
      BY <1>2, <2>1, <2>2, <3>1, <3>2
    <3> HIDE DEF m
    <3> QED BY <3>3
  <2> QED BY <2>1, <2>2, <2>3, <2>4
<1>6. \A u \in users : u \in known /\ u \in Nat /\ u # 0
  BY <1>2, <1>4
<1>7. users = UserTexts(known, rec)
  BY DEF UserTexts
<1>8. \A v : v \in closed <=> \E f \in known : rec[f].type = "final" /\ turn[f] = v
  OBVIOUS
<1>9. \A id : id \in tools <=> id \in known /\ OfTools(rec, id) /\ turn[id] \in closed
  BY DEF OfTools
<1>10. newest = Max({0} \cup {turn[id] : id \in tools})
  OBVIOUS
<1> HIDE DEF known, users, turn, closed, tools, newest
<1>11. newest \in 0..Len(rec) /\ \A id \in tools : turn[id] <= newest
  <2> DEFINE S == {0} \cup {turn[id] : id \in tools}
  <2>1. S \subseteq 0..Len(rec) /\ S # {}
    BY <1>2, <1>5, <1>9
  <2>2. newest = Max(S)
    BY <1>10
  <2>3. \A id \in tools : turn[id] \in S
    OBVIOUS
  <2> HIDE DEF S
  <2>4. Max(S) \in S /\ \A y \in S : y <= Max(S)
    BY <1>2, <2>1, MaxIs
  <2> QED BY <2>1, <2>2, <2>3, <2>4
<1>12. ASSUME NEW id \in tools, turn[id] = newest, newest > 0 PROVE id \in Loaded
  <2>1. id \in known /\ OfTools(rec, id) /\ newest \in closed
    BY <1>9, <1>12
  <2>2. newest \in users /\ InTurn(known, rec, newest, id)
    <3>1. turn[id] # 0
      BY <1>11, <1>12
    <3> QED BY <1>5, <1>12, <2>1, <3>1
  <2>3. PICK f \in known : rec[f].type = "final" /\ turn[f] = newest
    BY <1>8, <2>1
  <2>4. InTurn(known, rec, newest, f)
    <3>1. turn[f] # 0
      BY <1>11, <1>12, <2>3
    <3> QED BY <1>5, <2>3, <3>1
  <2>5. Ran(known, rec, newest)
    BY <2>1, <2>2, <2>3, <2>4 DEF Ran
  <2>6. ASSUME NEW v \in users, newest < v, Ran(known, rec, v) PROVE FALSE
    <3>1. PICK t \in known : OfTools(rec, t) /\ InTurn(known, rec, v, t)
      BY <2>6 DEF Ran
    <3>2. PICK g \in known : rec[g].type = "final" /\ InTurn(known, rec, v, g)
      BY <2>6 DEF Ran
    <3>3. turn[t] = v /\ turn[g] = v
      BY <1>5, <3>1, <3>2
    <3>4. t \in tools
      BY <1>8, <1>9, <3>1, <3>2, <3>3
    <3>5. v <= newest /\ v \in Nat /\ newest \in Nat
      BY <1>6, <1>11, <3>3, <3>4
    <3> QED BY <2>6, <3>5
  <2>7. NewestRan(Told, rec, newest)
    BY <1>4, <1>7, <2>2, <2>5, <2>6 DEF NewestRan
  <2>8. id \in Reads(data, idx)
    BY <1>2, <1>4, <1>6, <2>1, <2>2, <2>7 DEF Turns, Told
  <2> QED BY <1>1, <2>8
<1>13. ASSUME NEW id \in acked, rec[id].type = "tool" PROVE id \in Loaded <=> id + 1 \in Loaded
  BY <1>1, <1>2, <1>13 DEF Turns
<1> QED BY <1>12, <1>13 DEF ToolTurnKept, ToolTurnsOf, known, users, turn, closed, tools,
                              newest

\* The records read in a data file are those read in a longer one.
LEMMA ReadsBehind ==
  ASSUME NEW base \in Seq(Cell), NEW more \in Seq(Cell), NEW list \in Seq(Entry), NEW r, NEW n, NEW d,
         Whole(base, list, r, n, d)
  PROVE  Reads(base \o more, list) = Reads(base, list)
<1>1. /\ base \o more \in Seq(Cell) /\ Len(base \o more) = Len(base) + Len(more)
      /\ \A k \in 1..Len(base) : (base \o more)[k] = base[k]
  BY Joined
<1> DEFINE c == base \o more
<1>2. ASSUME NEW i \in DOMAIN list PROVE Held(c, list[i]) = Held(base, list[i])
  <2>1. list[i] \in Entry /\ list[i].off + list[i].len <= Len(base)
    BY DEF Whole, Good
  <2>2. list[i].off \in Nat /\ list[i].len \in Nat \ {0} /\ Len(base) \in Nat
    BY <2>1 DEF Entry
  <2> DEFINE o == list[i].off
  <2> DEFINE l == list[i].len
  <2>3. o \in Nat /\ l \in Nat /\ l # 0 /\ Len(base) \in Nat /\ o + l <= Len(base)
    BY <2>1, <2>2
  <2> HIDE DEF o, l
  <2>4. o + 1 \in 1..Len(base)
    BY <2>3
  <2> HIDE DEF c
  <2> QED BY <1>1, <2>4 DEF Held, o, c
<1> QED BY <1>2 DEF Reads

\* Steps that leave the turns alone.
LEMMA TurnsStay ==
  ASSUME TurnsInv, UNCHANGED <<data, idx, rec, pc, batch, moved, acked, damaged>>
  PROVE  TurnsInv'
<1>1. Moving(moved)' = Moving(moved)
  BY MovingStays
<1>2. ValidPair' = ValidPair
  BY ValidStays
<1>3. Batches'
  BY DEF TurnsInv, Batches, CallsAnswered
<1>4. ToolTurns'
  BY <1>1, <1>2 DEF TurnsInv, ToolTurns
<1> QED BY <1>3, <1>4 DEF TurnsInv

\* Steps that acknowledge nothing and hand nothing over.
LEMMA BatchesStay ==
  ASSUME HistoryTypes, BatchLast, Batches, UNCHANGED rec, acked' \in {acked, {}},
         batch' \in {batch, <<>>}
  PROVE  Batches'
<1>1. Len(rec) \in Nat /\ Len(batch) \in Nat /\ acked \subseteq 1..Len(rec)
  BY DEF HistoryTypes, BatchLast
<1>2. \A id \in acked' : id <= Len(rec') - Len(batch')
  <2>1. CASE batch' = <<>>
    <3>1. Len(batch') = 0
      BY <2>1
    <3>2. \A id \in acked' : id \in Nat /\ id <= Len(rec)
      BY <1>1
    <3> QED BY <1>1, <3>1, <3>2
  <2>2. CASE batch' = batch
    BY <2>2 DEF Batches
  <2> QED BY <2>1, <2>2
<1>3. CallsAnswered'
  BY DEF Batches, CallsAnswered
<1>4. (Len(batch') = 1 => rec'[batch'[1]].type # "tool")
      /\ (Len(batch') = 2 => rec'[batch'[2]].type = "result")
  <2>1. CASE batch' = <<>>
    <3>1. Len(batch') = 0
      BY <2>1
    <3> QED BY <3>1
  <2>2. CASE batch' = batch
    BY <2>2 DEF Batches
  <2> QED BY <2>1, <2>2
<1> QED BY <1>2, <1>3, <1>4 DEF Batches

LEMMA PersistTurns ==
  ASSUME HistoryAssumption, HistoryInv, TurnsInv,
         NEW kind \in DOMAIN BatchTypes, NEW lens \in Lens(BatchTypes[kind]), Persist(kind, lens)
  PROVE  TurnsInv'
<1> DEFINE types == BatchTypes[kind]
<1> DEFINE n == Len(types)
<1> DEFINE new == [i \in DOMAIN types |-> [type |-> types[i], len |-> lens[i]]]
<1>1. n \in {1, 2} /\ DOMAIN types = 1..n /\ (n = 1 => types[1] # "tool") /\ (n = 2 => types[2] = "result")
  <2>1. /\ BatchTypes["user"] = <<"user">> /\ BatchTypes["tool"] = <<"tool", "result">>
        /\ BatchTypes["final"] = <<"final">> /\ kind \in {"user", "tool", "final"}
    BY DEF BatchTypes
  <2>2. n \in {1, 2} /\ DOMAIN types = 1..n
    BY BatchSizes
  <2>3. (n = 1 => types[1] # "tool") /\ (n = 2 => types[2] = "result")
    <3>1. CASE kind = "user"
      BY <2>1, <3>1
    <3>2. CASE kind = "tool"
      BY <2>1, <3>2
    <3>3. CASE kind = "final"
      BY <2>1, <3>3
    <3> QED BY <2>1, <3>1, <3>2, <3>3
  <2> QED BY <2>2, <2>3
<1>2. /\ pc = "idle" /\ rec' = rec \o new
      /\ batch' = [i \in DOMAIN types |-> Len(rec) + i]
      /\ \/ ValidPair /\ pc' = "append" /\ UNCHANGED data
         \/ pc' = "recreate"
      /\ UNCHANGED <<idx, moved, acked, damaged>>
  BY DEF Persist, Valid, Invalid
<1>3. /\ rec \in Seq(Record) /\ Len(rec) \in Nat /\ acked \subseteq 1..Len(rec)
      /\ HistoryTypes /\ Batches /\ ToolTurns /\ IdlePair
  BY DEF HistoryInv, HistoryTypes, TurnsInv
<1>4. Len(new) = n /\ DOMAIN new = 1..n /\ \A i \in 1..n : new[i].type = types[i]
  <2>1. n \in Nat
    BY <1>1
  <2> QED BY <1>1, <2>1
<1>5. HistoryInv'
  BY PersistStep
<1>6. rec' \in Seq(Record) /\ new \in Seq(Record)
  <2>1. \A i \in 1..n : types[i] \in Types /\ lens[i] \in Nat \ {0}
    <3> TAKE i \in 1..n
    <3>1. lens[i] \in RecordLens[types[i]] /\ types[i] \in Types
      BY BatchSizes DEF Lens
    <3>2. RecordLens[types[i]] \in SUBSET (Nat \ {0})
      BY <3>1 DEF HistoryAssumption
    <3> QED BY <3>1, <3>2
  <2>2. \A i \in 1..n : new[i] \in Record
    BY <1>1, <2>1 DEF Record
  <2>3. new = [i \in 1..n |-> new[i]] /\ n \in Nat
    BY <1>1
  <2>4. new \in Seq(Record)
    <3> HIDE DEF new, n
    <3> QED BY <2>2, <2>3
  <2> QED BY <1>5, <2>4 DEF HistoryInv, HistoryTypes
<1> HIDE DEF new, types, n
<1>7. /\ Len(rec') = Len(rec) + n
      /\ \A i \in 1..Len(rec) : rec'[i] = rec[i]
      /\ \A i \in 1..n : rec'[Len(rec) + i] = new[i]
  <2>1. /\ Len(rec \o new) = Len(rec) + Len(new)
        /\ \A i \in 1..Len(rec) : (rec \o new)[i] = rec[i]
        /\ \A i \in 1..Len(new) : (rec \o new)[Len(rec) + i] = new[i]
    BY <1>3, <1>6, Joined
  <2> QED BY <1>2, <1>4, <2>1
<1>8. Len(batch') = n /\ \A i \in 1..n : batch'[i] = Len(rec) + i
  <2>1. batch' = [i \in 1..n |-> Len(rec) + i] /\ n \in Nat
    BY <1>1, <1>2
  <2> QED BY <2>1
<1>9. \A id \in acked : id \in 1..Len(rec) /\ rec'[id] = rec[id]
  BY <1>3, <1>7
<1>10. CallsAnswered'
  <2> SUFFICES ASSUME NEW id \in acked, rec'[id].type = "tool"
               PROVE  id + 1 \in acked /\ rec'[id + 1].type = "result"
    BY <1>2 DEF CallsAnswered
  <2>1. id + 1 \in acked /\ rec[id + 1].type = "result"
    BY <1>3, <1>9 DEF Batches, CallsAnswered
  <2> QED BY <1>9, <2>1
<1>11. Batches'
  <2>1. Len(rec') - Len(batch') = Len(rec)
    BY <1>1, <1>3, <1>7, <1>8
  <2>2. \A id \in acked' : id <= Len(rec') - Len(batch')
    BY <1>2, <1>3, <2>1
  <2>3. n = 1 => rec'[batch'[1]].type # "tool"
    BY <1>1, <1>4, <1>7, <1>8
  <2>4. n = 2 => rec'[batch'[2]].type = "result"
    BY <1>1, <1>4, <1>7, <1>8
  <2> QED BY <1>8, <1>10, <2>2, <2>3, <2>4 DEF Batches
<1>12. ToolTurns'
  <2> SUFFICES ASSUME ~damaged, pc' = "append" PROVE Turns(Reads(data', idx'), acked', rec')
    BY <1>2 DEF ToolTurns
  <2>1. ValidPair /\ UNCHANGED <<data, idx, acked>>
    BY <1>2
  <2>2. Turns(Reads(data, idx), acked, rec)
    BY <1>2, <1>3, <2>1 DEF ToolTurns
  <2>3. HistoryReads
    BY <1>2, <1>3, <2>1, ValidTypes DEF IdlePair, HistoryReads
  <2>4. \A id \in acked \cup Reads(data, idx) : rec'[id] = rec[id]
    BY <1>7, <1>9, <2>3, NumberIs
  <2> QED BY <2>1, <2>2, <2>4, TurnsSame
<1> QED BY <1>11, <1>12 DEF TurnsInv

LEMMA RecreateTurns == ASSUME HistoryAssumption, HistoryInv, TurnsInv, Recreate PROVE TurnsInv'
<1>1. /\ idx' = <<>> /\ acked' = {} /\ pc' \in {"idle", "append"}
      /\ UNCHANGED <<data, rec, batch>>
  BY DEF Recreate, RecreateIdx
<1>2. Batches'
  BY <1>1, BatchesStay DEF HistoryInv, TurnsInv
<1>3. Reads(data', idx') = {}
  BY <1>1 DEF Reads
<1>4. Turns({}, acked', rec')
  BY <1>1, TurnsEmpty
<1> QED BY <1>1, <1>2, <1>3, <1>4 DEF TurnsInv, ToolTurns

LEMMA AppendDataTurns == ASSUME HistoryAssumption, HistoryInv, TurnsInv, AppendData PROVE TurnsInv'
<1>1. /\ pc = "append" /\ pc' = "closeIdx" /\ data' = data \o BatchCells
      /\ UNCHANGED <<idx, rec, batch, acked, damaged>>
  BY DEF AppendData
<1>2. HistoryTypes /\ BatchLast /\ AppendPair
  BY DEF HistoryInv
<1>3. ValidPair /\ batch # <<>>
  BY <1>1, <1>2 DEF AppendPair, BatchLast
<1>4. data \in Seq(Cell) /\ idx \in Seq(Entry)
  BY <1>2, <1>3, ValidTypes
<1>5. BatchCells \in Seq(Cell)
  <2>1. 0 \in Nat
    OBVIOUS
  <2> QED BY <1>2, <1>3, <2>1, BatchWritten
<1>6. Batches'
  BY <1>1, <1>2, BatchesStay DEF TurnsInv
<1>7. ASSUME ~damaged PROVE Turns(Reads(data', idx'), acked', rec')
  <2>1. Turns(Reads(data, idx), acked, rec)
    BY <1>1, <1>3, <1>7 DEF TurnsInv, ToolTurns
  <2>2. Whole(data, idx, rec, Len(rec) - Len(batch), acked)
    BY <1>1, <1>2, <1>7 DEF AppendPair
  <2>3. Reads(data', idx') = Reads(data, idx)
    BY <1>1, <1>4, <1>5, <2>2, ReadsBehind
  <2> QED BY <1>1, <2>1, <2>3
<1> QED BY <1>1, <1>6, <1>7 DEF TurnsInv, ToolTurns

\* The batch goes behind all that is known.
LEMMA BatchAdds ==
  ASSUME HistoryTypes, BatchLast, Batches, NEW base, idx \in Seq(Entry),
         Whole(base, idx, rec, Len(rec) - Len(batch), acked),
         NEW m \in 0..Len(batch), NEW ids,
         ids = acked \/ (ids = acked \cup ToSet(batch) /\ m = Len(batch))
  PROVE  /\ Adds(Reads(base, idx), acked, Handed(m), ids)
         /\ Paired(acked, rec) /\ Paired(ids, rec)
<1>1. PICK last \in Nat : last = Len(rec) - Len(batch)
  <2>1. Len(rec) \in Nat /\ Len(batch) \in Nat /\ Len(batch) <= Len(rec)
    BY DEF HistoryTypes, BatchLast
  <2> QED BY <2>1
<1>2. PICK k \in {0, 1, 2} : k = Len(batch) /\ DOMAIN batch = 1..k
  BY DEF BatchLast
<1>3. /\ rec \in Seq(Record) /\ acked \subseteq 1..Len(rec) /\ m \in Nat /\ m <= k
  BY <1>2 DEF HistoryTypes, BatchLast
<1>4. \A i \in 1..k : batch[i] = last + i
  BY <1>1, <1>2 DEF BatchLast
<1>5. \A id \in acked : id <= last
  BY <1>1 DEF Batches
<1>6. /\ k = 1 => rec[batch[1]].type # "tool"
      /\ k = 2 => rec[batch[2]].type = "result"
  BY <1>2 DEF Batches
<1>7. Paired(acked, rec)
  BY DEF Batches, CallsAnswered, Paired
<1>8. ASSUME NEW i \in 1..m PROVE i \in 1..k /\ batch[i] \in Nat /\ last < batch[i]
  <2>1. i \in 1..k /\ i \in Nat /\ i >= 1
    BY <1>2, <1>3
  <2>2. batch[i] = last + i
    BY <1>4, <2>1
  <2> QED BY <2>1, <2>2
<1>9. ASSUME NEW a \in Reads(base, idx) PROVE a \in Nat /\ a <= last
  <2>1. PICK i \in DOMAIN idx : a = Held(base, idx[i])
    BY DEF Reads
  <2>2. idx[i] \in Entry /\ Good(base, rec, idx[i]) /\ Held(base, idx[i]) <= last
    BY <1>1, <2>1 DEF Whole
  <2>3. Held(base, idx[i]) \in 1..Len(rec)
    BY <1>3, <2>2, HeldNumber
  <2> QED BY <1>3, <2>1, <2>2, <2>3
<1> DEFINE new == {batch[i] : i \in 1..m}
<1>10. ASSUME NEW b \in new PROVE b \in Nat /\ last < b
  BY <1>8
<1>11. m = k => ToSet(batch) = new
  BY <1>2 DEF ToSet
<1>12. ids \subseteq acked \cup new /\ acked \subseteq ids
  BY <1>2, <1>11
<1>13. Paired(ids, rec)
  <2>1. CASE ids = acked
    BY <1>7, <2>1
  <2>2. CASE ids = acked \cup ToSet(batch)
    <3> SUFFICES ASSUME NEW id \in ids, rec[id].type = "tool" PROVE id + 1 \in ids
      BY DEF Paired
    <3>1. CASE id \in acked
      BY <1>7, <2>2, <3>1 DEF Paired
    <3>2. CASE id \in ToSet(batch)
      <4>1. PICK i \in 1..k : id = batch[i]
        BY <1>2, <3>2 DEF ToSet
      <4>2. CASE k = 1
        <5>1. i = 1
          BY <4>1, <4>2
        <5> QED BY <1>6, <4>1, <4>2, <5>1
      <4>3. CASE k = 2
        <5>1. i \in {1, 2}
          BY <4>1, <4>3
        <5>2. i # 2
          BY <1>6, <4>1, <4>3
        <5>3. batch[1] = last + 1 /\ batch[2] = last + 2 /\ 2 \in DOMAIN batch
          BY <1>2, <1>4, <4>3
        <5>4. id + 1 = batch[2]
          BY <4>1, <5>1, <5>2, <5>3
        <5> QED BY <2>2, <5>3, <5>4 DEF ToSet
      <4>4. k # 0
        BY <4>1
      <4> QED BY <4>2, <4>3, <4>4
    <3> QED BY <2>2, <3>1, <3>2
  <2> QED BY <2>1, <2>2
<1> HIDE DEF new
<1>14. ASSUME NEW a \in acked \cup Reads(base, idx), NEW b \in new PROVE a < b
  <2>1. a \in Nat /\ a <= last
    BY <1>3, <1>5, <1>9
  <2>2. b \in Nat /\ last < b
    BY <1>10
  <2> QED BY <2>1, <2>2
<1>15. acked \subseteq Nat
  BY <1>3
<1>16. Adds(Reads(base, idx), acked, new, ids)
  BY <1>9, <1>10, <1>12, <1>14, <1>15 DEF Adds
<1> QED BY <1>7, <1>13, <1>16 DEF new, Handed

\* The turns of what an append has written.
LEMMA AppendTurns ==
  ASSUME HistoryAssumption, HistoryTypes, BatchLast, Batches, batch # <<>>,
         NEW base, idx \in Seq(Entry),
         Whole(base, idx, rec, Len(rec) - Len(batch), acked),
         Turns(Reads(base, idx), acked, rec),
         NEW n, NEW m, NEW cells, NEW out, AppendedUpTo(base, idx, n, m, cells, out), NEW ids,
         ids = acked \/ (ids = acked \cup ToSet(batch) /\ m = Len(batch))
  PROVE  Turns(Reads(cells, out), ids, rec)
<1>1. m \in 0..Len(batch) /\ acked \subseteq 1..Len(rec)
  BY DEF AppendedUpTo, HistoryTypes
<1>2. ReadsHanded(base, idx, m, cells, out)
  BY <1>1, Appended
<1>3. Adds(Reads(base, idx), acked, Handed(m), ids) /\ Paired(acked, rec) /\ Paired(ids, rec)
  BY <1>1, BatchAdds
<1>4. Turns(Reads(base, idx) \cup Handed(m), ids, rec)
  BY <1>3, TurnsGrow
<1> QED BY <1>2, <1>4 DEF ReadsHanded

\* What the append writes behind, once the data file is closed.
LEMMA ClosedBase ==
  ASSUME HistoryAssumption, HistoryInv, TurnsInv, pc = "closeIdx", ~damaged
  PROVE  \E base \in Seq(Cell) :
           /\ data = base \o BatchCells /\ BatchCells \in Seq(Cell)
           /\ Len(data) - Len(BatchCells) = Len(base)
           /\ Whole(base, idx, rec, Len(rec) - Len(batch), acked)
           /\ Turns(Reads(base, idx), acked, rec)
<1>1. HistoryTypes /\ BatchLast /\ ClosePair /\ batch # <<>>
  BY DEF HistoryInv, BatchLast
<1>2. PICK base \in Seq(Cell) :
        /\ data = base \o BatchCells
        /\ Whole(base, idx, rec, Len(rec) - Len(batch), acked)
  BY <1>1 DEF ClosePair
<1>3. BatchCells \in Seq(Cell)
  <2>1. 0 \in Nat
    OBVIOUS
  <2> QED BY <1>1, <2>1, BatchWritten
<1>4. Len(data) - Len(BatchCells) = Len(base)
  <2>1. Len(base \o BatchCells) = Len(base) + Len(BatchCells) /\ Len(BatchCells) \in Nat /\ Len(base) \in Nat
    BY <1>3
  <2> QED BY <1>2, <2>1
<1>5. idx \in Seq(Entry)
  BY <1>1 DEF ClosePair
<1>6. Reads(data, idx) = Reads(base, idx)
  BY <1>2, <1>3, <1>5, ReadsBehind
<1>7. Turns(Reads(base, idx), acked, rec)
  BY <1>6 DEF TurnsInv, ToolTurns
<1> QED BY <1>2, <1>3, <1>4, <1>7

LEMMA CloseIdxTurns == ASSUME HistoryAssumption, HistoryInv, TurnsInv, CloseIdx PROVE TurnsInv'
<1>1. /\ pc = "closeIdx" /\ idx' = idx \o BatchEntries(Len(data) - Len(BatchCells))
      /\ acked' = acked \cup ToSet(batch) /\ pc' \in {"idle", "compact"} /\ batch' = <<>>
      /\ UNCHANGED <<data, rec, damaged>>
  BY DEF CloseIdx
<1>2. HistoryTypes /\ BatchLast /\ Batches /\ batch # <<>> /\ idx \in Seq(Entry)
  BY <1>1 DEF HistoryInv, BatchLast, TurnsInv, ClosePair
<1>3. /\ Len(batch) \in 1..2 /\ Len(batch) <= Len(rec) /\ Len(rec) \in Nat
      /\ DOMAIN batch = 1..Len(batch) /\ acked \subseteq 1..Len(rec)
      /\ \A i \in 1..Len(batch) : batch[i] = Len(rec) - Len(batch) + i
  BY <1>2 DEF BatchLast, HistoryTypes
<1>4. \A id \in acked' : id \in 1..Len(rec)
  <2>1. \A i \in 1..Len(batch) : batch[i] \in 1..Len(rec)
    BY <1>3
  <2> QED BY <1>1, <1>3, <2>1 DEF ToSet
<1>5. CallsAnswered'
  <2> SUFFICES ASSUME NEW id \in acked', rec[id].type = "tool"
               PROVE  id + 1 \in acked' /\ rec[id + 1].type = "result"
    BY <1>1 DEF CallsAnswered
  <2>1. CASE id \in acked
    BY <1>1, <1>2, <2>1 DEF Batches, CallsAnswered
  <2>2. CASE id \in ToSet(batch)
    <3>1. PICK i \in 1..Len(batch) : id = batch[i]
      BY <1>3, <2>2 DEF ToSet
    <3>2. Len(batch) = 2 /\ i = 1
      <4>1. CASE Len(batch) = 1
        BY <1>2, <3>1, <4>1 DEF Batches
      <4>2. CASE Len(batch) = 2
        <5>1. i # 2
          BY <1>2, <3>1, <4>2 DEF Batches
        <5> QED BY <3>1, <4>2, <5>1
      <4> QED BY <1>3, <4>1, <4>2
    <3>3. batch[2] = batch[1] + 1 /\ 2 \in DOMAIN batch
      BY <1>3, <3>2
    <3>4. id + 1 = batch[2] /\ rec[batch[2]].type = "result"
      BY <1>2, <3>1, <3>2, <3>3 DEF Batches
    <3> QED BY <1>1, <3>3, <3>4 DEF ToSet
  <2> QED BY <1>1, <2>1, <2>2
<1>6. Batches'
  <2>1. Len(batch') = 0
    BY <1>1
  <2>2. \A id \in acked' : id <= Len(rec') - Len(batch')
    BY <1>1, <1>3, <1>4, <2>1
  <2> QED BY <1>5, <2>1, <2>2 DEF Batches
<1>7. ASSUME ~damaged, ValidPair' PROVE Turns(Reads(data', idx'), acked', rec')
  <2>1. PICK base \in Seq(Cell) :
          /\ data = base \o BatchCells /\ BatchCells \in Seq(Cell)
          /\ Len(data) - Len(BatchCells) = Len(base)
          /\ Whole(base, idx, rec, Len(rec) - Len(batch), acked)
          /\ Turns(Reads(base, idx), acked, rec)
    BY <1>1, <1>7, ClosedBase
  <2> DEFINE n == Len(BatchCells)
  <2> DEFINE m == Len(batch)
  <2> DEFINE es == BatchEntries(Len(base))
  <2>2. es \in Seq(Entry) /\ Len(es) = m /\ n \in Nat /\ m \in Nat
    <3>1. Len(base) \in Nat
      BY <2>1
    <3> QED BY <1>2, <1>3, <2>1, <3>1, BatchWritten
  <2>3. idx' = idx \o SubSeq(es, 1, m) /\ data = base \o SubSeq(BatchCells, 1, n)
    <3> HIDE DEF es, m
    <3>1. SubSeq(es, 1, m) = es /\ SubSeq(BatchCells, 1, n) = BatchCells
      BY <2>1, <2>2
    <3> QED BY <1>1, <2>1, <3>1 DEF es
  <2>4. \A i \in DOMAIN idx' : idx'[i].off + idx'[i].len <= Len(data)
    BY <1>1, <1>7 DEF ValidPair
  <2>5. AppendedUpTo(base, idx, n, m, data, idx')
    BY <1>2, <2>1, <2>2, <2>3, <2>4 DEF AppendedUpTo
  <2> HIDE DEF n, es
  <2>6. Turns(Reads(data, idx'), acked \cup ToSet(batch), rec)
    BY <1>2, <2>1, <2>5, AppendTurns
  <2> QED BY <1>1, <2>6
<1> QED BY <1>1, <1>6, <1>7 DEF TurnsInv, ToolTurns

LEMMA CompactTurns == ASSUME HistoryAssumption, HistoryInv, TurnsInv, Compact PROVE TurnsInv'
<1>1. /\ pc = "compact"
      /\ \/ pc' = "idle" /\ UNCHANGED data
         \/ pc' = "recreate"
         \/ pc' = "rewrite" /\ ValidPair /\ UNCHANGED data
      /\ UNCHANGED <<idx, rec, batch, moved, acked, damaged>>
  BY DEF Compact, Valid, Invalid
<1>2. HistoryTypes /\ BatchLast /\ IdlePair /\ Batches /\ ToolTurns /\ moved = 0
  BY <1>1 DEF HistoryInv, TurnsInv, HistoryTypes
<1>3. Batches'
  BY <1>1, <1>2, BatchesStay
<1>4. ASSUME pc' = "idle", ValidPair', ~damaged PROVE Turns(Reads(data', idx'), acked', rec')
  <2>1. UNCHANGED <<data, idx>>
    BY <1>1, <1>4
  <2>2. ValidPair
    BY <1>4, <2>1, ValidStays
  <2> QED BY <1>1, <1>2, <1>4, <2>1, <2>2 DEF ToolTurns
<1>5. ASSUME pc' = "rewrite", ~damaged PROVE Turns(Reads(data', Moving(moved)'), acked', rec')
  <2>1. ValidPair /\ UNCHANGED <<data, idx>>
    BY <1>1, <1>5
  <2>2. Turns(Reads(data, idx), acked, rec) /\ CallsAnswered
    BY <1>1, <1>2, <1>5, <2>1 DEF ToolTurns, Batches
  <2>3. HistoryReads
    BY <1>1, <1>2, <1>5, <2>1, ValidTypes DEF IdlePair, HistoryReads, HistoryTypes
  <2>4. Moving(moved)' = Moving(0)
    BY <1>1, <1>2, <2>1, MovingStays
  <2> QED BY <1>1, <2>1, <2>2, <2>3, <2>4, CompactionTurns
<1> QED BY <1>1, <1>3, <1>4, <1>5 DEF TurnsInv, ToolTurns

LEMMA MoveRecordTurns == ASSUME HistoryAssumption, HistoryInv, TurnsInv, MoveRecord PROVE TurnsInv'
<1>1. /\ pc = "rewrite" /\ moved < Len(Kept)
      /\ data' = Overwritten(Kept[moved + 1].len) /\ moved' = moved + 1
      /\ UNCHANGED <<idx, rec, pc, batch, acked, damaged>>
  BY DEF MoveRecord
<1>2. Batches'
  BY <1>1, BatchesStay DEF HistoryInv, TurnsInv
<1>3. ASSUME ~damaged PROVE Turns(Reads(data', Moving(moved)'), acked', rec')
  <2>1. Turns(Reads(data, Moving(moved)), acked, rec)
    BY <1>1, <1>3 DEF TurnsInv, ToolTurns
  <2>2. data \in Seq(Cell) /\ idx \in Seq(Entry) /\ EntriesFit /\ moved \in Nat /\ Apart(Kept)
    BY <1>1, <1>3, RewriteFacts
  <2>3. SameText(data, Moving(moved), Overwritten(Kept[moved + 1].len), Moving(moved + 1))
    BY <1>1, <2>2, MoveCopies
  <2>4. Moving(moved)' = Moving(moved + 1)
    BY <1>1, MovingStays
  <2>5. Reads(data', Moving(moved + 1)) = Reads(data, Moving(moved))
    BY <1>1, <2>3, SameReads
  <2> QED BY <1>1, <2>1, <2>4, <2>5
<1> QED BY <1>1, <1>2, <1>3 DEF TurnsInv, ToolTurns

LEMMA FlushIdxTurns == ASSUME HistoryAssumption, HistoryInv, TurnsInv, FlushIdx PROVE TurnsInv'
<1>1. /\ pc = "rewrite" /\ moved = Len(Kept)
      /\ data' = SubSeq(data, 1, CompactedSize) /\ idx' = Rewritten(moved) /\ pc' = "truncate"
      /\ UNCHANGED <<rec, batch, moved, acked, damaged>>
  BY DEF FlushIdx
<1>2. Batches'
  BY <1>1, BatchesStay DEF HistoryInv, TurnsInv
<1>3. ASSUME ~damaged PROVE Turns(Reads(data', SubSeq(idx', 1, moved')), acked', rec')
  <2>1. Turns(Reads(data, Moving(Len(Kept))), acked, rec)
    BY <1>1, <1>3 DEF TurnsInv, ToolTurns
  <2>2. /\ data \in Seq(Cell) /\ idx \in Seq(Entry) /\ Apart(Kept)
        /\ CompactedSize <= Len(data)
        /\ Whole(data, Moving(Len(Kept)), rec, Len(rec), acked)
        /\ rec \in Seq(Record) /\ acked \subseteq 1..Len(rec)
    BY <1>1, <1>3, RewriteFacts
  <2>3. Reads(SubSeq(data, 1, CompactedSize), SubSeq(Rewritten(Len(Kept)), 1, Len(Kept)))
          = Reads(data, Moving(Len(Kept)))
    BY <2>2, CutKeeps
  <2> QED BY <1>1, <2>1, <2>3
<1> QED BY <1>1, <1>2, <1>3 DEF TurnsInv, ToolTurns

LEMMA TruncateIdxTurns == ASSUME HistoryAssumption, HistoryInv, TurnsInv, TruncateIdx PROVE TurnsInv'
<1>1. /\ pc = "truncate" /\ idx' = SubSeq(idx, 1, moved) /\ pc' = "idle"
      /\ UNCHANGED <<data, rec, batch, acked, damaged>>
  BY DEF TruncateIdx
<1>2. Batches'
  BY <1>1, BatchesStay DEF HistoryInv, TurnsInv
<1> QED BY <1>1, <1>2 DEF TurnsInv, ToolTurns

LEMMA LoadResetsTurns == ASSUME HistoryAssumption, HistoryInv, TurnsInv, LoadResets PROVE TurnsInv'
<1>1. pc' = "recreate" /\ UNCHANGED <<rec, batch, acked>>
  BY DEF LoadResets
<1>2. Batches'
  BY <1>1, BatchesStay DEF HistoryInv, TurnsInv
<1> QED BY <1>1, <1>2 DEF TurnsInv, ToolTurns

LEMMA DeleteTurns == ASSUME HistoryAssumption, HistoryInv, TurnsInv, Delete PROVE TurnsInv'
<1>1. ASSUME pc \in {"idle", "compact"}, data' = Missing \/ idx' = Missing, acked' \in {acked, {}},
             UNCHANGED <<rec, pc, batch>>
      PROVE  TurnsInv'
  <2>1. ~ValidPair'
    BY <1>1 DEF ValidPair, Exists
  <2>2. Batches'
    BY <1>1, BatchesStay DEF HistoryInv, TurnsInv
  <2> QED BY <1>1, <2>1, <2>2 DEF TurnsInv, ToolTurns
<1>2. CASE DeleteData
  BY <1>1, <1>2 DEF DeleteData, NotOpen
<1>3. CASE DeleteIdx
  BY <1>1, <1>3 DEF DeleteIdx, NotOpen
<1>4. CASE DeleteMarker
  BY <1>4, TurnsStay DEF DeleteMarker
<1>5. CASE DeleteFails
  BY <1>5, TurnsStay DEF DeleteFails, files
<1> QED BY <1>2, <1>3, <1>4, <1>5 DEF Delete

\* The turns of what a broken append leaves.
LEMMA BrokenAppendTurns ==
  ASSUME HistoryAssumption, HistoryTypes, BatchLast, Batches, batch # <<>>,
         NEW base \in Seq(Cell), idx \in Seq(Entry),
         Whole(base, idx, rec, Len(rec) - Len(batch), acked),
         Turns(Reads(base, idx), acked, rec),
         NEW n \in 0..Len(BatchCells), data' = base \o SubSeq(BatchCells, 1, n),
         \/ \E m \in 0..Len(batch) : idx' = idx \o SubSeq(BatchEntries(Len(base)), 1, m)
         \/ idx' = Torn,
         ValidPair'
  PROVE  Turns(Reads(data', idx'), acked, rec)
<1>1. PICK m \in 0..Len(batch) : idx' = idx \o SubSeq(BatchEntries(Len(base)), 1, m)
  BY TornPair
<1>2. \A i \in DOMAIN idx' : idx'[i].off + idx'[i].len <= Len(data')
  BY DEF ValidPair
<1> DEFINE cells == data'
<1> DEFINE out == idx'
<1>3. AppendedUpTo(base, idx, n, m, cells, out)
  BY <1>1, <1>2 DEF AppendedUpTo
<1> HIDE DEF cells, out
<1>4. Turns(Reads(cells, out), acked, rec)
  BY <1>3, AppendTurns
<1> QED BY <1>4 DEF cells, out

LEMMA BreakTurns == ASSUME HistoryAssumption, HistoryInv, TurnsInv, Break PROVE TurnsInv'
<1>1. /\ Aftermath /\ pc' = "idle" /\ batch' = <<>> /\ UNCHANGED <<rec, acked>>
  BY DEF Break, Faulty
<1>2. /\ HistoryTypes /\ BatchLast /\ RecreatePair /\ AppendPair /\ ClosePair /\ EmptyIdx
      /\ Batches /\ ToolTurns
  BY DEF HistoryInv, TurnsInv
<1>3. Batches'
  BY <1>1, <1>2, BatchesStay
<1>4. ASSUME ~damaged', ValidPair' PROVE Turns(Reads(data', idx'), acked, rec)
  <2>1. CASE pc \in {"idle", "compact"} /\ UNCHANGED <<data, idx, damaged>>
    <3>1. ValidPair
      BY <1>4, <2>1, ValidStays
    <3> QED BY <1>2, <1>4, <2>1, <3>1 DEF ToolTurns
  <2>2. CASE pc = "recreate" /\ idx' \in {idx, Torn} /\ UNCHANGED <<data, damaged>>
    <3>1. data' = <<>> /\ idx' = idx /\ idx # Missing /\ idx # Torn
      BY <1>2, <1>4, <2>2, TornPair DEF RecreatePair, ValidPair, Exists
    <3>2. idx \in Seq(Entry)
      BY <1>2, <3>1 DEF HistoryTypes
    <3>3. \A i \in DOMAIN idx : idx[i].off + idx[i].len <= 0
      BY <1>4, <3>1 DEF ValidPair
    <3>4. ASSUME NEW i \in DOMAIN idx PROVE FALSE
      <4>1. idx[i] \in Entry
        BY <3>2
      <4>2. idx[i].off \in Nat /\ idx[i].len \in Nat \ {0}
        BY <4>1 DEF Entry
      <4> QED BY <3>3, <4>2
    <3>5. idx = <<>>
      <4>1. Len(idx) \in Nat /\ DOMAIN idx = 1..Len(idx)
        BY <3>2
      <4>2. Len(idx) # 0 => 1 \in DOMAIN idx
        BY <4>1
      <4>3. Len(idx) = 0
        BY <3>4, <4>1, <4>2
      <4> QED BY <3>2, <4>3
    <3>6. \A id \in acked : rec[id].type \notin Spoken
      BY <1>2, <1>4, <2>2, <3>5 DEF EmptyIdx
    <3>7. Reads(data', idx') = {}
      <4>1. DOMAIN idx' = {}
        BY <3>1, <3>4
      <4> QED BY <4>1 DEF Reads
    <3> QED BY <3>6, <3>7, TurnsEmpty
  <2>3. CASE /\ pc = "append"
             /\ \E n \in 0..Len(BatchCells) : data' = data \o SubSeq(BatchCells, 1, n)
             /\ \/ \E n \in 0..Len(batch) : idx' = idx \o SubSeq(BatchEntries(Len(data)), 1, n)
                \/ idx' = Torn
             /\ UNCHANGED damaged
    <3>1. ValidPair /\ Whole(data, idx, rec, Len(rec) - Len(batch), acked)
      BY <1>2, <1>4, <2>3 DEF AppendPair
    <3>2. data \in Seq(Cell) /\ idx \in Seq(Entry)
      BY <1>2, <3>1, ValidTypes
    <3>3. batch # <<>> /\ Turns(Reads(data, idx), acked, rec)
      BY <1>2, <1>4, <2>3, <3>1 DEF BatchLast, ToolTurns
    <3>4. PICK n \in 0..Len(BatchCells) : data' = data \o SubSeq(BatchCells, 1, n)
      BY <2>3
    <3>5. \/ \E m \in 0..Len(batch) : idx' = idx \o SubSeq(BatchEntries(Len(data)), 1, m)
          \/ idx' = Torn
      BY <2>3
    <3> QED BY <1>2, <1>4, <3>1, <3>2, <3>3, <3>4, <3>5, BrokenAppendTurns
  <2>4. CASE /\ pc = "closeIdx"
             /\ \/ \E n \in 0..Len(batch) :
                     idx' = idx \o SubSeq(BatchEntries(Len(data) - Len(BatchCells)), 1, n)
                \/ idx' = Torn
             /\ UNCHANGED <<data, damaged>>
    <3>1. PICK base \in Seq(Cell) :
            /\ data = base \o BatchCells /\ BatchCells \in Seq(Cell)
            /\ Len(data) - Len(BatchCells) = Len(base)
            /\ Whole(base, idx, rec, Len(rec) - Len(batch), acked)
            /\ Turns(Reads(base, idx), acked, rec)
      BY <1>4, <2>4, ClosedBase
    <3>2. idx \in Seq(Entry) /\ batch # <<>>
      BY <1>2, <2>4 DEF ClosePair, BatchLast
    <3> DEFINE n == Len(BatchCells)
    <3>3. n \in 0..Len(BatchCells) /\ data' = base \o SubSeq(BatchCells, 1, n)
      <4>1. SubSeq(BatchCells, 1, n) = BatchCells /\ n \in Nat
        BY <3>1
      <4> QED BY <2>4, <3>1, <4>1
    <3>4. \/ \E m \in 0..Len(batch) : idx' = idx \o SubSeq(BatchEntries(Len(base)), 1, m)
          \/ idx' = Torn
      BY <2>4, <3>1
    <3> HIDE DEF n
    <3> QED BY <1>2, <1>4, <3>1, <3>2, <3>3, <3>4, BrokenAppendTurns
  <2>5. CASE pc \in {"rewrite", "truncate"} /\ damaged' = TRUE
    BY <1>4, <2>5
  <2> QED BY <1>1, <2>1, <2>2, <2>3, <2>4, <2>5 DEF Aftermath
<1> QED BY <1>1, <1>3, <1>4 DEF TurnsInv, ToolTurns

LEMMA TurnsInit == ASSUME HistoryAssumption, Init PROVE TurnsInv
<1>1. /\ data = Missing /\ rec = <<>> /\ batch = <<>> /\ acked = {} /\ pc = "idle"
  BY DEF Init
<1>2. ~ValidPair
  BY <1>1 DEF ValidPair, Exists
<1>3. Len(batch) = 0
  BY <1>1
<1> QED BY <1>1, <1>2, <1>3 DEF TurnsInv, Batches, CallsAnswered, ToolTurns

LEMMA TurnsNext ==
  ASSUME HistoryAssumption, HistoryInv, TurnsInv, [Next]_vars PROVE TurnsInv'
<1>1. CASE \E kind \in DOMAIN BatchTypes :
             \E lens \in Lens(BatchTypes[kind]) : Persist(kind, lens)
  BY <1>1, PersistTurns
<1>2. CASE Recreate
  BY <1>2, RecreateTurns
<1>3. CASE AppendData
  BY <1>3, AppendDataTurns
<1>4. CASE CloseIdx
  BY <1>4, CloseIdxTurns
<1>5. CASE Compact
  BY <1>5, CompactTurns
<1>6. CASE MoveRecord
  BY <1>6, MoveRecordTurns
<1>7. CASE FlushIdx
  BY <1>7, FlushIdxTurns
<1>8. CASE TruncateIdx
  BY <1>8, TruncateIdxTurns
<1>9. CASE LoadResets
  BY <1>9, LoadResetsTurns
<1>10. CASE Break
  BY <1>10, BreakTurns
<1>11. CASE Delete
  BY <1>11, DeleteTurns
<1>12. CASE UNCHANGED vars
  BY <1>12, TurnsStay DEF vars, files
<1> QED BY <1>1, <1>2, <1>3, <1>4, <1>5, <1>6, <1>7, <1>8, <1>9, <1>10, <1>11, <1>12 DEF Next

-----------------------------------------------------------------------------
(***************************************************************************)
(* The long-term memory.                                                   *)
(***************************************************************************)

CONSTANTS Writers, MemKeys, LongKeys, Labels, CompactChanges, CompactLines, MemCapacity, MaxIds,
          MaxMemOps, MaxRecalls, MaxMemCuts

VARIABLES memRecords, memIndex, memDigest, memChanges, memWriter, memIds, memIdsRepeat,
          memOpsLeft, memCutsLeft, memAcked, memDamaged, memStale, memRecounted

Memory == INSTANCE MemoryStore

LEMMA CountIs == ASSUME NEW S PROVE Memory!Cardinality(S) = Cardinality(S)
BY DEF Memory!Cardinality, Cardinality

LEMMA RangeIs == ASSUME NEW f PROVE Memory!Range(f) = Range(f)
BY DEF Memory!Range, Range

LEMMA PicksAlike == ASSUME NEW seq, NEW S PROVE Memory!Picked(seq, S) = Picked(seq, S)
<1>1. Memory!InOrder(S) = InOrder(S)
  BY CountIs DEF Memory!InOrder, InOrder
<1> QED BY <1>1 DEF Memory!Picked, Picked


(***************************************************************************)
(* What is picked from a sequence.                                         *)
(***************************************************************************)

LEMMA PickedIs ==
  ASSUME NEW T, NEW seq \in Seq(T), NEW S \in SUBSET DOMAIN seq
  PROVE  /\ Picked(seq, S) \in Seq(T)
         /\ \A n \in DOMAIN Picked(seq, S) : \E i \in S : Picked(seq, S)[n] = seq[i]
         /\ \A i \in S : \E n \in DOMAIN Picked(seq, S) : Picked(seq, S)[n] = seq[i]
         /\ \A m, n \in DOMAIN Picked(seq, S) : m < n =>
              \E i, j \in S : i < j /\ Picked(seq, S)[m] = seq[i] /\ Picked(seq, S)[n] = seq[j]
<1>1. S \subseteq Nat /\ IsFiniteSet(S)
  <2>1. S \subseteq 1..Len(seq) /\ Len(seq) \in Nat
    OBVIOUS
  <2>2. IsFiniteSet(1..Len(seq))
    BY <2>1, FS_Interval
  <2>3. IsFiniteSet(S)
    BY <2>1, <2>2, FS_Subset
  <2> QED BY <2>1, <2>3
<1>2. /\ Cardinality(S) \in Nat /\ InOrder(S) \in [1..Cardinality(S) -> S]
      /\ \A m, n \in 1..Cardinality(S) : m < n => InOrder(S)[m] < InOrder(S)[n]
      /\ \A i \in S : \E n \in 1..Cardinality(S) : InOrder(S)[n] = i
  BY <1>1, InOrderIs
<1>3. /\ DOMAIN Picked(seq, S) = 1..Cardinality(S)
      /\ \A n \in 1..Cardinality(S) : Picked(seq, S)[n] = seq[InOrder(S)[n]]
  BY <1>2 DEF Picked
<1>4. \A n \in 1..Cardinality(S) : seq[InOrder(S)[n]] \in T
  BY <1>2
<1>5. Picked(seq, S) = [n \in 1..Cardinality(S) |-> seq[InOrder(S)[n]]]
  BY <1>2 DEF Picked
<1>6. Picked(seq, S) \in [1..Cardinality(S) -> T]
  BY <1>4, <1>5
<1>7. Picked(seq, S) \in Seq(T)
  BY <1>2, <1>6
<1> QED BY <1>2, <1>3, <1>7

-----------------------------------------------------------------------------
(***************************************************************************)
(* The memories of a file.                                                 *)
(***************************************************************************)

LEMMA LinesApart == ASSUME Memory!MemoryBounds PROVE Memory!CutLine \notin Memory!Item /\ \A a \in Memory!Item : a.id # 0
BY DEF Memory!MemoryBounds, Memory!Item, Memory!CutLine

LEMMA LastIs ==
  ASSUME NEW lines \in Seq(Memory!Lines), NEW i \in DOMAIN lines, lines[i] # Memory!CutLine
  PROVE  /\ Memory!Latest(lines, lines[i].id) \in DOMAIN lines
         /\ Memory!IsLast(lines, Memory!Latest(lines, lines[i].id))
         /\ lines[Memory!Latest(lines, lines[i].id)].id = lines[i].id
<1> DEFINE same == {j \in DOMAIN lines : lines[j] # Memory!CutLine /\ lines[j].id = lines[i].id}
<1> DEFINE gaps == {Len(lines) - j : j \in same}
<1>1. gaps \subseteq Nat /\ gaps # {}
  OBVIOUS
<1>2. PICK d \in gaps : \A e \in gaps : d <= e
  <2> HIDE DEF gaps
  <2> QED BY <1>1, LeastNumber
<1>3. PICK j \in same : d = Len(lines) - j
  BY <1>2
<1>4. ASSUME NEW k \in j + 1 .. Len(lines), lines[k].id = lines[j].id PROVE FALSE
  <2>1. k \in DOMAIN lines /\ j \in DOMAIN lines /\ k > j /\ lines[k].id = lines[i].id
    BY <1>3, <1>4
  <2>2. lines[k] # Memory!CutLine
    <3>1. lines[i].id # 0
      BY DEF Memory!Lines, Memory!CutLine, Memory!Item
    <3> QED BY <2>1, <3>1 DEF Memory!CutLine
  <2>3. k \in same
    BY <2>1, <2>2
  <2>4. Len(lines) - j <= Len(lines) - k
    BY <1>2, <1>3, <2>3
  <2> QED BY <2>1, <2>4
<1>5. j \in DOMAIN lines /\ Memory!IsLast(lines, j) /\ lines[j].id = lines[i].id
  BY <1>3, <1>4 DEF Memory!IsLast
<1> QED BY <1>5 DEF Memory!Latest

LEMMA LastIsOne ==
  ASSUME NEW lines \in Seq(Memory!Lines), NEW i \in DOMAIN lines, NEW j \in DOMAIN lines,
         Memory!IsLast(lines, i), Memory!IsLast(lines, j), lines[i].id = lines[j].id
  PROVE  i = j
<1>1. ~(i < j) /\ ~(j < i)
  BY DEF Memory!IsLast
<1> QED BY <1>1

LEMMA FirstIs ==
  ASSUME NEW lines \in Seq(Memory!Lines), NEW i \in DOMAIN lines, lines[i] # Memory!CutLine
  PROVE  \E j \in DOMAIN lines : Memory!IsFirst(lines, j) /\ lines[j].id = lines[i].id
<1> DEFINE same == {j \in DOMAIN lines : lines[j] # Memory!CutLine /\ lines[j].id = lines[i].id}
<1>1. PICK j \in same : \A k \in same : j <= k
  <2>1. same \subseteq Nat /\ same # {}
    OBVIOUS
  <2> HIDE DEF same
  <2> QED BY <2>1, LeastNumber
<1>2. ASSUME NEW k \in 1 .. j - 1, lines[k].id = lines[j].id PROVE FALSE
  <2>1. k \in DOMAIN lines /\ k < j /\ lines[k].id = lines[i].id
    BY <1>1, <1>2
  <2>2. lines[k] # Memory!CutLine
    <3>1. lines[i].id # 0
      BY DEF Memory!Lines, Memory!CutLine, Memory!Item
    <3> QED BY <2>1, <3>1 DEF Memory!CutLine
  <2> QED BY <1>1, <2>1, <2>2
<1> QED BY <1>1, <1>2 DEF Memory!IsFirst

LEMMA CurrentIs ==
  ASSUME NEW lines \in Seq(Memory!Lines)
  PROVE  /\ Memory!Current(lines) \in Seq(Memory!Item)
         /\ \A n \in DOMAIN Memory!Current(lines) :
              \E i \in DOMAIN lines : Memory!IsLast(lines, i) /\ Memory!Current(lines)[n] = lines[i]
         /\ \A i \in DOMAIN lines : Memory!IsLast(lines, i) =>
              \E n \in DOMAIN Memory!Current(lines) : Memory!Current(lines)[n] = lines[i]
         /\ \A m, n \in DOMAIN Memory!Current(lines) : Memory!Current(lines)[m].id = Memory!Current(lines)[n].id => m = n
<1> DEFINE F == {i \in DOMAIN lines : Memory!IsFirst(lines, i)}
<1> DEFINE first == Memory!Picked(lines, F)
<1>1. /\ first \in Seq(Memory!Lines)
      /\ \A n \in DOMAIN first : \E i \in F : first[n] = lines[i]
      /\ \A i \in F : \E n \in DOMAIN first : first[n] = lines[i]
      /\ \A m, n \in DOMAIN first : m < n => \E i, j \in F : i < j /\ first[m] = lines[i] /\ first[n] = lines[j]
  <2>1. F \in SUBSET DOMAIN lines
    OBVIOUS
  <2> HIDE DEF F
  <2> QED BY <2>1, PickedIs, PicksAlike
<1>2. Memory!Current(lines) = [n \in DOMAIN first |-> lines[Memory!Latest(lines, first[n].id)]]
  BY DEF Memory!Current
<1> HIDE DEF first
<1>3. ASSUME NEW n \in DOMAIN first
      PROVE  /\ first[n] # Memory!CutLine
             /\ Memory!Latest(lines, first[n].id) \in DOMAIN lines
             /\ Memory!IsLast(lines, Memory!Latest(lines, first[n].id))
             /\ lines[Memory!Latest(lines, first[n].id)].id = first[n].id
             /\ lines[Memory!Latest(lines, first[n].id)] \in Memory!Item
  <2>1. PICK i \in DOMAIN lines : Memory!IsFirst(lines, i) /\ first[n] = lines[i]
    BY <1>1
  <2>2. lines[i] # Memory!CutLine
    BY <2>1 DEF Memory!IsFirst
  <2>3. /\ Memory!Latest(lines, first[n].id) \in DOMAIN lines
        /\ Memory!IsLast(lines, Memory!Latest(lines, first[n].id))
        /\ lines[Memory!Latest(lines, first[n].id)].id = first[n].id
    BY <2>1, <2>2, LastIs
  <2>4. lines[Memory!Latest(lines, first[n].id)] \in Memory!Item
    BY <2>3 DEF Memory!IsLast, Memory!Lines
  <2> QED BY <2>1, <2>2, <2>3, <2>4
<1>4. DOMAIN first = 1..Len(first) /\ Len(first) \in Nat
  BY <1>1
<1>5. Memory!Current(lines) \in Seq(Memory!Item)
  <2>1. Memory!Current(lines) \in [1..Len(first) -> Memory!Item]
    BY <1>2, <1>3, <1>4
  <2> QED BY <1>4, <2>1
<1>6. ASSUME NEW i \in DOMAIN lines, Memory!IsLast(lines, i)
      PROVE  \E n \in DOMAIN Memory!Current(lines) : Memory!Current(lines)[n] = lines[i]
  <2>1. lines[i] # Memory!CutLine
    BY <1>6 DEF Memory!IsLast
  <2>2. PICK j \in DOMAIN lines : Memory!IsFirst(lines, j) /\ lines[j].id = lines[i].id
    BY <2>1, FirstIs
  <2>3. PICK n \in DOMAIN first : first[n] = lines[j]
    BY <1>1, <2>2
  <2>4. Memory!Latest(lines, first[n].id) = i
    BY <1>3, <1>6, <2>2, <2>3, LastIsOne
  <2> QED BY <1>2, <2>3, <2>4
<1>7. ASSUME NEW m \in DOMAIN first, NEW n \in DOMAIN first, m < n, first[m].id = first[n].id
      PROVE  FALSE
  <2>1. PICK i \in F, j \in F : i < j /\ first[m] = lines[i] /\ first[n] = lines[j]
    BY <1>1, <1>7
  <2>2. i \in 1 .. j - 1
    BY <2>1
  <2> QED BY <1>7, <2>1, <2>2 DEF Memory!IsFirst
<1>8. ASSUME NEW m \in DOMAIN Memory!Current(lines), NEW n \in DOMAIN Memory!Current(lines),
             Memory!Current(lines)[m].id = Memory!Current(lines)[n].id
      PROVE  m = n
  <2>1. m \in DOMAIN first /\ n \in DOMAIN first /\ first[m].id = first[n].id
    BY <1>2, <1>3, <1>8
  <2>2. ~(m < n) /\ ~(n < m)
    BY <1>7, <2>1
  <2>3. m \in Nat /\ n \in Nat
    BY <1>4, <2>1
  <2> QED BY <2>2, <2>3
<1>9. \A n \in DOMAIN Memory!Current(lines) : \E i \in DOMAIN lines : Memory!IsLast(lines, i) /\ Memory!Current(lines)[n] = lines[i]
  BY <1>2, <1>3
<1> QED BY <1>5, <1>6, <1>8, <1>9

LEMMA LiveIs ==
  ASSUME NEW lines \in Seq(Memory!Lines)
  PROVE  /\ Memory!Live(lines) \in Seq(Memory!Item)
         /\ \A n \in DOMAIN Memory!Live(lines) :
              /\ Memory!Live(lines)[n].live
              /\ \E i \in DOMAIN lines : Memory!IsLast(lines, i) /\ Memory!Live(lines)[n] = lines[i]
         /\ \A i \in DOMAIN lines : Memory!IsLast(lines, i) /\ lines[i].live =>
              \E n \in DOMAIN Memory!Live(lines) : Memory!Live(lines)[n] = lines[i]
         /\ \A m, n \in DOMAIN Memory!Live(lines) : Memory!Live(lines)[m].id = Memory!Live(lines)[n].id => m = n
<1> DEFINE items == Memory!Current(lines)
<1> DEFINE S == {i \in DOMAIN items : items[i].live}
<1>1. /\ items \in Seq(Memory!Item)
      /\ \A n \in DOMAIN items : \E i \in DOMAIN lines : Memory!IsLast(lines, i) /\ items[n] = lines[i]
      /\ \A i \in DOMAIN lines : Memory!IsLast(lines, i) => \E n \in DOMAIN items : items[n] = lines[i]
      /\ \A m, n \in DOMAIN items : items[m].id = items[n].id => m = n
  BY CurrentIs
<1>2. Memory!Live(lines) = Memory!Picked(items, S)
  BY DEF Memory!Live
<1> HIDE DEF items
<1>3. /\ Memory!Live(lines) \in Seq(Memory!Item)
      /\ \A n \in DOMAIN Memory!Live(lines) : \E i \in S : Memory!Live(lines)[n] = items[i]
      /\ \A i \in S : \E n \in DOMAIN Memory!Live(lines) : Memory!Live(lines)[n] = items[i]
      /\ \A m, n \in DOMAIN Memory!Live(lines) : m < n =>
           \E i, j \in S : i < j /\ Memory!Live(lines)[m] = items[i] /\ Memory!Live(lines)[n] = items[j]
  <2>1. S \in SUBSET DOMAIN items
    OBVIOUS
  <2> HIDE DEF S
  <2> QED BY <1>1, <1>2, <2>1, PickedIs, PicksAlike
<1>4. ASSUME NEW m \in DOMAIN Memory!Live(lines), NEW n \in DOMAIN Memory!Live(lines),
             m < n, Memory!Live(lines)[m].id = Memory!Live(lines)[n].id
      PROVE  FALSE
  <2>1. PICK i \in S, j \in S : i < j /\ Memory!Live(lines)[m] = items[i] /\ Memory!Live(lines)[n] = items[j]
    BY <1>3, <1>4
  <2>2. i = j
    BY <1>1, <1>4, <2>1
  <2>3. i \in Nat
    BY <1>1
  <2> QED BY <2>1, <2>2, <2>3
<1>5. \A m, n \in DOMAIN Memory!Live(lines) : Memory!Live(lines)[m].id = Memory!Live(lines)[n].id => m = n
  <2> SUFFICES ASSUME NEW m \in DOMAIN Memory!Live(lines), NEW n \in DOMAIN Memory!Live(lines),
                      Memory!Live(lines)[m].id = Memory!Live(lines)[n].id
               PROVE  m = n
    OBVIOUS
  <2>1. m \in Nat /\ n \in Nat /\ ~(m < n) /\ ~(n < m)
    BY <1>3, <1>4
  <2> QED BY <2>1
<1>6. \A n \in DOMAIN Memory!Live(lines) :
        Memory!Live(lines)[n].live /\ \E i \in DOMAIN lines : Memory!IsLast(lines, i) /\ Memory!Live(lines)[n] = lines[i]
  <2> TAKE n \in DOMAIN Memory!Live(lines)
  <2>1. PICK k \in S : Memory!Live(lines)[n] = items[k]
    BY <1>3
  <2>2. k \in DOMAIN items /\ items[k].live
    OBVIOUS
  <2> QED BY <1>1, <2>1, <2>2
<1>7. \A i \in DOMAIN lines : Memory!IsLast(lines, i) /\ lines[i].live =>
        \E n \in DOMAIN Memory!Live(lines) : Memory!Live(lines)[n] = lines[i]
  BY <1>1, <1>3
<1> QED BY <1>3, <1>5, <1>6, <1>7

LEMMA LiveSetIs ==
  ASSUME NEW lines \in Seq(Memory!Lines), NEW a
  PROVE  a \in Memory!LiveSet(lines) <=> \E i \in DOMAIN lines : Memory!IsLast(lines, i) /\ lines[i] = a /\ a.live
<1>1. a \in Memory!LiveSet(lines) <=> \E n \in DOMAIN Memory!Live(lines) : Memory!Live(lines)[n] = a
  BY DEF Memory!LiveSet
<1> QED BY <1>1, LiveIs


\* What the file holds of live memories: one of an id, each a whole record.
LEMMA LiveSetSound ==
  ASSUME NEW lines \in Seq(Memory!Lines)
  PROVE  /\ Memory!LiveSet(lines) \subseteq Memory!Item
         /\ \A a \in Memory!LiveSet(lines) : a.live /\ \E i \in DOMAIN lines : lines[i] = a /\ a # Memory!CutLine
         /\ \A a, b \in Memory!LiveSet(lines) : a.id = b.id => a = b
<1>1. \A a \in Memory!LiveSet(lines) :
        a.live /\ \E i \in DOMAIN lines : Memory!IsLast(lines, i) /\ lines[i] = a
  BY LiveSetIs
<1>2. \A a \in Memory!LiveSet(lines) : a # Memory!CutLine /\ a \in Memory!Item
  BY <1>1 DEF Memory!IsLast, Memory!Lines
<1>3. \A a, b \in Memory!LiveSet(lines) : a.id = b.id => a = b
  BY <1>1, LastIsOne
<1> QED BY <1>1, <1>2, <1>3

\* An unreadable line at the end changes no memory.
LEMMA CutLineKeeps ==
  ASSUME NEW lines \in Seq(Memory!Lines)
  PROVE  /\ Memory!WithLine(lines, Memory!CutLine) \in Seq(Memory!Lines)
         /\ Memory!LiveSet(Memory!WithLine(lines, Memory!CutLine)) = Memory!LiveSet(lines)
         /\ Range(Memory!WithLine(lines, Memory!CutLine)) \subseteq Range(lines) \cup {Memory!CutLine}
<1> DEFINE new == Memory!WithLine(lines, Memory!CutLine)
<1>1. CASE new = lines
  BY <1>1
<1>2. CASE new = Append(lines, Memory!CutLine)
  <2>1. Memory!CutLine \in Memory!Lines
    BY DEF Memory!Lines
  <2>2. /\ new \in Seq(Memory!Lines) /\ Len(new) = Len(lines) + 1
        /\ \A i \in DOMAIN lines : new[i] = lines[i]
        /\ new[Len(new)] = Memory!CutLine
    BY <1>2, <2>1
  <2>3. DOMAIN new = 1..Len(lines) + 1 /\ DOMAIN lines = 1..Len(lines) /\ Len(lines) \in Nat
    BY <2>2
  <2> HIDE DEF new
  <2>4. ASSUME NEW i \in DOMAIN lines
        PROVE  Memory!IsLast(new, i) <=> Memory!IsLast(lines, i)
    <3>1. lines[i] # Memory!CutLine => Memory!CutLine.id # lines[i].id
      BY DEF Memory!Lines, Memory!CutLine, Memory!Item
    <3>2. \A j \in i + 1 .. Len(new) : j \in i + 1 .. Len(lines) \/ j = Len(new)
      BY <2>2, <2>3
    <3>3. \A j \in i + 1 .. Len(lines) : j \in i + 1 .. Len(new) /\ j \in DOMAIN lines
      BY <2>2, <2>3
    <3> QED BY <2>2, <3>1, <3>2, <3>3 DEF Memory!IsLast
  <2>5. ~Memory!IsLast(new, Len(new))
    BY <2>2 DEF Memory!IsLast
  <2>6. \A a : a \in Memory!LiveSet(new) <=> a \in Memory!LiveSet(lines)
    <3> TAKE a
    <3>1. a \in Memory!LiveSet(lines) <=> \E i \in DOMAIN lines : Memory!IsLast(lines, i) /\ lines[i] = a /\ a.live
      BY LiveSetIs
    <3>2. a \in Memory!LiveSet(new) <=> \E i \in DOMAIN new : Memory!IsLast(new, i) /\ new[i] = a /\ a.live
      BY <2>2, LiveSetIs
    <3>3. \A i \in DOMAIN new : i \in DOMAIN lines \/ i = Len(new)
      BY <2>2, <2>3
    <3>4. \A i \in DOMAIN lines : i \in DOMAIN new
      BY <2>3
    <3> QED BY <2>2, <2>4, <2>5, <3>1, <3>2, <3>3, <3>4
  <2>7. Range(new) \subseteq Range(lines) \cup {Memory!CutLine}
    BY <2>2, <2>3 DEF Range
  <2> QED BY <2>2, <2>6, <2>7 DEF new
<1> QED BY <1>1, <1>2 DEF Memory!WithLine

\* An appended line takes the place of those with its id, unless it continues an
\* unreadable one.
LEMMA LineAdds ==
  ASSUME Memory!MemoryBounds, NEW lines \in Seq(Memory!Lines), NEW item \in Memory!Item
  PROVE  /\ Memory!WithLine(lines, item) \in Seq(Memory!Lines)
         /\ \/ Memory!LiveSet(Memory!WithLine(lines, item)) = Memory!LiveSet(lines) /\ Memory!CutLine \in Range(lines)
            \/ Memory!LiveSet(Memory!WithLine(lines, item)) =
                 {a \in Memory!LiveSet(lines) : a.id # item.id} \cup {a \in {item} : a.live}
         /\ Range(Memory!WithLine(lines, item)) \subseteq Range(lines) \cup {item}
<1> DEFINE new == Memory!WithLine(lines, item)
<1>0. item # Memory!CutLine /\ item \in Memory!Lines
  BY LinesApart DEF Memory!Lines
<1>1. CASE new = Append(lines, item)
  <2>2. /\ new \in Seq(Memory!Lines) /\ Len(new) = Len(lines) + 1
        /\ \A i \in DOMAIN lines : new[i] = lines[i]
        /\ new[Len(new)] = item
    BY <1>0, <1>1
  <2>3. DOMAIN new = 1..Len(lines) + 1 /\ DOMAIN lines = 1..Len(lines) /\ Len(lines) \in Nat
    BY <2>2
  <2> HIDE DEF new
  <2>4. ASSUME NEW i \in DOMAIN lines
        PROVE  Memory!IsLast(new, i) <=> Memory!IsLast(lines, i) /\ lines[i].id # item.id
    <3>2. \A j \in i + 1 .. Len(new) : j \in i + 1 .. Len(lines) \/ j = Len(new)
      BY <2>2, <2>3
    <3>3. \A j \in i + 1 .. Len(lines) : j \in i + 1 .. Len(new) /\ j \in DOMAIN lines
      BY <2>2, <2>3
    <3>4. Len(new) \in i + 1 .. Len(new)
      BY <2>2, <2>3
    <3> QED BY <2>2, <3>2, <3>3, <3>4 DEF Memory!IsLast
  <2>5. Memory!IsLast(new, Len(new))
    <3>1. Len(new) + 1 .. Len(new) = {}
      BY <2>2, <2>3
    <3> QED BY <1>0, <2>2, <3>1 DEF Memory!IsLast
  <2>6. \A a : a \in Memory!LiveSet(new) <=>
                 a \in {b \in Memory!LiveSet(lines) : b.id # item.id} \cup {b \in {item} : b.live}
    <3> TAKE a
    <3>1. a \in Memory!LiveSet(lines) <=> \E i \in DOMAIN lines : Memory!IsLast(lines, i) /\ lines[i] = a /\ a.live
      BY LiveSetIs
    <3>2. a \in Memory!LiveSet(new) <=> \E i \in DOMAIN new : Memory!IsLast(new, i) /\ new[i] = a /\ a.live
      BY <2>2, LiveSetIs
    <3>3. \A i \in DOMAIN new : i \in DOMAIN lines \/ i = Len(new)
      BY <2>2, <2>3
    <3>4. Len(new) \in DOMAIN new /\ \A i \in DOMAIN lines : i \in DOMAIN new
      BY <2>2, <2>3
    <3> QED BY <2>2, <2>4, <2>5, <3>1, <3>2, <3>3, <3>4
  <2>7. Range(new) \subseteq Range(lines) \cup {item}
    BY <2>2, <2>3 DEF Range
  <2> QED BY <2>2, <2>6, <2>7 DEF new
<1>2. CASE lines # <<>> /\ lines[Len(lines)] = Memory!CutLine /\ new = SubSeq(lines, 1, Len(lines) - 1)
  <2>1. Len(lines) \in Nat \ {0} /\ DOMAIN lines = 1..Len(lines)
    BY <1>2
  <2>2. /\ new \in Seq(Memory!Lines) /\ Len(new) = Len(lines) - 1
        /\ DOMAIN new = 1..Len(lines) - 1
        /\ \A i \in DOMAIN new : new[i] = lines[i]
    BY <1>2, <2>1
  <2>3. Memory!CutLine \in Range(lines)
    BY <1>2, <2>1 DEF Range
  <2> HIDE DEF new
  <2>4. ASSUME NEW i \in DOMAIN new
        PROVE  Memory!IsLast(new, i) <=> Memory!IsLast(lines, i)
    <3>1. lines[i] # Memory!CutLine => Memory!CutLine.id # lines[i].id
      BY <2>1, <2>2 DEF Memory!Lines, Memory!CutLine, Memory!Item
    <3>2. \A j \in i + 1 .. Len(lines) : j \in i + 1 .. Len(new) \/ j = Len(lines)
      <4> DEFINE L == Len(lines)
      <4>1. L \in Nat /\ Len(new) = L - 1 /\ i \in Nat
        BY <2>1, <2>2
      <4> HIDE DEF L
      <4>2. \A j \in i + 1 .. L : j \in i + 1 .. L - 1 \/ j = L
        BY <4>1
      <4> QED BY <4>1, <4>2 DEF L
    <3>3. \A j \in i + 1 .. Len(new) : j \in i + 1 .. Len(lines) /\ j \in DOMAIN new
      BY <2>1, <2>2
    <3> QED BY <1>2, <2>2, <3>1, <3>2, <3>3 DEF Memory!IsLast
  <2>6. \A a : a \in Memory!LiveSet(new) <=> a \in Memory!LiveSet(lines)
    <3> TAKE a
    <3>1. a \in Memory!LiveSet(lines) <=> \E i \in DOMAIN lines : Memory!IsLast(lines, i) /\ lines[i] = a /\ a.live
      BY LiveSetIs
    <3>2. a \in Memory!LiveSet(new) <=> \E i \in DOMAIN new : Memory!IsLast(new, i) /\ new[i] = a /\ a.live
      BY <2>2, LiveSetIs
    <3>3. \A i \in DOMAIN lines : i \in DOMAIN new \/ i = Len(lines)
      BY <2>1, <2>2
    <3>4. \A i \in DOMAIN new : i \in DOMAIN lines
      BY <2>1, <2>2
    <3>5. ~Memory!IsLast(lines, Len(lines))
      BY <1>2 DEF Memory!IsLast
    <3> QED BY <2>2, <2>4, <3>1, <3>2, <3>3, <3>4, <3>5
  <2>7. Range(new) \subseteq Range(lines) \cup {item}
    BY <2>1, <2>2 DEF Range
  <2> QED BY <2>2, <2>3, <2>6, <2>7 DEF new
<1> QED BY <1>0, <1>1, <1>2 DEF Memory!WithLine


-----------------------------------------------------------------------------
(***************************************************************************)
(* The index.                                                              *)
(***************************************************************************)

Index == [whole : BOOLEAN, sums : [Labels -> [id : Nat, refs : Nat]], next : Nat, upto : Nat]
Ids == [Labels -> Nat]

LEMMA IndexesAre ==
  ASSUME NEW upto \in Nat
  PROVE  /\ Memory!NewIndex \in Index /\ Memory!NoIndex \in Index /\ Memory!NoIndex.upto = 0 /\ ~Memory!NoIndex.whole
         /\ [Memory!NewIndex EXCEPT !.upto = upto] \in Index
         /\ [Memory!NewIndex EXCEPT !.upto = upto].upto = upto
BY DEF Memory!NewIndex, Memory!NoIndex, Memory!Absent, Index

LEMMA EnsureIs ==
  ASSUME NEW index \in Index, NEW label \in Labels, NEW preferred \in Nat
  PROVE  /\ Memory!EnsureLabel(index, label, preferred) \in Index
         /\ Memory!EnsureLabel(index, label, preferred).upto = index.upto
         /\ Memory!EnsureLabel(index, label, preferred).whole = index.whole
<1> DEFINE taken == \E l \in Labels : index.sums[l].id = preferred
<1> DEFINE id == IF preferred > 0 /\ ~taken THEN preferred ELSE index.next
<1>1. id \in Nat /\ index.next \in Nat
  <2> HIDE DEF taken
  <2> QED BY DEF Index
<1> HIDE DEF id
<1> DEFINE new == [index EXCEPT !.sums[label] = [id |-> id, refs |-> 0],
                                !.next = IF id >= @ THEN id + 1 ELSE @]
<1>2. new \in Index /\ new.upto = index.upto /\ new.whole = index.whole
  <2>1. [id |-> id, refs |-> 0] \in [id : Nat, refs : Nat]
    BY <1>1
  <2>2. (IF id >= index.next THEN id + 1 ELSE index.next) \in Nat
    BY <1>1
  <2> QED BY <2>1, <2>2 DEF Index
<1>3. Memory!EnsureLabel(index, label, preferred) = IF index.sums[label].id > 0 THEN index ELSE new
  BY DEF Memory!EnsureLabel, id
<1> HIDE DEF new
<1> QED BY <1>2, <1>3

LEMMA CountedIs ==
  ASSUME NEW index \in Index, NEW sid \in Nat
  PROVE  /\ Memory!Counted(index, sid) \in Index
         /\ Memory!Counted(index, sid).upto = index.upto /\ Memory!Counted(index, sid).whole = index.whole
<1> DEFINE sums == [l \in Labels |->
      [index.sums[l] EXCEPT !.refs = IF l \in Memory!LabelOf(index, sid) THEN @ + 1 ELSE @]]
<1>1. sums \in [Labels -> [id : Nat, refs : Nat]]
  <2> SUFFICES ASSUME NEW l \in Labels PROVE sums[l] \in [id : Nat, refs : Nat]
    OBVIOUS
  <2>1. index.sums[l] \in [id : Nat, refs : Nat]
    BY DEF Index
  <2> QED BY <2>1
<1>2. Memory!Counted(index, sid) = [index EXCEPT !.sums = sums]
  BY DEF Memory!Counted
<1> HIDE DEF sums
<1> QED BY <1>1, <1>2 DEF Index

LEMMA UncountedIs ==
  ASSUME NEW index \in Index, NEW sid \in Nat
  PROVE  /\ Memory!Uncounted(index, sid) \in Index
         /\ Memory!Uncounted(index, sid).upto = index.upto /\ Memory!Uncounted(index, sid).whole = index.whole
<1> DEFINE refs(l) == IF l \in Memory!LabelOf(index, sid) THEN index.sums[l].refs - 1
                      ELSE index.sums[l].refs
<1> DEFINE sums == [l \in Labels |-> IF index.sums[l].refs = 0 \/ refs(l) = 0 THEN Memory!Absent
                                     ELSE [index.sums[l] EXCEPT !.refs = refs(l)]]
<1>1. sums \in [Labels -> [id : Nat, refs : Nat]]
  <2>1. \A l \in Labels : index.sums[l] \in [id : Nat, refs : Nat]
    BY DEF Index
  <2>2. \A l \in Labels : index.sums[l].refs # 0 => refs(l) \in Nat
    BY <2>1
  <2>3. Memory!Absent \in [id : Nat, refs : Nat]
    BY DEF Memory!Absent
  <2> HIDE DEF refs
  <2> QED BY <2>1, <2>2, <2>3
<1>2. Memory!Uncounted(index, sid) = [index EXCEPT !.sums = sums]
  BY DEF Memory!Uncounted, Index
<1> HIDE DEF sums
<1> QED BY <1>1, <1>2 DEF Index

LEMMA AnewIs ==
  ASSUME NEW index \in Index, NEW label \in Labels, NEW had \in Ids
  PROVE  Memory!CountedAnew(index, label, had) \in Index /\ Memory!CountedAnew(index, label, had).upto = index.upto
<1> DEFINE ensured == Memory!EnsureLabel(index, label, had[label])
<1>1. ensured \in Index /\ ensured.upto = index.upto
  <2>1. had[label] \in Nat
    BY DEF Ids
  <2> QED BY <2>1, EnsureIs
<1>2. Memory!CountedAnew(index, label, had) = Memory!Counted(ensured, ensured.sums[label].id)
  BY DEF Memory!CountedAnew
<1> HIDE DEF ensured
<1>3. ensured.sums[label].id \in Nat
  BY <1>1 DEF Index
<1> QED BY <1>1, <1>2, <1>3, CountedIs

\* An index built memory by memory.
IsBuilt(f, items, had, upto, n) ==
  f = [m \in 0 .. n |-> IF m = 0 THEN [Memory!NewIndex EXCEPT !.upto = upto]
                        ELSE Memory!CountedAnew(f[m - 1], items[m].label, had)]

LEMMA BuiltExists ==
  ASSUME NEW items, NEW had, NEW upto, NEW k \in Nat
  PROVE  \E f : IsBuilt(f, items, had, upto, k)
<1> DEFINE Fails == {n \in Nat : ~\E f : IsBuilt(f, items, had, upto, n)}
<1>1. SUFFICES ASSUME k \in Fails PROVE FALSE
  OBVIOUS
<1>2. PICK n \in Fails : \A m \in Fails : n <= m
  <2> HIDE DEF Fails
  <2>1. Fails \subseteq Nat
    BY DEF Fails
  <2> QED BY <1>1, <2>1, LeastNumber
<1>3. n # 0
  <2>1. IsBuilt([m \in 0..0 |-> [Memory!NewIndex EXCEPT !.upto = upto]], items, had, upto, 0)
    BY DEF IsBuilt
  <2> QED BY <1>2, <2>1
<1>4. n \in Nat /\ n - 1 \in Nat /\ n - 1 \notin Fails
  BY <1>2, <1>3
<1>5. PICK f : IsBuilt(f, items, had, upto, n - 1)
  BY <1>4
<1> DEFINE g == [m \in 0..n |-> IF m = n THEN Memory!CountedAnew(f[n - 1], items[n].label, had) ELSE f[m]]
<1>6. \A m \in 0..n - 1 : f[m] = IF m = 0 THEN [Memory!NewIndex EXCEPT !.upto = upto]
                                 ELSE Memory!CountedAnew(f[m - 1], items[m].label, had)
  BY <1>4, <1>5 DEF IsBuilt
<1>7. \A m \in 0..n : g[m] = IF m = 0 THEN [Memory!NewIndex EXCEPT !.upto = upto]
                             ELSE Memory!CountedAnew(g[m - 1], items[m].label, had)
  <2> TAKE m \in 0..n
  <2>1. CASE m = n
    BY <1>3, <1>4, <2>1
  <2>2. CASE m # n
    <3>1. m \in 0..n - 1 /\ (m # 0 => m - 1 \in 0..n /\ m - 1 # n)
      BY <1>4, <2>2
    <3> QED BY <1>6, <2>2, <3>1
  <2> QED BY <2>1, <2>2
<1>8. IsBuilt(g, items, had, upto, n)
  <2>1. g = [m \in 0..n |-> g[m]]
    OBVIOUS
  <2> HIDE DEF g
  <2> QED BY <1>7, <2>1 DEF IsBuilt
<1> QED BY <1>2, <1>8

LEMMA NewIndexIs ==
  ASSUME NEW items \in Seq(Memory!Item), NEW had \in Ids, NEW upto \in Nat
  PROVE  Memory!NewIndexOf(items, had, upto) \in Index /\ Memory!NewIndexOf(items, had, upto).upto = upto
<1> DEFINE f == CHOOSE f : IsBuilt(f, items, had, upto, Len(items))
<1>1. Len(items) \in Nat
  OBVIOUS
<1>2. IsBuilt(f, items, had, upto, Len(items)) /\ Memory!NewIndexOf(items, had, upto) = f[Len(items)]
  <2>1. IsBuilt(f, items, had, upto, Len(items))
    BY <1>1, BuiltExists
  <2>2. Memory!NewIndexOf(items, had, upto) = f[Len(items)]
    BY DEF Memory!NewIndexOf, IsBuilt
  <2> QED BY <2>1, <2>2
<1> HIDE DEF f
<1>3. \A m \in 0..Len(items) : f[m] = IF m = 0 THEN [Memory!NewIndex EXCEPT !.upto = upto]
                                      ELSE Memory!CountedAnew(f[m - 1], items[m].label, had)
  BY <1>2 DEF IsBuilt
<1> DEFINE Fails == {m \in 0..Len(items) : f[m] \notin Index \/ f[m].upto # upto}
<1>4. SUFFICES ASSUME Fails # {} PROVE FALSE
  BY <1>1, <1>2
<1>5. PICK m \in Fails : \A k \in Fails : m <= k
  <2>1. Fails \subseteq Nat
    OBVIOUS
  <2> HIDE DEF Fails
  <2> QED BY <1>4, <2>1, LeastNumber
<1>6. CASE m = 0
  BY <1>3, <1>5, <1>6, IndexesAre
<1>7. CASE m # 0
  <2>1. m \in 1..Len(items) /\ m - 1 \in 0..Len(items) /\ ~(m <= m - 1)
    BY <1>1, <1>7
  <2>2. f[m - 1] \in Index /\ f[m - 1].upto = upto
    BY <1>5, <2>1
  <2>3. items[m].label \in Labels
    <3>1. items[m] \in Memory!Item
      BY <2>1
    <3> QED BY <3>1 DEF Memory!Item
  <2>4. /\ Memory!CountedAnew(f[m - 1], items[m].label, had) \in Index
        /\ Memory!CountedAnew(f[m - 1], items[m].label, had).upto = upto
    BY <2>2, <2>3, AnewIs
  <2> QED BY <1>3, <1>5, <1>7, <2>4
<1> QED BY <1>6, <1>7

-----------------------------------------------------------------------------
(***************************************************************************)
(* A compaction: what it makes of some memories.                           *)
(***************************************************************************)

\* Live memories, one of an id.
Sound(items) ==
  /\ items \in Seq(Memory!Item)
  /\ \A i \in DOMAIN items : items[i].live
  /\ \A i, j \in DOMAIN items : items[i].id = items[j].id => i = j

\* Every memory of some is one of others, as far as id and content go.
Stem(items, from) ==
  \A i \in DOMAIN items : \E j \in DOMAIN from :
    items[i].id = from[j].id /\ items[i].key = from[j].key

\* Every memory of some was recalled as often as one of others.
AsOften(items, from) ==
  \A i \in DOMAIN items : \E j \in DOMAIN from : items[i].access = from[j].access

LEMMA StemStems ==
  ASSUME NEW a, NEW b, NEW c, Stem(a, b), Stem(b, c) PROVE Stem(a, c)
BY DEF Stem

\* Memories that differ from others in counts and labels only are as sound.
LEMMA AlikeSound ==
  ASSUME NEW from, Sound(from), NEW items \in Seq(Memory!Item), DOMAIN items = DOMAIN from,
         \A i \in DOMAIN items : /\ items[i].id = from[i].id /\ items[i].key = from[i].key
                                 /\ items[i].live = from[i].live
  PROVE  Sound(items) /\ Stem(items, from) /\ Memory!KeysOf(items) = Memory!KeysOf(from)
BY DEF Sound, Stem, Memory!KeysOf

LEMMA LiveSound ==
  ASSUME NEW lines \in Seq(Memory!Lines)
  PROVE  Sound(Memory!Live(lines)) /\ Memory!KeysOf(Memory!Live(lines)) = Memory!LiveKeys(lines)
BY LiveIs DEF Sound, Memory!KeysOf, Memory!LiveKeys, Memory!LiveSet

LEMMA RecallsKeep ==
  ASSUME NEW items, Sound(items), NEW index \in Index, NEW digest \in Seq(Nat)
  PROVE  LET new == Memory!WithRecalls(items, index, digest) IN
         /\ Sound(new) /\ Stem(new, items) /\ Memory!KeysOf(new) = Memory!KeysOf(items)
         /\ index.upto <= Len(digest) /\ (\A i \in DOMAIN items : items[i].access <= index.upto) =>
              \A i \in DOMAIN new : new[i].access <= Len(digest)
<1> DEFINE new == Memory!WithRecalls(items, index, digest)
<1> DEFINE since == SubSeq(digest, index.upto + 1, Len(digest))
<1>0. /\ index.upto \in Nat /\ Len(digest) \in Nat /\ since \in Seq(Nat)
      /\ index.upto <= Len(digest) => Len(since) = Len(digest) - index.upto
  <2>1. index.upto \in Nat /\ Len(digest) \in Nat
    BY DEF Index
  <2> QED BY <2>1
<1>1. \A id : Memory!NumberOf(id, since) \in Nat /\ Memory!NumberOf(id, since) <= Len(since)
  <2> TAKE id
  <2> HIDE DEF since
  <2> DEFINE L == Len(since)
  <2>1. DOMAIN since = 1..L /\ L \in Nat
    BY <1>0
  <2> HIDE DEF L
  <2>2. IsFiniteSet(1..L) /\ Cardinality(1..L) = IF 1 > L THEN 0 ELSE L - 1 + 1
    BY <2>1, FS_Interval
  <2>3. IsFiniteSet(DOMAIN since) /\ Cardinality(DOMAIN since) = L
    BY <2>1, <2>2
  <2> DEFINE Of == {i \in DOMAIN since : since[i] = id}
  <2>4. Of \in SUBSET DOMAIN since
    OBVIOUS
  <2>5. Memory!NumberOf(id, since) = Cardinality(Of)
    BY CountIs DEF Memory!NumberOf
  <2> HIDE DEF Of
  <2>6. IsFiniteSet(Of) /\ Cardinality(Of) <= L
    BY <2>3, <2>4, FS_Subset
  <2>7. Cardinality(Of) \in Nat
    BY <2>6, FS_CardinalityType
  <2> QED BY <2>5, <2>6, <2>7 DEF L
<1>2. new = [i \in DOMAIN items |-> [items[i] EXCEPT !.access = @ + Memory!NumberOf(items[i].id, since)]]
  BY DEF Memory!WithRecalls
<1> HIDE DEF since, new
<1>3. items \in Seq(Memory!Item) /\ DOMAIN items = 1..Len(items) /\ Len(items) \in Nat
  BY DEF Sound
<1>4. \A i \in DOMAIN items : new[i] \in Memory!Item
  <2> TAKE i \in DOMAIN items
  <2>1. items[i] \in Memory!Item /\ Memory!NumberOf(items[i].id, since) \in Nat
    BY <1>1, <1>3
  <2>2. items[i].access + Memory!NumberOf(items[i].id, since) \in Nat
    BY <2>1 DEF Memory!Item
  <2> QED BY <1>2, <2>1, <2>2 DEF Memory!Item
<1>5. DOMAIN new = DOMAIN items /\ new \in Seq(Memory!Item)
  <2>1. new \in [1..Len(items) -> Memory!Item]
    BY <1>2, <1>3, <1>4
  <2> QED BY <1>3, <2>1
<1>6. \A i \in DOMAIN new : /\ new[i].id = items[i].id /\ new[i].key = items[i].key
                            /\ new[i].live = items[i].live
  <2>1. \A i \in DOMAIN items : items[i] \in Memory!Item
    BY <1>3
  <2> QED BY <1>2, <2>1 DEF Memory!Item
<1>7. ASSUME index.upto <= Len(digest), \A i \in DOMAIN items : items[i].access <= index.upto,
             NEW i \in DOMAIN new
      PROVE  new[i].access <= Len(digest)
  <2>0. i \in DOMAIN items
    BY <1>5
  <2>1. items[i] \in Memory!Item /\ items[i].access \in Nat /\ items[i].access <= index.upto
    <3>1. items[i].access <= index.upto
      BY <1>7, <2>0
    <3>2. items[i] \in Memory!Item
      BY <1>3, <2>0
    <3> QED BY <3>1, <3>2 DEF Memory!Item
  <2>2. new[i].access = items[i].access + Memory!NumberOf(items[i].id, since)
    BY <1>2, <1>5, <2>1 DEF Memory!Item
  <2> DEFINE n == Memory!NumberOf(items[i].id, since)
  <2> DEFINE L == Len(since)
  <2>3. n \in Nat /\ n <= L /\ L \in Nat
    BY <1>0, <1>1
  <2>4. L = Len(digest) - index.upto
    BY <1>0, <1>7
  <2> HIDE DEF n, L
  <2>5. items[i].access + n <= Len(digest)
    BY <1>0, <2>1, <2>3, <2>4
  <2> QED BY <2>2, <2>5 DEF n
<1>8. Sound(new) /\ Stem(new, items) /\ Memory!KeysOf(new) = Memory!KeysOf(items)
  BY <1>5, <1>6, AlikeSound
<1> QED BY <1>7, <1>8 DEF new


\* The first memories of some have become others that hold the same contents.
HoldsFirst(done, items, n) ==
  /\ Sound(done)
  /\ \A i \in DOMAIN done : \E j \in 1 .. n :
       done[i].id = items[j].id /\ done[i].key = items[j].key
  /\ \A j \in 1 .. n : \E i \in DOMAIN done : done[i].key = items[j].key
  /\ \A i \in DOMAIN done : \E j \in 1 .. n : done[i].access = items[j].access

LEMMA JoinedHolds ==
  ASSUME NEW items, Sound(items), NEW newer \in BOOLEAN, NEW n \in 1..Len(items),
         NEW done, HoldsFirst(done, items, n - 1)
  PROVE  HoldsFirst(Memory!Joined(done, items[n], newer), items, n)
<1> DEFINE item == items[n]
<1> DEFINE new == Memory!Joined(done, items[n], newer)
<1>1. /\ items \in Seq(Memory!Item) /\ DOMAIN items = 1..Len(items) /\ Len(items) \in Nat
      /\ item \in Memory!Item /\ item.live
      /\ \A j \in 1..n : j \in DOMAIN items
      /\ \A j \in 1..n : j \in 1..n - 1 \/ j = n
      /\ \A j \in 1..n - 1 : j \in 1..n /\ j # n /\ j \in DOMAIN items /\ n \in DOMAIN items
  BY DEF Sound
<1>2. /\ done \in Seq(Memory!Item) /\ DOMAIN done = 1..Len(done) /\ Len(done) \in Nat
      /\ \A i \in DOMAIN done : done[i].live /\ done[i] \in Memory!Item
      /\ \A i, j \in DOMAIN done : done[i].id = done[j].id => i = j
      /\ \A i \in DOMAIN done : \E j \in 1..n - 1 :
           done[i].id = items[j].id /\ done[i].key = items[j].key
      /\ \A j \in 1..n - 1 : \E i \in DOMAIN done : done[i].key = items[j].key
      /\ \A i \in DOMAIN done : \E j \in 1..n - 1 : done[i].access = items[j].access
  <2>1. Sound(done)
    BY DEF HoldsFirst
  <2>2. /\ \A i \in DOMAIN done : \E j \in 1..n - 1 :
             done[i].id = items[j].id /\ done[i].key = items[j].key
        /\ \A j \in 1..n - 1 : \E i \in DOMAIN done : done[i].key = items[j].key
        /\ \A i \in DOMAIN done : \E j \in 1..n - 1 : done[i].access = items[j].access
    BY DEF HoldsFirst
  <2>3. /\ done \in Seq(Memory!Item) /\ DOMAIN done = 1..Len(done) /\ Len(done) \in Nat
        /\ \A i \in DOMAIN done : done[i].live /\ done[i] \in Memory!Item
        /\ \A i, j \in DOMAIN done : done[i].id = done[j].id => i = j
    BY <2>1 DEF Sound
  <2> QED BY <2>2, <2>3
<1>3. CASE item.key \notin Memory!KeysOf(done)
  <2>1. new = Append(done, item)
    BY <1>3 DEF Memory!Joined
  <2>2. /\ new \in Seq(Memory!Item) /\ Len(new) = Len(done) + 1 /\ DOMAIN new = 1..Len(done) + 1
        /\ \A i \in DOMAIN done : new[i] = done[i]
        /\ new[Len(new)] = item
    BY <1>1, <1>2, <2>1
  <2> HIDE DEF new
  <2>3. /\ \A i \in DOMAIN new : i \in DOMAIN done \/ i = Len(new)
        /\ \A i \in DOMAIN done : i \in DOMAIN new
        /\ Len(new) \in DOMAIN new
    BY <1>2, <2>2
  <2>4. \A i \in DOMAIN done : done[i].id # item.id
    <3> TAKE i \in DOMAIN done
    <3>1. PICK j \in 1..n - 1 : done[i].id = items[j].id
      BY <1>2
    <3> QED BY <1>1, <3>1 DEF Sound
  <2>5. \A i, j \in DOMAIN new : new[i].id = new[j].id => i = j
    BY <1>2, <2>2, <2>3, <2>4
  <2>6. \A i \in DOMAIN new : new[i].live
    BY <1>1, <1>2, <2>2, <2>3
  <2>7. n \in 1..n
    BY <1>1
  <2>8. \A i \in DOMAIN new : \E j \in 1..n : new[i].id = items[j].id /\ new[i].key = items[j].key
    BY <1>1, <1>2, <2>2, <2>3, <2>7
  <2>9. \A j \in 1..n : \E i \in DOMAIN new : new[i].key = items[j].key
    <3> TAKE j \in 1..n
    <3>1. CASE j = n
      BY <2>2, <2>3, <3>1
    <3>2. CASE j \in 1..n - 1
      <4>1. PICK i \in DOMAIN done : done[i].key = items[j].key
        BY <1>2, <3>2
      <4> QED BY <2>2, <2>3, <4>1
    <3> QED BY <1>1, <3>1, <3>2
  <2>10. \A i \in DOMAIN new : \E j \in 1..n : new[i].access = items[j].access
    <3> TAKE i \in DOMAIN new
    <3>1. CASE i = Len(new)
      BY <2>2, <2>7, <3>1
    <3>2. CASE i \in DOMAIN done
      <4>1. PICK j \in 1..n - 1 : done[i].access = items[j].access
        BY <1>2, <3>2
      <4> QED BY <1>1, <2>2, <3>2, <4>1
    <3> QED BY <2>3, <3>1, <3>2
  <2> QED BY <2>2, <2>5, <2>6, <2>8, <2>9, <2>10 DEF Sound, HoldsFirst, new
<1>4. CASE item.key \in Memory!KeysOf(done)
  <2> DEFINE p == Memory!Place(done, item.key)
  <2>1. p \in DOMAIN done /\ done[p].key = item.key
    BY <1>4 DEF Memory!KeysOf, Memory!Place
  <2> DEFINE more == Memory!Enriched(done[p], item, newer)
  <2>2. new = [done EXCEPT ![p] = more]
    BY <1>4 DEF Memory!Joined
  <2>3. /\ more \in Memory!Item /\ more.id = done[p].id /\ more.key = done[p].key /\ more.live = done[p].live
        /\ more.access \in {done[p].access, item.access}
    <3>1. done[p] \in Memory!Item
      BY <1>2, <2>1
    <3> HIDE DEF p
    <3> QED BY <1>1, <3>1 DEF Memory!Item, Memory!Enriched
  <2> HIDE DEF new, more, p
  <2>4. /\ DOMAIN new = DOMAIN done /\ new \in Seq(Memory!Item)
        /\ \A i \in DOMAIN new : /\ new[i].id = done[i].id /\ new[i].key = done[i].key
                                 /\ new[i].live = done[i].live
                                 /\ new[i].access \in {done[i].access, item.access}
    <3>1. new \in [1..Len(done) -> Memory!Item]
      BY <1>2, <2>2, <2>3
    <3>2. Len(done) \in Nat /\ DOMAIN done = 1..Len(done)
      BY <1>2
    <3> DEFINE L == Len(done)
    <3> HIDE DEF L
    <3>4. new \in [1..L -> Memory!Item] /\ L \in Nat /\ DOMAIN done = 1..L
      BY <3>1, <3>2 DEF L
    <3>5. new \in Seq(Memory!Item) /\ DOMAIN new = DOMAIN done
      BY <3>4
    <3>3. \A i \in DOMAIN done : new[i] = IF i = p THEN more ELSE done[i]
      BY <2>2
    <3> QED BY <2>3, <3>3, <3>5
  <2>5. n \in 1..n
    BY <1>1
  <2>6. \A i \in DOMAIN new : \E j \in 1..n : new[i].id = items[j].id /\ new[i].key = items[j].key
    BY <1>1, <1>2, <2>4
  <2>7. \A j \in 1..n : \E i \in DOMAIN new : new[i].key = items[j].key
    BY <1>1, <1>2, <2>1, <2>4
  <2>8. Sound(new)
    BY <1>2, <2>4 DEF Sound
  <2>9. \A i \in DOMAIN new : \E j \in 1..n : new[i].access = items[j].access
    <3> TAKE i \in DOMAIN new
    <3>1. CASE new[i].access = item.access
      BY <2>5, <3>1
    <3>2. CASE new[i].access = done[i].access
      BY <1>1, <1>2, <2>4, <3>2
    <3> QED BY <2>4, <3>1, <3>2
  <2> QED BY <2>6, <2>7, <2>8, <2>9 DEF HoldsFirst, new
<1> QED BY <1>3, <1>4

IsMerge(f, items, newer, n) ==
  f = [m \in 0 .. n |-> IF m = 0 THEN <<>> ELSE Memory!Joined(f[m - 1], items[m], newer)]

LEMMA MergeExists ==
  ASSUME NEW items, NEW newer, NEW k \in Nat
  PROVE  \E f : IsMerge(f, items, newer, k)
<1> DEFINE Fails == {n \in Nat : ~\E f : IsMerge(f, items, newer, n)}
<1>1. SUFFICES ASSUME k \in Fails PROVE FALSE
  OBVIOUS
<1>2. PICK n \in Fails : \A m \in Fails : n <= m
  <2> HIDE DEF Fails
  <2>1. Fails \subseteq Nat
    BY DEF Fails
  <2> QED BY <1>1, <2>1, LeastNumber
<1>3. n # 0
  <2>1. IsMerge([m \in 0..0 |-> <<>>], items, newer, 0)
    BY DEF IsMerge
  <2> QED BY <1>2, <2>1
<1>4. n \in Nat /\ n - 1 \in Nat /\ n - 1 \notin Fails
  BY <1>2, <1>3
<1>5. PICK f : IsMerge(f, items, newer, n - 1)
  BY <1>4
<1> DEFINE g == [m \in 0..n |-> IF m = n THEN Memory!Joined(f[n - 1], items[n], newer) ELSE f[m]]
<1>6. \A m \in 0..n - 1 : f[m] = IF m = 0 THEN <<>> ELSE Memory!Joined(f[m - 1], items[m], newer)
  BY <1>4, <1>5 DEF IsMerge
<1>7. \A m \in 0..n : g[m] = IF m = 0 THEN <<>> ELSE Memory!Joined(g[m - 1], items[m], newer)
  <2> TAKE m \in 0..n
  <2>1. CASE m = n
    BY <1>3, <1>4, <2>1
  <2>2. CASE m # n
    <3>1. m \in 0..n - 1 /\ (m # 0 => m - 1 \in 0..n /\ m - 1 # n)
      BY <1>4, <2>2
    <3> QED BY <1>6, <2>2, <3>1
  <2> QED BY <2>1, <2>2
<1>8. IsMerge(g, items, newer, n)
  <2>1. g = [m \in 0..n |-> g[m]]
    OBVIOUS
  <2> HIDE DEF g
  <2> QED BY <1>7, <2>1 DEF IsMerge
<1> QED BY <1>2, <1>8

LEMMA MergedHolds ==
  ASSUME NEW items, Sound(items), NEW newer \in BOOLEAN
  PROVE  LET new == Memory!Merged(items, newer) IN
         /\ Sound(new) /\ Stem(new, items) /\ Memory!KeysOf(new) = Memory!KeysOf(items)
         /\ AsOften(new, items)
<1> DEFINE f == CHOOSE f : IsMerge(f, items, newer, Len(items))
<1>1. Len(items) \in Nat /\ DOMAIN items = 1..Len(items)
  BY DEF Sound
<1>2. IsMerge(f, items, newer, Len(items))
  BY <1>1, MergeExists
<1>3. Memory!Merged(items, newer) = f[Len(items)]
  BY DEF Memory!Merged, IsMerge
<1> HIDE DEF f
<1>4. \A m \in 0..Len(items) : f[m] = IF m = 0 THEN <<>> ELSE Memory!Joined(f[m - 1], items[m], newer)
  BY <1>2 DEF IsMerge
<1> DEFINE Fails == {m \in 0..Len(items) : ~HoldsFirst(f[m], items, m)}
<1>5. Fails = {}
  <2> SUFFICES ASSUME Fails # {} PROVE FALSE
    OBVIOUS
  <2>1. PICK m \in Fails : \A k \in Fails : m <= k
    <3>1. Fails \subseteq Nat
      OBVIOUS
    <3> HIDE DEF Fails
    <3> QED BY <3>1, LeastNumber
  <2>2. CASE m = 0
    <3>1. HoldsFirst(<<>>, items, 0)
      BY DEF HoldsFirst, Sound
    <3> QED BY <1>4, <2>1, <2>2, <3>1
  <2>3. CASE m # 0
    <3>1. m \in 1..Len(items) /\ m - 1 \in 0..Len(items) /\ ~(m <= m - 1)
      BY <1>1, <2>3
    <3>2. HoldsFirst(f[m - 1], items, m - 1)
      BY <2>1, <3>1
    <3>3. HoldsFirst(Memory!Joined(f[m - 1], items[m], newer), items, m)
      BY <3>1, <3>2, JoinedHolds
    <3> QED BY <1>4, <2>1, <2>3, <3>3
  <2> QED BY <2>2, <2>3
<1>6. HoldsFirst(Memory!Merged(items, newer), items, Len(items))
  BY <1>1, <1>3, <1>5
<1> DEFINE new == Memory!Merged(items, newer)
<1> HIDE DEF new
<1>7. /\ Sound(new)
      /\ \A i \in DOMAIN new : \E j \in DOMAIN items :
           new[i].id = items[j].id /\ new[i].key = items[j].key
      /\ \A j \in DOMAIN items : \E i \in DOMAIN new : new[i].key = items[j].key
      /\ \A i \in DOMAIN new : \E j \in DOMAIN items : new[i].access = items[j].access
  BY <1>1, <1>6 DEF HoldsFirst, new
<1>8. Stem(new, items) /\ AsOften(new, items)
  BY <1>7 DEF Stem, AsOften
<1>9. \A x : x \in Memory!KeysOf(new) <=> x \in Memory!KeysOf(items)
  BY <1>7 DEF Memory!KeysOf
<1>10. Memory!KeysOf(new) = Memory!KeysOf(items)
  BY <1>9
<1> QED BY <1>7, <1>8, <1>10 DEF new

LEMMA TrimmedKeeps ==
  ASSUME NEW items, Sound(items)
  PROVE  /\ Sound(Memory!Trimmed(items)) /\ Stem(Memory!Trimmed(items), items)
         /\ AsOften(Memory!Trimmed(items), items)
<1> DEFINE Lower(i, j) == items[i].access < items[j].access
                          \/ (items[i].access = items[j].access /\ i < j)
<1> DEFINE S == {i \in DOMAIN items :
                   Memory!Cardinality({j \in DOMAIN items : Lower(i, j)}) < MemCapacity}
<1> DEFINE new == Memory!Picked(items, S)
<1>1. Memory!Trimmed(items) = new
  BY DEF Memory!Trimmed
<1>2. S \in SUBSET DOMAIN items
  OBVIOUS
<1> HIDE DEF S
<1>3. /\ new \in Seq(Memory!Item)
      /\ \A n \in DOMAIN new : \E i \in S : new[n] = items[i]
      /\ \A m, n \in DOMAIN new : m < n =>
           \E i, j \in S : i < j /\ new[m] = items[i] /\ new[n] = items[j]
  BY <1>2, PickedIs, PicksAlike DEF Sound
<1> HIDE DEF new
<1>4. ASSUME NEW m \in DOMAIN new, NEW n \in DOMAIN new, m < n, new[m].id = new[n].id PROVE FALSE
  <2>1. PICK i \in S, j \in S : i < j /\ new[m] = items[i] /\ new[n] = items[j]
    BY <1>3, <1>4
  <2>2. i = j
    BY <1>2, <1>4, <2>1 DEF Sound
  <2>3. i \in Nat
    BY <1>2 DEF Sound
  <2> QED BY <2>1, <2>2, <2>3
<1>5. \A m, n \in DOMAIN new : new[m].id = new[n].id => m = n
  <2> SUFFICES ASSUME NEW m \in DOMAIN new, NEW n \in DOMAIN new, new[m].id = new[n].id
               PROVE  m = n
    OBVIOUS
  <2>1. m \in Nat /\ n \in Nat /\ ~(m < n) /\ ~(n < m)
    BY <1>3, <1>4
  <2> QED BY <2>1
<1>6. \A n \in DOMAIN new : new[n].live
  BY <1>2, <1>3 DEF Sound
<1>7. Sound(new)
  BY <1>3, <1>5, <1>6 DEF Sound
<1>8. Stem(new, items) /\ AsOften(new, items)
  BY <1>2, <1>3 DEF Stem, AsOften
<1> QED BY <1>1, <1>7, <1>8

LEMMA RelabelledKeeps ==
  ASSUME NEW items, Sound(items), NEW old \in Index
  PROVE  LET new == Memory!Relabelled(items, old) IN
         /\ Sound(new.items) /\ Stem(new.items, items) /\ Memory!KeysOf(new.items) = Memory!KeysOf(items)
         /\ AsOften(new.items, items)
         /\ new.index \in Index /\ new.index.upto = old.upto
<1> DEFINE index == Memory!NewIndexOf(items, [l \in Labels |-> old.sums[l].id], old.upto)
<1> DEFINE new == [i \in DOMAIN items |-> [items[i] EXCEPT !.sid = index.sums[items[i].label].id]]
<1>1. index \in Index /\ index.upto = old.upto
  <2>1. old.upto \in Nat /\ [l \in Labels |-> old.sums[l].id] \in Ids
    BY DEF Index, Ids
  <2>2. items \in Seq(Memory!Item)
    BY DEF Sound
  <2> QED BY <2>1, <2>2, NewIndexIs
<1>2. Memory!Relabelled(items, old).items = new /\ Memory!Relabelled(items, old).index = index
  BY DEF Memory!Relabelled
<1> HIDE DEF index
<1>3. items \in Seq(Memory!Item) /\ DOMAIN items = 1..Len(items) /\ Len(items) \in Nat
  BY DEF Sound
<1>4. \A i \in DOMAIN items : /\ new[i] \in Memory!Item /\ new[i].id = items[i].id
                              /\ new[i].key = items[i].key /\ new[i].live = items[i].live
                              /\ new[i].access = items[i].access
  <2> TAKE i \in DOMAIN items
  <2>1. items[i] \in Memory!Item
    BY <1>3
  <2>2. index.sums[items[i].label].id \in Nat
    BY <1>1, <2>1 DEF Index, Memory!Item
  <2>3. new[i] = [items[i] EXCEPT !.sid = index.sums[items[i].label].id]
    OBVIOUS
  <2> HIDE DEF new
  <2> QED BY <2>1, <2>2, <2>3 DEF Memory!Item
<1>5. DOMAIN new = DOMAIN items
  OBVIOUS
<1>6. new = [i \in DOMAIN new |-> new[i]]
  OBVIOUS
<1> HIDE DEF new
<1>7. new \in Seq(Memory!Item)
  <2>1. new \in [1..Len(items) -> Memory!Item]
    BY <1>3, <1>4, <1>5, <1>6
  <2> QED BY <1>3, <2>1
<1>8. Sound(new) /\ Stem(new, items) /\ Memory!KeysOf(new) = Memory!KeysOf(items)
  BY <1>4, <1>5, <1>7, AlikeSound
<1>9. AsOften(new, items)
  BY <1>4, <1>5 DEF AsOften
<1> QED BY <1>1, <1>2, <1>8, <1>9

\* A file that breaks off holds only memories that were to be written.
LEMMA BrokenOff ==
  ASSUME NEW items \in Seq(Memory!Item), NEW n \in 0..Len(items)
  PROVE  LET lines == SubSeq(items, 1, n) \o <<Memory!CutLine>> IN
         lines \in Seq(Memory!Lines) /\ Range(lines) \subseteq Range(items) \cup {Memory!CutLine}
<1> DEFINE lines == SubSeq(items, 1, n) \o <<Memory!CutLine>>
<1>1. items \in Seq(Memory!Lines) /\ Memory!CutLine \in Memory!Lines
  BY DEF Memory!Lines
<1>2. /\ SubSeq(items, 1, n) \in Seq(Memory!Item) /\ Len(SubSeq(items, 1, n)) = n
      /\ \A i \in 1..n : SubSeq(items, 1, n)[i] = items[i] /\ i \in DOMAIN items
  OBVIOUS
<1>3. SubSeq(items, 1, n) \in Seq(Memory!Lines)
  BY <1>2 DEF Memory!Lines
<1> DEFINE head == SubSeq(items, 1, n)
<1> HIDE DEF head
<1>4. /\ lines \in Seq(Memory!Lines) /\ DOMAIN lines = 1..n + 1
      /\ \A i \in 1..n : lines[i] = head[i]
      /\ lines[n + 1] = Memory!CutLine
  <2>1. head \in Seq(Memory!Lines) /\ Len(head) = n /\ lines = head \o <<Memory!CutLine>> /\ n \in Nat
    BY <1>2, <1>3 DEF head
  <2> HIDE DEF lines
  <2>2. <<Memory!CutLine>> \in Seq(Memory!Lines) /\ Len(<<Memory!CutLine>>) = 1
    BY <1>1
  <2> QED BY <2>1, <2>2
<1>5. \A i \in 1..n : lines[i] = items[i] /\ i \in DOMAIN items
  BY <1>2, <1>4 DEF head
<1>6. \A i \in 1..n + 1 : i \in 1..n \/ i = n + 1
  OBVIOUS
<1>7. \A x : x \in Range(lines) => x \in Range(items) \cup {Memory!CutLine}
  BY <1>4, <1>5, <1>6 DEF Range
<1> QED BY <1>4, <1>7

LEMMA WrittenIs ==
  ASSUME NEW items \in Seq(Memory!Item)
  PROVE  Memory!Written(items) \in Seq(Memory!Lines) /\ Range(Memory!Written(items)) \subseteq Range(items) \cup {Memory!CutLine}
<1> DEFINE Halves(i) == i + 2 * Cardinality({j \in 1 .. i : items[j].key \in LongKeys})
<1> DEFINE fits == {i \in DOMAIN items : Halves(i) <= 2 * Len(items)}
<1>1. \/ Memory!Written(items) = items
      \/ Memory!Written(items) = SubSeq(items, 1, Cardinality(fits)) \o <<Memory!CutLine>>
  BY CountIs DEF Memory!Written
<1>2. fits \in SUBSET (1..Len(items)) /\ Len(items) \in Nat
  OBVIOUS
<1> HIDE DEF fits
<1>3. Cardinality(fits) \in 0..Len(items)
  <2> DEFINE L == Len(items)
  <2>0. L \in Nat /\ L = Len(items)
    BY <1>2
  <2> HIDE DEF L
  <2>5. IsFiniteSet(1..L) /\ Cardinality(1..L) = L
    <3>1. L \in Nat
      BY <2>0
    <3>2. IsFiniteSet(1..L) /\ Cardinality(1..L) = IF 1 > L THEN 0 ELSE L - 1 + 1
      BY <3>1, FS_Interval
    <3> QED BY <3>1, <3>2
  <2>1. IsFiniteSet(1..Len(items)) /\ Cardinality(1..Len(items)) = Len(items)
    BY <2>0, <2>5
  <2>2. IsFiniteSet(fits) /\ Cardinality(fits) <= Len(items)
    BY <1>2, <2>1, FS_Subset
  <2>3. Cardinality(fits) \in Nat
    BY <2>2, FS_CardinalityType
  <2> QED BY <1>2, <2>2, <2>3
<1>4. items \in Seq(Memory!Lines)
  BY DEF Memory!Lines
<1> QED BY <1>1, <1>3, <1>4, BrokenOff

\* A file of sound memories holds all of them.
LEMMA SoundLives ==
  ASSUME Memory!MemoryBounds, NEW items, Sound(items)
  PROVE  /\ items \in Seq(Memory!Lines)
         /\ Memory!LiveSet(items) = {items[i] : i \in DOMAIN items}
<1>1. items \in Seq(Memory!Lines) /\ items \in Seq(Memory!Item)
  BY DEF Sound, Memory!Lines
<1>2. \A i \in DOMAIN items : Memory!IsLast(items, i)
  <2> TAKE i \in DOMAIN items
  <2>1. items[i] # Memory!CutLine
    BY <1>1, LinesApart
  <2>2. \A j \in i + 1 .. Len(items) : j \in DOMAIN items /\ i # j
    BY <1>1
  <2> QED BY <2>1, <2>2 DEF Memory!IsLast, Sound
<1>3. \A a : a \in Memory!LiveSet(items) <=> a \in {items[i] : i \in DOMAIN items}
  BY <1>1, <1>2, LiveSetIs DEF Sound
<1> QED BY <1>1, <1>3


-----------------------------------------------------------------------------
(***************************************************************************)
(* The inductive invariant.                                                *)
(***************************************************************************)

Places == {"idle", "storeItems", "updateItems", "forgetItems", "storeIndex", "storeAppend",
           "storeSave", "forgetAppend", "forgetIndex", "forgetSave", "updateEnd",
           "compactRead", "compactIndex", "compactSize", "compactDigest", "compactWrite",
           "compactSave"}
Ops == {"none", "store", "update", "forget", "boot"}
Afters == {"idle", "forgetItems", "updateEnd"}
\* A memory may not have its id yet.
Drafts == [id : 0..MaxIds, key : MemKeys, label : Labels, sid : Nat, live : BOOLEAN, access : Nat]
Hands == [pc : Places, op : Ops, id : 0..MaxIds, item : {Memory!CutLine} \cup Drafts,
          items : Seq(Memory!Item), index : Index, size : Nat, after : Afters]

\* Everything but the files' contents and the writers.
CountTypes ==
  /\ memIndex \in Index /\ memDigest \in Seq(1..MaxIds)
  /\ memChanges \in Nat /\ memOpsLeft \in Nat /\ memCutsLeft \in Nat
  /\ memIdsRepeat \in BOOLEAN
  /\ memDamaged \in BOOLEAN /\ memStale \in BOOLEAN /\ memRecounted \in BOOLEAN
MemoryTypes ==
  /\ CountTypes
  /\ memRecords \in Seq(Memory!Lines) /\ memWriter \in [Writers -> Hands]
  /\ memIds \in 0..MaxIds /\ memAcked \subseteq MemKeys
  /\ \A w \in Writers : memWriter[w].id <= memIds

\* An update between its new memory and the forgetting of the old one.
Swaps(r) ==
  /\ r.op = "update"
  /\ \/ r.pc \in {"storeSave", "forgetItems", "forgetAppend"}
     \/ r.pc \in {"compactRead", "compactSave"} \cup Memory!Compacting
        /\ r.after = "forgetItems"
\* An update that has found its old memory.
Past(r) == r.op = "update" /\ r.pc # "updateItems"

\* What a writer has in hand fits what it is about to do.
Handles(r) ==
  /\ r.pc = "storeItems" => r.op = "store"
  /\ r.pc \in {"storeIndex", "storeAppend", "storeSave"} => r.item # Memory!CutLine /\ r.item.live
  /\ r.pc \in {"storeAppend", "storeSave"} => r.item \in Memory!Item
  /\ Swaps(r) => r.item # Memory!CutLine
  /\ r.pc \in {"forgetAppend", "forgetIndex", "forgetSave"} =>
       Len(r.items) = 1 /\ ~r.items[1].live /\ r.items[1].id = r.id
  /\ r.pc \in Memory!Compacting => Sound(r.items)

\* The memories of the file and of the writers.
Known(lines, writers) ==
  (Range(lines) \ {Memory!CutLine}) \cup UNION {Range(writers[w].items) : w \in Writers}

\* An id never stands for two contents, and one that is given out is new.
NewId(lines, writers, w) ==
  LET id == writers[w].item.id IN
  /\ \A a \in Known(lines, writers) : a.id # id
  /\ \A o \in Writers \ {w} : writers[o].pc = "storeAppend" => writers[o].item.id # id
  /\ \A o \in Writers : Past(writers[o]) => writers[o].id # id
Numbered(lines, writers) ==
  /\ \A a, b \in Known(lines, writers) : a.id = b.id => a.key = b.key
  /\ \A w \in Writers : writers[w].pc = "storeAppend" => NewId(lines, writers, w)

\* An update leaves its content under another id than the one it will forget; so
\* does every compaction under way, or it would lose it and be counted as damage.
Beside(live, r) == \E a \in live : a.key = r.item.key /\ a.id # r.id
Twice(live, r) == \E a \in live : a.key = r.item.key /\ a.id = r.id
Outlives(items, live, r) ==
  \A i \in DOMAIN items : items[i].key = r.item.key /\ items[i].id = r.id => Twice(live, r)
Keeps(live, held, writers) ==
  /\ held \subseteq {a.key : a \in live}
  /\ \A o \in Writers : writers[o].pc \in Memory!Compacting =>
       held \subseteq Memory!KeysOf(writers[o].items)
  /\ \A w \in Writers : Swaps(writers[w]) /\ writers[w].item.key \in held =>
       /\ Beside(live, writers[w])
       /\ \A o \in Writers : writers[o].pc \in Memory!Compacting =>
            Outlives(writers[o].items, live, writers[w])

MemoryInv ==
  /\ MemoryTypes
  /\ \A w \in Writers : Handles(memWriter[w])
  /\ ~memDamaged => /\ Numbered(memRecords, memWriter)
                    /\ Keeps(Memory!LiveSet(memRecords), memAcked, memWriter)

-----------------------------------------------------------------------------
(***************************************************************************)
(* Steps that keep the records and what was stored.                        *)
(***************************************************************************)

\* Copies of what is known bring no new id.
Copies(lines, writers, lines2, writers2) ==
  /\ \A a \in Known(lines2, writers2) :
       \E b \in Known(lines, writers) : a.id = b.id /\ a.key = b.key
  /\ \A w \in Writers : writers2[w].pc = "storeAppend" =>
       writers[w].pc = "storeAppend" /\ writers2[w].item = writers[w].item
  /\ \A w \in Writers : Past(writers2[w]) =>
       \/ Past(writers[w]) /\ writers2[w].id = writers[w].id
       \/ \E b \in Known(lines, writers) : b.id = writers2[w].id

LEMMA NumbersStay ==
  ASSUME NEW lines, NEW writers, Numbered(lines, writers),
         NEW lines2, NEW writers2, Copies(lines, writers, lines2, writers2)
  PROVE  Numbered(lines2, writers2)
<1>0. /\ \A a \in Known(lines2, writers2) : \E b \in Known(lines, writers) : a.id = b.id /\ a.key = b.key
      /\ \A w \in Writers : writers2[w].pc = "storeAppend" =>
           writers[w].pc = "storeAppend" /\ writers2[w].item = writers[w].item
      /\ \A w \in Writers : Past(writers2[w]) =>
           \/ Past(writers[w]) /\ writers2[w].id = writers[w].id
           \/ \E b \in Known(lines, writers) : b.id = writers2[w].id
  BY DEF Copies
<1>2. \A a, b \in Known(lines2, writers2) : a.id = b.id => a.key = b.key
  <2> SUFFICES ASSUME NEW a \in Known(lines2, writers2), NEW b \in Known(lines2, writers2), a.id = b.id
               PROVE  a.key = b.key
    OBVIOUS
  <2>1. PICK c \in Known(lines, writers) : a.id = c.id /\ a.key = c.key
    BY <1>0
  <2>2. PICK d \in Known(lines, writers) : b.id = d.id /\ b.key = d.key
    BY <1>0
  <2> QED BY <2>1, <2>2 DEF Numbered
<1>3. ASSUME NEW w \in Writers, writers2[w].pc = "storeAppend"
      PROVE  NewId(lines2, writers2, w)
  <2>1. writers[w].pc = "storeAppend" /\ writers2[w].item = writers[w].item
    BY <1>0, <1>3
  <2>2. NewId(lines, writers, w)
    BY <2>1 DEF Numbered
  <2>3. \A a \in Known(lines2, writers2) : a.id # writers[w].item.id
    BY <1>0, <2>1, <2>2 DEF NewId
  <2>4. \A o \in Writers : Past(writers2[o]) => writers2[o].id # writers[w].item.id
    BY <1>0, <2>1, <2>2 DEF NewId
  <2>5. \A o \in Writers \ {w} : writers2[o].pc = "storeAppend" => writers2[o].item.id # writers[w].item.id
    BY <1>0, <2>1, <2>2 DEF NewId
  <2> QED BY <2>1, <2>3, <2>4, <2>5 DEF NewId
<1> QED BY <1>2, <1>3 DEF Numbered

\* A writer moves on and brings nothing new.
Aside(w, r) ==
  /\ r \in Hands /\ Handles(r)
  /\ r.pc # "storeAppend"
  /\ r.pc \in Memory!Compacting =>
       memWriter[w].pc \in Memory!Compacting /\ r.items = memWriter[w].items
  /\ r.id <= memIds
  /\ \A a \in Range(r.items) : \E b \in Known(memRecords, memWriter) : a.id = b.id /\ a.key = b.key
  /\ Past(r) => \/ Past(memWriter[w]) /\ r.id = memWriter[w].id
                \/ \E b \in Known(memRecords, memWriter) : b.id = r.id
  /\ Swaps(r) => Swaps(memWriter[w]) /\ r.id = memWriter[w].id /\ r.item = memWriter[w].item

LEMMA QuietNumbers ==
  ASSUME MemoryInv, ~memDamaged, NEW w \in Writers, NEW r,
         r \in Hands, r.pc # "storeAppend",
         \A a \in Range(r.items) : \E b \in Known(memRecords, memWriter) : a.id = b.id /\ a.key = b.key,
         Past(r) => \/ Past(memWriter[w]) /\ r.id = memWriter[w].id
                    \/ \E b \in Known(memRecords, memWriter) : b.id = r.id,
         memWriter' = [memWriter EXCEPT ![w] = r],
         NEW lines, Range(lines) \subseteq Known(memRecords, memWriter) \cup {Memory!CutLine}
  PROVE  Numbered(lines, memWriter')
<1>1. /\ memWriter \in [Writers -> Hands] /\ Numbered(memRecords, memWriter)
  BY DEF MemoryInv, MemoryTypes
<1>2. \A o \in Writers : memWriter'[o] = IF o = w THEN r ELSE memWriter[o]
  BY <1>1
<1>3. \A a \in Known(lines, memWriter') : \E b \in Known(memRecords, memWriter) :
        a.id = b.id /\ a.key = b.key
  <2> SUFFICES ASSUME NEW a \in Known(lines, memWriter')
               PROVE  \E b \in Known(memRecords, memWriter) : a.id = b.id /\ a.key = b.key
    OBVIOUS
  <2>1. CASE a \in Range(lines) \ {Memory!CutLine}
    BY <2>1
  <2>2. ASSUME NEW o \in Writers, a \in Range(memWriter'[o].items)
        PROVE  \E b \in Known(memRecords, memWriter) : a.id = b.id /\ a.key = b.key
    <3>1. CASE o = w
      BY <1>2, <2>2, <3>1
    <3>2. CASE o # w
      <4>1. a \in Range(memWriter[o].items)
        BY <1>2, <2>2, <3>2
      <4>2. a \in Known(memRecords, memWriter)
        BY <4>1 DEF Known
      <4> QED BY <4>2
    <3> QED BY <3>1, <3>2
  <2> QED BY <2>1, <2>2 DEF Known
<1>5. \A o \in Writers : memWriter'[o].pc = "storeAppend" =>
        memWriter[o].pc = "storeAppend" /\ memWriter'[o].item = memWriter[o].item
  BY <1>2
<1>6. \A o \in Writers : Past(memWriter'[o]) =>
        \/ Past(memWriter[o]) /\ memWriter'[o].id = memWriter[o].id
        \/ \E b \in Known(memRecords, memWriter) : b.id = memWriter'[o].id
  BY <1>2
<1>7. Copies(memRecords, memWriter, lines, memWriter')
  BY <1>3, <1>5, <1>6 DEF Copies
<1> QED BY <1>1, <1>7, NumbersStay

LEMMA QuietKeeps ==
  ASSUME NEW writers \in [Writers -> Hands], NEW w \in Writers, NEW r \in Hands,
         r.pc \in Memory!Compacting =>
           writers[w].pc \in Memory!Compacting /\ r.items = writers[w].items,
         Swaps(r) => Swaps(writers[w]) /\ r.id = writers[w].id /\ r.item = writers[w].item,
         NEW live, NEW held, Keeps(live, held, writers)
  PROVE  Keeps(live, held, [writers EXCEPT ![w] = r])
<1> DEFINE new == [writers EXCEPT ![w] = r]
<1>1. \A o \in Writers : new[o] = IF o = w THEN r ELSE writers[o]
  OBVIOUS
<1> HIDE DEF new
<1>2. \A o \in Writers : new[o].pc \in Memory!Compacting =>
        writers[o].pc \in Memory!Compacting /\ new[o].items = writers[o].items
  BY <1>1
<1>3. \A o \in Writers : Swaps(new[o]) =>
        Swaps(writers[o]) /\ new[o].id = writers[o].id /\ new[o].item = writers[o].item
  BY <1>1
<1>4. Keeps(live, held, new)
  BY <1>2, <1>3 DEF Keeps, Beside, Outlives, Twice
<1> QED BY <1>4 DEF new

LEMMA QuietStep ==
  ASSUME MemoryInv, NEW w \in Writers, NEW r, Aside(w, r), memWriter' = [memWriter EXCEPT ![w] = r],
         CountTypes', memRecords' = memRecords, memIds' = memIds, memAcked' = memAcked,
         memDamaged' = memDamaged
  PROVE  MemoryInv'
<1>1. memWriter \in [Writers -> Hands] /\ r \in Hands
  BY DEF MemoryInv, MemoryTypes, Aside
<1>2. memWriter' \in [Writers -> Hands] /\ \A o \in Writers : memWriter'[o] = IF o = w THEN r ELSE memWriter[o]
  BY <1>1
<1>3. MemoryTypes'
  <2>1. \A o \in Writers : memWriter'[o].id <= memIds'
    BY <1>2 DEF MemoryInv, MemoryTypes, Aside
  <2> QED BY <1>2, <2>1 DEF MemoryInv, MemoryTypes
<1>4. (\A o \in Writers : Handles(memWriter[o]))'
  <2>1. \A o \in Writers : Handles(memWriter'[o])
    BY <1>2 DEF MemoryInv, Aside
  <2> QED BY <2>1
<1>5. ASSUME ~memDamaged' PROVE Numbered(memRecords', memWriter')
  <2>1. Range(memRecords) \subseteq Known(memRecords, memWriter) \cup {Memory!CutLine}
    BY DEF Known
  <2>2. Numbered(memRecords, memWriter')
    BY <1>5, <2>1, QuietNumbers DEF Aside
  <2> QED BY <2>2
<1>6. ASSUME ~memDamaged' PROVE Keeps(Memory!LiveSet(memRecords'), memAcked', memWriter')
  <2>1. Keeps(Memory!LiveSet(memRecords), memAcked, memWriter)
    BY <1>6 DEF MemoryInv
  <2>2. Keeps(Memory!LiveSet(memRecords), memAcked, memWriter')
    BY <1>1, <2>1, QuietKeeps DEF Aside
  <2> QED BY <2>2
<1> QED BY <1>3, <1>4, <1>5, <1>6 DEF MemoryInv


-----------------------------------------------------------------------------
(***************************************************************************)
(* The steps of the writers.                                               *)
(***************************************************************************)

\* What everybody knows of the writers and the files.
LEMMA InvParts ==
  ASSUME MemoryInv
  PROVE  /\ CountTypes /\ memRecords \in Seq(Memory!Lines) /\ memWriter \in [Writers -> Hands]
         /\ memIds \in 0..MaxIds /\ memIds \in Nat /\ memAcked \subseteq MemKeys
         /\ memIndex \in Index /\ memDigest \in Seq(1..MaxIds)
         /\ \A w \in Writers : /\ memWriter[w] \in Hands /\ Handles(memWriter[w])
                               /\ memWriter[w].id <= memIds
                               /\ \A a \in Range(memWriter[w].items) : a \in Known(memRecords, memWriter)
         /\ \A a \in Memory!LiveSet(memRecords) : a \in Known(memRecords, memWriter) /\ a \in Memory!Item /\ a.live
         /\ \A a, b \in Memory!LiveSet(memRecords) : a.id = b.id => a = b
<1>1. MemoryTypes /\ \A w \in Writers : Handles(memWriter[w])
  BY DEF MemoryInv
<1>2. /\ CountTypes /\ memRecords \in Seq(Memory!Lines) /\ memWriter \in [Writers -> Hands]
      /\ memIds \in 0..MaxIds /\ memIds \in Nat /\ memAcked \subseteq MemKeys
      /\ memIndex \in Index /\ memDigest \in Seq(1..MaxIds)
  BY <1>1 DEF MemoryTypes, CountTypes
<1>3. \A w \in Writers : /\ memWriter[w] \in Hands /\ Handles(memWriter[w])
                         /\ memWriter[w].id <= memIds
                         /\ \A a \in Range(memWriter[w].items) : a \in Known(memRecords, memWriter)
  BY <1>1, <1>2 DEF MemoryTypes, Known
<1>4. /\ \A a \in Memory!LiveSet(memRecords) : a \in Known(memRecords, memWriter) /\ a \in Memory!Item /\ a.live
      /\ \A a, b \in Memory!LiveSet(memRecords) : a.id = b.id => a = b
  <2>1. /\ Memory!LiveSet(memRecords) \subseteq Memory!Item
        /\ \A a \in Memory!LiveSet(memRecords) : a.live /\ \E i \in DOMAIN memRecords : memRecords[i] = a /\ a # Memory!CutLine
        /\ \A a, b \in Memory!LiveSet(memRecords) : a.id = b.id => a = b
    BY <1>2, LiveSetSound
  <2>2. \A a \in Memory!LiveSet(memRecords) : a \in Known(memRecords, memWriter)
    BY <2>1 DEF Known, Range
  <2> QED BY <2>1, <2>2
<1> QED BY <1>2, <1>3, <1>4

LEMMA RestingIs ==
  ASSUME Memory!MemoryBounds
  PROVE  /\ Memory!Resting \in Hands /\ Handles(Memory!Resting) /\ ~Past(Memory!Resting) /\ ~Swaps(Memory!Resting)
         /\ Memory!Resting.pc = "idle" /\ Memory!Resting.id = 0 /\ Memory!Resting.items = <<>> /\ Range(Memory!Resting.items) = {}
<1>1. Memory!NoIndex \in Index
  BY IndexesAre
<1>2. MaxIds \in Nat
  BY DEF Memory!MemoryBounds
<1>3. Range(<<>>) = {}
  BY DEF Range
<1> QED BY <1>1, <1>2, <1>3 DEF Memory!Resting, Hands, Handles, Past, Swaps, Places, Ops, Afters, Memory!Compacting

LEMMA RestingQuiet ==
  ASSUME Memory!MemoryBounds, MemoryInv, NEW w \in Writers
  PROVE  Aside(w, Memory!Resting)
BY RestingIs, InvParts DEF Aside, Memory!Compacting

LEMMA EndsStep ==
  ASSUME Memory!MemoryBounds, MemoryInv, NEW w \in Writers, Memory!Ends(w),
         CountTypes', memRecords' = memRecords, memIds' = memIds, memAcked' = memAcked,
         memDamaged' = memDamaged
  PROVE  MemoryInv'
BY RestingQuiet, QuietStep DEF Memory!Ends, Memory!Becomes

LEMMA BeginsStep ==
  ASSUME Memory!MemoryBounds, MemoryInv, NEW w \in Writers,
         Memory!BeginStore(w) \/ Memory!BeginUpdate(w) \/ Memory!BeginForget(w)
  PROVE  MemoryInv'
<1>1. PICK op, to, id : /\ Memory!Begins(w, op, to, id) /\ id \in 0..memIds
                        /\ \/ op = "store" /\ to = "storeItems"
                           \/ op = "update" /\ to = "updateItems"
                           \/ op = "forget" /\ to = "forgetItems"
  <2>1. 0 \in 0..memIds /\ 1..memIds \subseteq 0..memIds
    BY InvParts
  <2> QED BY <2>1 DEF Memory!BeginStore, Memory!BeginUpdate, Memory!BeginForget
<1> DEFINE r == [Memory!Resting EXCEPT !.pc = to, !.op = op, !.id = id]
<1>2. /\ memWriter' = [memWriter EXCEPT ![w] = r]
      /\ memRecords' = memRecords /\ memIds' = memIds /\ memAcked' = memAcked
      /\ memDamaged' = memDamaged /\ CountTypes'
  BY <1>1, InvParts DEF Memory!Begins, Memory!Becomes, Memory!files, CountTypes
<1>3. Aside(w, r)
  <2>1. /\ r.pc = to /\ r.op = op /\ r.id = id /\ r.items = <<>> /\ r \in Hands
        /\ r.id <= memIds
    <3>1. id \in 0..MaxIds /\ id <= memIds
      <4>1. memIds \in 0..MaxIds /\ memIds \in Nat /\ MaxIds \in Nat
        BY InvParts DEF Memory!MemoryBounds
      <4> QED BY <1>1, <4>1
    <3>2. op \in Ops /\ to \in Places
      BY <1>1 DEF Ops, Places
    <3>3. Memory!Resting \in Hands /\ Memory!Resting.items = <<>>
      BY RestingIs
    <3> QED BY <3>1, <3>2, <3>3 DEF Hands
  <2>2. Range(r.items) = {}
    BY <2>1 DEF Range
  <2> HIDE DEF r
  <2> QED BY <1>1, <2>1, <2>2 DEF Aside, Handles, Past, Swaps, Memory!Compacting
<1> HIDE DEF r
<1> QED BY <1>2, <1>3, QuietStep

\* An update finds that its content is there already.
LEMMA FoundStep ==
  ASSUME Memory!MemoryBounds, MemoryInv, NEW w \in Writers, NEW key \in MemKeys, NEW r,
         r \in Hands, Handles(r), r.pc = "forgetItems", r.id = memWriter[w].id,
         r.items = memWriter[w].items, r.item.key = key,
         \E item \in Memory!LiveSet(memRecords) : item.key = key /\ item.id # memWriter[w].id,
         Memory!IsLive(memWriter[w].id),
         memWriter' = [memWriter EXCEPT ![w] = r],
         CountTypes', memRecords' = memRecords, memIds' = memIds, memAcked' = memAcked,
         memDamaged' = memDamaged
  PROVE  MemoryInv'
<1>1. /\ memWriter \in [Writers -> Hands] /\ memWriter[w].id <= memIds
      /\ \A a \in Memory!LiveSet(memRecords) : a \in Known(memRecords, memWriter)
      /\ \A o \in Writers : \A a \in Range(memWriter[o].items) : a \in Known(memRecords, memWriter)
  BY InvParts
<1>2. memWriter' \in [Writers -> Hands] /\ \A o \in Writers : memWriter'[o] = IF o = w THEN r ELSE memWriter[o]
  BY <1>1
<1>3. MemoryTypes'
  <2>1. \A o \in Writers : memWriter'[o].id <= memIds'
    BY <1>2, InvParts
  <2> QED BY <1>2, <2>1 DEF MemoryInv, MemoryTypes
<1>4. (\A o \in Writers : Handles(memWriter[o]))'
  <2>1. \A o \in Writers : Handles(memWriter'[o])
    BY <1>2, InvParts
  <2> QED BY <2>1
<1>5. PICK a \in Memory!LiveSet(memRecords) : a.id = memWriter[w].id
  BY DEF Memory!IsLive
<1>6. ASSUME ~memDamaged PROVE Numbered(memRecords, memWriter')
  <2>1. Range(memRecords) \subseteq Known(memRecords, memWriter) \cup {Memory!CutLine}
    BY DEF Known
  <2>2. \E b \in Known(memRecords, memWriter) : b.id = r.id
    BY <1>1, <1>5
  <2>3. \A b \in Range(r.items) : \E c \in Known(memRecords, memWriter) : b.id = c.id /\ b.key = c.key
    BY <1>1
  <2> QED BY <1>1, <1>6, <2>1, <2>2, <2>3, QuietNumbers
<1>7. ASSUME ~memDamaged PROVE Keeps(Memory!LiveSet(memRecords), memAcked, memWriter')
  <2> DEFINE live == Memory!LiveSet(memRecords)
  <2>1. Keeps(live, memAcked, memWriter)
    BY <1>7 DEF MemoryInv
  <2>2. Beside(live, r)
    BY DEF Beside
  <2>3. ASSUME NEW o \in Writers
        PROVE  Outlives(memWriter[o].items, live, r)
    <3> SUFFICES ASSUME NEW i \in DOMAIN memWriter[o].items, memWriter[o].items[i].key = key,
                        memWriter[o].items[i].id = r.id
                 PROVE  Twice(live, r)
      BY DEF Outlives
    <3>1. memWriter[o].items[i] \in Known(memRecords, memWriter)
      BY <1>1 DEF Range
    <3>2. a.key = key
      BY <1>1, <1>5, <1>7, <3>1 DEF MemoryInv, Numbered
    <3> QED BY <1>5, <3>2 DEF Twice
  <2> HIDE DEF live
  <2>4. \A o \in Writers : memWriter'[o].pc \in Memory!Compacting =>
          memWriter[o].pc \in Memory!Compacting /\ memWriter'[o] = memWriter[o]
    <3>1. r.pc \notin Memory!Compacting
      BY DEF Memory!Compacting
    <3> QED BY <1>2, <3>1
  <2>5. memAcked \subseteq {b.key : b \in live}
    BY <2>1 DEF Keeps
  <2>6. \A o \in Writers : memWriter'[o].pc \in Memory!Compacting =>
          memAcked \subseteq Memory!KeysOf(memWriter'[o].items)
    BY <2>1, <2>4 DEF Keeps
  <2>7. ASSUME NEW o \in Writers, Swaps(memWriter'[o]), memWriter'[o].item.key \in memAcked
        PROVE  /\ Beside(live, memWriter'[o])
               /\ \A p \in Writers : memWriter'[p].pc \in Memory!Compacting =>
                    Outlives(memWriter'[p].items, live, memWriter'[o])
    <3>1. CASE o = w
      BY <1>2, <2>2, <2>3, <2>4, <2>7, <3>1
    <3>2. CASE o # w
      BY <1>2, <2>1, <2>4, <2>7, <3>2 DEF Keeps
    <3> QED BY <3>1, <3>2
  <2>8. Keeps(live, memAcked, memWriter')
    BY <2>5, <2>6, <2>7 DEF Keeps
  <2> QED BY <2>8 DEF live
<1> QED BY <1>3, <1>4, <1>6, <1>7 DEF MemoryInv

LEMMA LooksStep ==
  ASSUME Memory!MemoryBounds, MemoryInv, NEW w \in Writers, NEW key \in MemKeys, NEW label \in Labels,
         Memory!Looks(w, key, label), Memory!Updating(w) => Memory!IsLive(memWriter[w].id),
         CountTypes', memRecords' = memRecords, memIds' = memIds, memAcked' = memAcked,
         memDamaged' = memDamaged
  PROVE  MemoryInv'
<1> DEFINE found == \E item \in Memory!LiveSet(memRecords) : item.key = key /\ item.id # memWriter[w].id
<1> DEFINE fresh == [id |-> 0, key |-> key, label |-> label, sid |-> 0, live |-> TRUE, access |-> 0]
<1>0. fresh \in Drafts /\ fresh # Memory!CutLine /\ fresh.live /\ fresh.key = key
  <2>1. MaxIds \in Nat
    BY DEF Memory!MemoryBounds
  <2>2. DOMAIN fresh # DOMAIN Memory!CutLine
    BY DEF Memory!CutLine
  <2> QED BY <2>1, <2>2 DEF Drafts
<1>1. /\ memWriter[w] \in Hands /\ memWriter[w].id <= memIds
      /\ \A a \in Memory!LiveSet(memRecords) : a \in Known(memRecords, memWriter)
      /\ \A a \in Range(memWriter[w].items) : a \in Known(memRecords, memWriter)
  BY InvParts
<1> HIDE DEF fresh
<1>2. CASE ~found
  <2> DEFINE r == [memWriter[w] EXCEPT !.pc = "storeIndex", !.item = fresh]
  <2>1. memWriter' = [memWriter EXCEPT ![w] = r]
    BY <1>2 DEF Memory!Looks, Memory!Becomes, fresh
  <2>2. /\ r \in Hands /\ r.pc = "storeIndex" /\ r.item = fresh /\ r.id = memWriter[w].id
        /\ r.items = memWriter[w].items /\ r.op = memWriter[w].op
    BY <1>0, <1>1 DEF Hands, Places
  <2> HIDE DEF r
  <2>3. Handles(r) /\ ~Swaps(r) /\ r.pc \notin Memory!Compacting
    BY <1>0, <2>2 DEF Handles, Swaps, Memory!Compacting
  <2>4. Past(r) => \E b \in Known(memRecords, memWriter) : b.id = r.id
    BY <1>1, <2>2 DEF Past, Memory!Updating, Memory!IsLive
  <2>5. Aside(w, r)
    BY <1>1, <2>2, <2>3, <2>4 DEF Aside
  <2> QED BY <2>1, <2>5, QuietStep
<1>3. CASE found /\ Memory!Updating(w)
  <2> DEFINE r == [memWriter[w] EXCEPT !.pc = "forgetItems", !.item = fresh]
  <2>1. memWriter' = [memWriter EXCEPT ![w] = r]
    BY <1>3 DEF Memory!Looks, Memory!Becomes, fresh
  <2>2. /\ r \in Hands /\ r.pc = "forgetItems" /\ r.item = fresh /\ r.id = memWriter[w].id
        /\ r.items = memWriter[w].items /\ r.op = memWriter[w].op
    BY <1>0, <1>1 DEF Hands, Places
  <2> HIDE DEF r
  <2>3. Handles(r)
    BY <1>0, <2>2 DEF Handles, Memory!Compacting
  <2> QED BY <1>0, <1>3, <2>1, <2>2, <2>3, FoundStep
<1>4. CASE found /\ ~Memory!Updating(w)
  <2>1. Memory!Ends(w)
    BY <1>4 DEF Memory!Looks
  <2> QED BY <2>1, EndsStep
<1> QED BY <1>2, <1>3, <1>4

LEMMA StoreItemsStep ==
  ASSUME Memory!MemoryBounds, MemoryInv, NEW w \in Writers, Memory!StoreItems(w) PROVE MemoryInv'
<1>1. PICK key \in MemKeys, label \in Labels : Memory!Looks(w, key, label)
  BY DEF Memory!StoreItems
<1>2. ~Memory!Updating(w)
  BY InvParts DEF Memory!StoreItems, Memory!At, Handles, Memory!Updating
<1>3. CountTypes' /\ memRecords' = memRecords /\ memIds' = memIds /\ memAcked' = memAcked
      /\ memDamaged' = memDamaged
  BY InvParts DEF Memory!StoreItems, Memory!files, Memory!ids, Memory!history, CountTypes
<1> QED BY <1>1, <1>2, <1>3, LooksStep

LEMMA UpdateItemsStep ==
  ASSUME Memory!MemoryBounds, MemoryInv, NEW w \in Writers, Memory!UpdateItems(w) PROVE MemoryInv'
<1>1. CountTypes' /\ memRecords' = memRecords /\ memIds' = memIds /\ memAcked' = memAcked
      /\ memDamaged' = memDamaged
  BY InvParts DEF Memory!UpdateItems, Memory!files, Memory!ids, Memory!history, CountTypes
<1>2. CASE Memory!Ends(w)
  BY <1>1, <1>2, EndsStep
<1>3. ASSUME NEW key \in MemKeys, NEW label \in Labels, Memory!Looks(w, key, label), Memory!IsLive(memWriter[w].id)
      PROVE  MemoryInv'
  BY <1>1, <1>3, LooksStep
<1> QED BY <1>2, <1>3 DEF Memory!UpdateItems


\* What is read of an index, or taken for it.
LEMMA OpensIs ==
  ASSUME MemoryInv, NEW index, Memory!OpensIndex(index)
  PROVE  /\ index \in Index
         /\ memCutsLeft' \in Nat /\ memStale' \in BOOLEAN /\ memRecounted' \in BOOLEAN
<1>1. Memory!NewIndex \in Index
  BY IndexesAre
<1>2. CASE memIndex.whole /\ index = memIndex /\ UNCHANGED <<memCutsLeft, memStale, memRecounted>>
  BY <1>2, InvParts DEF CountTypes
<1>3. CASE Memory!Faulty /\ index = Memory!NewIndex /\ memStale' = TRUE /\ memRecounted' = TRUE
  BY <1>1, <1>3, InvParts DEF CountTypes, Memory!Faulty
<1> QED BY <1>2, <1>3 DEF Memory!OpensIndex

LEMMA CannotParseStep ==
  ASSUME Memory!MemoryBounds, MemoryInv, NEW w \in Writers, Memory!CannotParse(w),
         UNCHANGED Memory!files, UNCHANGED Memory!ids, memChanges' = memChanges,
         memOpsLeft' = memOpsLeft, memAcked' = memAcked, memDamaged' = memDamaged
  PROVE  MemoryInv'
<1>1. /\ memRecords' = memRecords /\ memIds' = memIds /\ Memory!Ends(w)
  BY DEF Memory!CannotParse, Memory!files, Memory!ids
<1>2. CountTypes'
  BY InvParts DEF Memory!CannotParse, Memory!files, Memory!ids, CountTypes
<1> QED BY <1>1, <1>2, EndsStep

\* An id that is not in use is new to everybody.
LEMMA NotInUse ==
  ASSUME MemoryInv, NEW id, ~Memory!InUse(id)
  PROVE  /\ \A a \in Known(memRecords, memWriter) : a.id # id
         /\ \A o \in Writers : memWriter[o].id # id /\ memWriter[o].item.id # id
<1>1. /\ \A i \in DOMAIN memRecords : memRecords[i].id # id
      /\ \A o \in Writers : /\ memWriter[o].id # id /\ memWriter[o].item.id # id
                            /\ \A i \in DOMAIN memWriter[o].items : memWriter[o].items[i].id # id
  BY DEF Memory!InUse
<1>2. \A a \in Range(memRecords) : a.id # id
  BY <1>1 DEF Range
<1>3. \A o \in Writers : \A a \in Range(memWriter[o].items) : a.id # id
  BY <1>1 DEF Range
<1> QED BY <1>1, <1>2, <1>3 DEF Known

LEMMA StoreIndexStep ==
  ASSUME Memory!MemoryBounds, MemoryInv, NEW w \in Writers, Memory!StoreIndex(w) PROVE MemoryInv'
<1>0. /\ memRecords' = memRecords /\ memAcked' = memAcked /\ memChanges' = memChanges
      /\ memOpsLeft' = memOpsLeft /\ memIdsRepeat' = memIdsRepeat /\ memWriter[w].pc = "storeIndex"
      /\ UNCHANGED Memory!files
  BY DEF Memory!StoreIndex, Memory!files, Memory!At
<1>1. CASE Memory!CannotParse(w) /\ UNCHANGED <<memIds, memDamaged>>
  <2>1. UNCHANGED Memory!ids
    BY <1>0, <1>1 DEF Memory!ids
  <2> QED BY <1>0, <1>1, <2>1, CannotParseStep
<1>2. ASSUME NEW id \in Memory!MadeIds \cap 1..MaxIds, NEW opened, Memory!OpensIndex(opened),
             LET r == memWriter[w]
                 index == Memory!EnsureLabel(opened, r.item.label, 0)
                 item == [r.item EXCEPT !.id = id, !.sid = index.sums[r.item.label].id]
             IN  Memory!Becomes(w, [r EXCEPT !.pc = "storeAppend", !.item = item, !.index = index]),
             memIds' = (IF id > memIds THEN id ELSE memIds),
             memDamaged' = (memDamaged \/ Memory!InUse(id))
      PROVE  MemoryInv'
  <2> DEFINE old == memWriter[w]
  <2> DEFINE index == Memory!EnsureLabel(opened, old.item.label, 0)
  <2> DEFINE item == [old.item EXCEPT !.id = id, !.sid = index.sums[old.item.label].id]
  <2> DEFINE r == [old EXCEPT !.pc = "storeAppend", !.item = item, !.index = index]
  <2>0. memWriter' = [memWriter EXCEPT ![w] = r]
    BY <1>2 DEF Memory!Becomes
  <2>a. opened \in Index /\ CountTypes'
    <3>1. /\ opened \in Index /\ memCutsLeft' \in Nat /\ memStale' \in BOOLEAN /\ memRecounted' \in BOOLEAN
      BY <1>2, OpensIs
    <3>2. memDamaged' \in BOOLEAN
      BY <1>2, InvParts DEF CountTypes
    <3> QED BY <1>0, <3>1, <3>2, InvParts DEF CountTypes, Memory!files
  <2>1. /\ old \in Hands /\ old.item \in Drafts /\ old.item.live
        /\ Handles(old) /\ old.id <= memIds
    <3>1. old \in Hands /\ Handles(old) /\ old.id <= memIds
      BY InvParts
    <3> QED BY <1>0, <3>1 DEF Handles, Hands
  <2>2. index \in Index
    <3>1. old.item.label \in Labels
      BY <2>1 DEF Drafts
    <3> QED BY <2>a, <3>1, EnsureIs
  <2> HIDE DEF index
  <2>3. item \in Memory!Item /\ item.id = id /\ item.live /\ item \in Drafts
    <3>1. id \in 1..MaxIds /\ id \in 0..MaxIds
      <4>1. MaxIds \in Nat
        BY DEF Memory!MemoryBounds
      <4> QED BY <4>1
    <3>2. index.sums[old.item.label].id \in Nat
      BY <2>1, <2>2 DEF Drafts, Index
    <3> HIDE DEF old
    <3> QED BY <2>1, <3>1, <3>2 DEF Drafts, Memory!Item
  <2> HIDE DEF item
  <2>4. /\ r \in Hands /\ r.pc = "storeAppend" /\ r.item = item /\ r.id = old.id
        /\ r.items = old.items /\ r.op = old.op
    BY <2>1, <2>2, <2>3 DEF Hands, Places
  <2> HIDE DEF r
  <2>5. Handles(r) /\ ~Swaps(r) /\ r.pc \notin Memory!Compacting
    BY <2>3, <2>4, LinesApart DEF Handles, Swaps, Memory!Compacting
  <2>6. /\ memWriter' \in [Writers -> Hands] /\ memWriter \in [Writers -> Hands]
        /\ \A o \in Writers : memWriter'[o] = IF o = w THEN r ELSE memWriter[o]
    BY <2>0, <2>4, InvParts
  <2>7. MemoryTypes'
    <3>1. memIds' \in 0..MaxIds /\ \A n \in Nat : n <= memIds => n <= memIds'
      <4>1. memIds \in Nat /\ MaxIds \in Nat /\ memIds \in 0..MaxIds /\ id \in 1..MaxIds
        BY InvParts DEF Memory!MemoryBounds
      <4> QED BY <1>2, <4>1
    <3>2. \A o \in Writers : memWriter'[o].id <= memIds'
      <4>1. \A o \in Writers : memWriter[o].id <= memIds /\ memWriter[o].id \in Nat
        BY InvParts DEF Hands
      <4> QED BY <2>4, <2>6, <3>1, <4>1
    <3> QED BY <1>0, <2>a, <2>6, <3>1, <3>2 DEF MemoryInv, MemoryTypes
  <2>8. (\A o \in Writers : Handles(memWriter[o]))'
    <3>1. \A o \in Writers : Handles(memWriter'[o])
      BY <2>5, <2>6, InvParts
    <3> QED BY <3>1
  <2>9. ASSUME ~memDamaged' PROVE Numbered(memRecords', memWriter')
    <3>1. Known(memRecords, memWriter') = Known(memRecords, memWriter)
      <4>1. \A o \in Writers : memWriter'[o].items = memWriter[o].items
        BY <2>4, <2>6
      <4> QED BY <4>1 DEF Known
    <3>2. ~memDamaged /\ ~Memory!InUse(id)
      BY <1>2, <2>9, InvParts DEF CountTypes
    <3>3. Numbered(memRecords, memWriter)
      BY <3>2 DEF MemoryInv
    <3>4. /\ \A a \in Known(memRecords, memWriter) : a.id # id
          /\ \A o \in Writers : memWriter[o].id # id /\ memWriter[o].item.id # id
      BY <3>2, NotInUse
    <3>5. \A o \in Writers : Past(memWriter'[o]) => Past(memWriter[o]) /\ memWriter'[o].id = memWriter[o].id
      BY <1>0, <2>4, <2>6 DEF Past
    <3>6. NewId(memRecords, memWriter', w)
      <4>1. memWriter'[w].item.id = id
        BY <2>3, <2>4, <2>6
      <4>2. \A o \in Writers \ {w} : memWriter'[o].item.id # id
        BY <2>6, <3>4
      <4> QED BY <3>1, <3>4, <3>5, <4>1, <4>2 DEF NewId
    <3>7. ASSUME NEW o \in Writers, o # w, memWriter'[o].pc = "storeAppend"
          PROVE  NewId(memRecords, memWriter', o)
      <4>1. memWriter'[o] = memWriter[o] /\ NewId(memRecords, memWriter, o)
        BY <2>6, <3>3, <3>7 DEF Numbered
      <4>3. memWriter'[w].item.id # memWriter[o].item.id
        BY <2>3, <2>4, <2>6, <3>4
      <4>5. \A p \in Writers \ {o} : memWriter'[p].pc = "storeAppend" =>
              memWriter'[p].item.id # memWriter[o].item.id
        BY <2>6, <4>1, <4>3 DEF NewId
      <4>6. \A p \in Writers : Past(memWriter'[p]) => memWriter'[p].id # memWriter[o].item.id
        BY <3>5, <4>1 DEF NewId
      <4> QED BY <3>1, <4>1, <4>5, <4>6 DEF NewId
    <3>8. Numbered(memRecords, memWriter')
      BY <3>1, <3>3, <3>6, <3>7 DEF Numbered
    <3> QED BY <1>0, <3>8
  <2>10. ASSUME ~memDamaged' PROVE Keeps(Memory!LiveSet(memRecords'), memAcked', memWriter')
    <3>1. ~memDamaged
      BY <1>2, <2>10, InvParts DEF CountTypes
    <3>2. Keeps(Memory!LiveSet(memRecords), memAcked, memWriter)
      BY <3>1 DEF MemoryInv
    <3>3. Keeps(Memory!LiveSet(memRecords), memAcked, memWriter')
      BY <2>0, <2>4, <2>5, <2>6, <3>2, QuietKeeps
    <3> QED BY <1>0, <3>3
  <2> QED BY <2>7, <2>8, <2>9, <2>10 DEF MemoryInv
<1> QED BY <1>1, <1>2 DEF Memory!StoreIndex

LEMMA StoreAppendStep ==
  ASSUME Memory!MemoryBounds, MemoryInv, NEW w \in Writers, Memory!StoreAppend(w) PROVE MemoryInv'
<1> DEFINE old == memWriter[w]
<1> DEFINE item == old.item
<1> DEFINE r == [old EXCEPT !.pc = "storeSave"]
<1>0. /\ memRecords' = Memory!WithLine(memRecords, item)
      /\ memDamaged' = (memDamaged \/ Memory!Rewriting(w) \/ Memory!CutLine \in Range(memRecords))
      /\ memWriter' = [memWriter EXCEPT ![w] = r]
      /\ memAcked' = memAcked \cup {item.key}
      /\ memIds' = memIds /\ memIdsRepeat' = memIdsRepeat /\ old.pc = "storeAppend"
  BY RangeIs DEF Memory!StoreAppend, Memory!Goto, Memory!Becomes, Memory!At, Memory!ids
<1>1. /\ old \in Hands /\ Handles(old) /\ item \in Memory!Item /\ item.live /\ item # Memory!CutLine
      /\ old.id <= memIds
  BY <1>0, InvParts DEF Handles
<1>2. CountTypes'
  BY InvParts DEF Memory!StoreAppend, Memory!ids, CountTypes
<1>3. /\ r \in Hands /\ r.pc = "storeSave" /\ r.item = item /\ r.id = old.id /\ r.op = old.op
      /\ r.items = old.items
  BY <1>1 DEF Hands, Places
<1>4. Handles(r) /\ r.pc \notin Memory!Compacting
  BY <1>1, <1>3 DEF Handles, Memory!Compacting
<1> HIDE DEF r
<1>5. /\ memRecords' \in Seq(Memory!Lines)
      /\ \/ Memory!LiveSet(memRecords') = Memory!LiveSet(memRecords) /\ Memory!CutLine \in Range(memRecords)
         \/ Memory!LiveSet(memRecords') =
              {a \in Memory!LiveSet(memRecords) : a.id # item.id} \cup {a \in {item} : a.live}
      /\ Range(memRecords') \subseteq Range(memRecords) \cup {item}
  BY <1>0, <1>1, LineAdds, InvParts
<1>6. /\ memWriter' \in [Writers -> Hands] /\ memWriter \in [Writers -> Hands]
      /\ \A o \in Writers : memWriter'[o] = IF o = w THEN r ELSE memWriter[o]
  BY <1>0, <1>3, InvParts
<1>7. MemoryTypes'
  <2>1. item.key \in MemKeys
    BY <1>1 DEF Memory!Item
  <2>2. \A o \in Writers : memWriter'[o].id <= memIds'
    BY <1>0, <1>1, <1>3, <1>6, InvParts
  <2> QED BY <1>0, <1>2, <1>5, <1>6, <2>1, <2>2 DEF MemoryInv, MemoryTypes
<1>8. (\A o \in Writers : Handles(memWriter[o]))'
  <2>1. \A o \in Writers : Handles(memWriter'[o])
    BY <1>4, <1>6, InvParts
  <2> QED BY <2>1
<1>9. ~memDamaged => Numbered(memRecords, memWriter) /\ NewId(memRecords, memWriter, w)
  BY <1>0 DEF MemoryInv, Numbered
<1>10. \A a \in Known(memRecords', memWriter') : a \in Known(memRecords, memWriter) \/ a = item
  <2>1. \A o \in Writers : memWriter'[o].items = memWriter[o].items
    BY <1>3, <1>6
  <2> QED BY <1>5, <2>1 DEF Known
<1>11. ASSUME ~memDamaged' PROVE Numbered(memRecords', memWriter')
  <2>0. Numbered(memRecords, memWriter) /\ NewId(memRecords, memWriter, w)
    BY <1>0, <1>9, <1>11, InvParts DEF CountTypes
  <2>2. \A a, b \in Known(memRecords', memWriter') : a.id = b.id => a.key = b.key
    BY <1>10, <2>0 DEF Numbered, NewId
  <2>4. ASSUME NEW o \in Writers, memWriter'[o].pc = "storeAppend"
        PROVE  NewId(memRecords', memWriter', o)
    <3>1. o # w /\ memWriter'[o] = memWriter[o] /\ memWriter[o].pc = "storeAppend"
      BY <1>3, <1>6, <2>4
    <3>2. NewId(memRecords, memWriter, o)
      BY <2>0, <3>1 DEF Numbered
    <3>3. item.id # memWriter[o].item.id
      BY <1>0, <3>1, <3>2 DEF NewId
    <3>4. \A p \in Writers : Past(memWriter'[p]) => Past(memWriter[p]) /\ memWriter'[p].id = memWriter[p].id
      BY <1>0, <1>3, <1>6 DEF Past
    <3>5. \A p \in Writers : memWriter'[p].pc = "storeAppend" => memWriter'[p] = memWriter[p]
      BY <1>3, <1>6
    <3>6. \A p \in Writers : Past(memWriter'[p]) => memWriter'[p].id # memWriter[o].item.id
      BY <3>2, <3>4 DEF NewId
    <3>7. \A a \in Known(memRecords', memWriter') : a.id # memWriter[o].item.id
      BY <1>10, <3>2, <3>3 DEF NewId
    <3> QED BY <3>1, <3>2, <3>5, <3>6, <3>7 DEF NewId
  <2> QED BY <2>2, <2>4 DEF Numbered
<1>12. ASSUME ~memDamaged' PROVE Keeps(Memory!LiveSet(memRecords'), memAcked', memWriter')
  <2> DEFINE live == Memory!LiveSet(memRecords)
  <2>1. ~memDamaged /\ ~Memory!Rewriting(w) /\ Memory!CutLine \notin Range(memRecords)
    BY <1>0, <1>12 DEF CountTypes
  <2>2. Keeps(live, memAcked, memWriter) /\ NewId(memRecords, memWriter, w)
    BY <1>9, <2>1 DEF MemoryInv
  <2>3. Memory!LiveSet(memRecords') = live \cup {item}
    <3>1. \A a \in live : a.id # item.id
      BY <2>2, InvParts DEF NewId
    <3> QED BY <1>1, <1>5, <2>1, <3>1
  <2> HIDE DEF live
  <2>4. \A o \in Writers : memWriter'[o].pc \notin Memory!Compacting
    BY <1>4, <1>6, <2>1 DEF Memory!Rewriting
  <2>5. memAcked' \subseteq {a.key : a \in live \cup {item}}
    BY <1>0, <2>2 DEF Keeps
  <2>6. ASSUME NEW o \in Writers, Swaps(memWriter'[o]), memWriter'[o].item.key \in memAcked'
        PROVE  Beside(live \cup {item}, memWriter'[o])
    <3>1. Past(memWriter[o]) /\ memWriter'[o].id = memWriter[o].id /\ memWriter'[o].item = memWriter[o].item
      BY <1>0, <1>3, <1>6, <2>6 DEF Past, Swaps, Memory!Compacting
    <3>2. item.id # memWriter[o].id
      BY <2>2, <3>1 DEF NewId
    <3>3. CASE memWriter[o].item.key = item.key
      BY <3>1, <3>2, <3>3 DEF Beside
    <3>4. CASE memWriter[o].item.key # item.key
      <4>1. o # w /\ memWriter'[o] = memWriter[o] /\ memWriter[o].item.key \in memAcked
        BY <1>0, <1>6, <2>6, <3>1, <3>4
      <4>2. Beside(live, memWriter[o])
        BY <2>2, <2>6, <4>1 DEF Keeps
      <4> QED BY <4>1, <4>2 DEF Beside
    <3> QED BY <3>3, <3>4
  <2> QED BY <2>3, <2>4, <2>5, <2>6 DEF Keeps
<1> QED BY <1>7, <1>8, <1>11, <1>12 DEF MemoryInv


\* After a write: a compaction, the rest of an update, or the end.
LEMMA SettlesStep ==
  ASSUME Memory!MemoryBounds, MemoryInv, NEW w \in Writers, NEW after \in Afters, NEW changes,
         Memory!Settles(w, after, changes),
         memWriter[w].op = "update" /\ after = "forgetItems" => Swaps(memWriter[w]),
         memWriter[w].pc # "updateItems",
         CountTypes', memRecords' = memRecords, memIds' = memIds, memAcked' = memAcked,
         memDamaged' = memDamaged
  PROVE  MemoryInv'
<1> DEFINE r == [memWriter[w] EXCEPT !.items = <<>>, !.index = Memory!NoIndex]
<1> DEFINE due == [r EXCEPT !.pc = "compactRead", !.after = after]
<1> DEFINE goes == [r EXCEPT !.pc = after]
<1>1. \/ memWriter' = [memWriter EXCEPT ![w] = due]
      \/ memWriter' = [memWriter EXCEPT ![w] = Memory!Resting]
      \/ memWriter' = [memWriter EXCEPT ![w] = goes] /\ after # "idle"
  BY DEF Memory!Settles, Memory!Becomes
<1>2. /\ memWriter[w] \in Hands /\ memWriter[w].id <= memIds /\ Handles(memWriter[w])
  BY InvParts
<1>3. Memory!NoIndex \in Index /\ <<>> \in Seq(Memory!Item) /\ Range(<<>>) = {}
  <2>1. Memory!NoIndex \in Index
    BY IndexesAre
  <2>2. Range(<<>>) = {}
    BY DEF Range
  <2> QED BY <2>1, <2>2
<1>4. CASE memWriter' = [memWriter EXCEPT ![w] = due]
  <2>1. /\ due \in Hands /\ due.pc = "compactRead" /\ due.after = after /\ due.items = <<>>
        /\ due.id = memWriter[w].id /\ due.item = memWriter[w].item /\ due.op = memWriter[w].op
    BY <1>2, <1>3 DEF Hands, Places
  <2> HIDE DEF due
  <2>2. Swaps(due) => Swaps(memWriter[w])
    BY <2>1 DEF Swaps
  <2>3. Handles(due) /\ due.pc \notin Memory!Compacting
    BY <1>2, <2>1, <2>2 DEF Handles, Memory!Compacting
  <2>4. Past(due) => Past(memWriter[w])
    BY <2>1 DEF Past
  <2>5. Aside(w, due)
    BY <1>2, <1>3, <2>1, <2>2, <2>3, <2>4 DEF Aside
  <2> QED BY <1>4, <2>5, QuietStep
<1>5. CASE memWriter' = [memWriter EXCEPT ![w] = goes] /\ after # "idle"
  <2>1. /\ goes \in Hands /\ goes.pc = after /\ goes.items = <<>>
        /\ goes.id = memWriter[w].id /\ goes.item = memWriter[w].item /\ goes.op = memWriter[w].op
    BY <1>2, <1>3 DEF Hands, Places, Afters
  <2> HIDE DEF goes
  <2>0. after \in {"forgetItems", "updateEnd"}
    BY <1>5 DEF Afters
  <2>2. Swaps(goes) => Swaps(memWriter[w])
    BY <2>0, <2>1 DEF Swaps, Memory!Compacting
  <2>3. Handles(goes) /\ goes.pc \notin Memory!Compacting
    BY <1>2, <2>0, <2>1, <2>2 DEF Handles, Memory!Compacting
  <2>4. Past(goes) => Past(memWriter[w])
    BY <2>1 DEF Past
  <2>5. Aside(w, goes)
    BY <1>2, <1>3, <2>0, <2>1, <2>2, <2>3, <2>4 DEF Aside
  <2> QED BY <1>5, <2>5, QuietStep
<1>6. CASE memWriter' = [memWriter EXCEPT ![w] = Memory!Resting]
  BY <1>6, RestingQuiet, QuietStep
<1> QED BY <1>1, <1>4, <1>5, <1>6

LEMMA StoreSaveStep ==
  ASSUME Memory!MemoryBounds, MemoryInv, NEW w \in Writers, Memory!StoreSave(w) PROVE MemoryInv'
<1> DEFINE r == memWriter[w]
<1>1. /\ r.pc = "storeSave" /\ memIndex' = Memory!Counted(r.index, r.item.sid) /\ memChanges' = memChanges + 1
      /\ Memory!Settles(w, IF r.op = "update" THEN "forgetItems" ELSE "idle", memChanges + 1)
      /\ memRecords' = memRecords /\ memIds' = memIds /\ memAcked' = memAcked
      /\ memDamaged' = memDamaged
  BY DEF Memory!StoreSave, Memory!At, Memory!Updating, Memory!ids, Memory!history
<1>2. r \in Hands /\ Handles(r)
  BY InvParts
<1>3. CountTypes'
  <2>1. r.index \in Index /\ r.item.sid \in Nat
    BY <1>1, <1>2 DEF Hands, Handles, Memory!Item
  <2>2. memIndex' \in Index
    BY <1>1, <2>1, CountedIs
  <2> QED BY <1>1, <2>2, InvParts DEF Memory!StoreSave, CountTypes, Memory!ids, Memory!history
<1>4. (IF r.op = "update" THEN "forgetItems" ELSE "idle") \in Afters
  BY DEF Afters
<1>5. r.op = "update" => Swaps(r)
  BY <1>1 DEF Swaps
<1> QED BY <1>1, <1>3, <1>4, <1>5, SettlesStep

LEMMA ForgetSaveStep ==
  ASSUME Memory!MemoryBounds, MemoryInv, NEW w \in Writers, Memory!ForgetSave(w) PROVE MemoryInv'
<1> DEFINE r == memWriter[w]
<1>1. /\ r.pc = "forgetSave" /\ memIndex' = Memory!Uncounted(r.index, r.items[1].sid)
      /\ memChanges' = memChanges + 1
      /\ Memory!Settles(w, IF r.op = "update" THEN "updateEnd" ELSE "idle", memChanges + 1)
      /\ memRecords' = memRecords /\ memIds' = memIds /\ memAcked' = memAcked
      /\ memDamaged' = memDamaged
  BY DEF Memory!ForgetSave, Memory!At, Memory!Updating, Memory!ids, Memory!history
<1>2. r \in Hands /\ Handles(r)
  BY InvParts
<1>3. CountTypes'
  <2>1. r.index \in Index /\ r.items \in Seq(Memory!Item) /\ Len(r.items) = 1
    BY <1>1, <1>2 DEF Hands, Handles
  <2>2. r.items[1] \in Memory!Item
    BY <2>1
  <2>3. r.items[1].sid \in Nat
    BY <2>2 DEF Memory!Item
  <2>4. memIndex' \in Index
    BY <1>1, <2>1, <2>3, UncountedIs
  <2> QED BY <1>1, <2>4, InvParts DEF Memory!ForgetSave, CountTypes, Memory!ids, Memory!history
<1>4. (IF r.op = "update" THEN "updateEnd" ELSE "idle") \in Afters
  BY DEF Afters
<1> QED BY <1>1, <1>3, <1>4, SettlesStep

LEMMA UpdateEndStep ==
  ASSUME Memory!MemoryBounds, MemoryInv, NEW w \in Writers, Memory!UpdateEnd(w) PROVE MemoryInv'
<1>1. /\ memWriter[w].pc = "updateEnd" /\ Memory!Settles(w, "idle", memChanges) /\ "idle" \in Afters
      /\ memRecords' = memRecords /\ memIds' = memIds /\ memAcked' = memAcked
      /\ memDamaged' = memDamaged
  BY DEF Memory!UpdateEnd, Memory!At, Memory!files, Memory!ids, Memory!history, Afters
<1>2. CountTypes'
  BY InvParts DEF Memory!UpdateEnd, Memory!files, Memory!ids, Memory!history, CountTypes
<1> QED BY <1>1, <1>2, SettlesStep

LEMMA ForgetItemsStep ==
  ASSUME Memory!MemoryBounds, MemoryInv, NEW w \in Writers, Memory!ForgetItems(w) PROVE MemoryInv'
<1> DEFINE old == memWriter[w]
<1>0. /\ CountTypes' /\ memRecords' = memRecords /\ memIds' = memIds /\ memAcked' = memAcked
      /\ memDamaged' = memDamaged /\ old.pc = "forgetItems"
  BY InvParts DEF Memory!ForgetItems, Memory!files, Memory!ids, Memory!history, CountTypes, Memory!At
<1>1. CASE Memory!Ends(w)
  BY <1>0, <1>1, EndsStep
<1>2. CASE Memory!IsLive(old.id)
           /\ Memory!Becomes(w, [old EXCEPT !.pc = "forgetAppend",
                                     !.items = <<[Memory!Stored(old.id) EXCEPT !.live = FALSE]>>])
  <2> DEFINE a == Memory!Stored(old.id)
  <2>1. a \in Memory!LiveSet(memRecords) /\ a.id = old.id
    BY <1>2 DEF Memory!IsLive, Memory!Stored
  <2> HIDE DEF a
  <2> DEFINE item == [a EXCEPT !.live = FALSE]
  <2>2. a \in Memory!Item /\ a \in Known(memRecords, memWriter)
    BY <2>1, InvParts
  <2>3. item \in Memory!Item /\ item.id = a.id /\ item.key = a.key /\ ~item.live
    BY <2>2 DEF Memory!Item
  <2> DEFINE r == [old EXCEPT !.pc = "forgetAppend", !.items = <<item>>]
  <2>4. memWriter' = [memWriter EXCEPT ![w] = r]
    BY <1>2 DEF Memory!Becomes, a
  <2> HIDE DEF item
  <2>5. old \in Hands /\ old.id <= memIds /\ Handles(old)
    BY InvParts
  <2>6. /\ r \in Hands /\ r.pc = "forgetAppend" /\ r.items = <<item>> /\ r.id = old.id
        /\ r.item = old.item /\ r.op = old.op
    <3>1. <<item>> \in Seq(Memory!Item)
      BY <2>3
    <3> QED BY <2>5, <3>1 DEF Hands, Places
  <2> HIDE DEF r
  <2>7. Swaps(r) => Swaps(old)
    BY <1>0, <2>6 DEF Swaps
  <2>8. Handles(r) /\ r.pc \notin Memory!Compacting
    BY <2>1, <2>3, <2>5, <2>6, <2>7 DEF Handles, Memory!Compacting
  <2>9. Past(r) => Past(old)
    BY <1>0, <2>6 DEF Past
  <2>10. \A b \in Range(r.items) : b = item
    BY <2>6 DEF Range
  <2>11. Aside(w, r)
    BY <2>2, <2>3, <2>5, <2>6, <2>7, <2>8, <2>9, <2>10 DEF Aside
  <2> QED BY <1>0, <2>4, <2>11, QuietStep
<1> QED BY <1>1, <1>2 DEF Memory!ForgetItems

LEMMA ForgetIndexStep ==
  ASSUME Memory!MemoryBounds, MemoryInv, NEW w \in Writers, Memory!ForgetIndex(w) PROVE MemoryInv'
<1> DEFINE old == memWriter[w]
<1>0. /\ memRecords' = memRecords /\ memIds' = memIds /\ memAcked' = memAcked
      /\ memDamaged' = memDamaged /\ old.pc = "forgetIndex" /\ memChanges' = memChanges
      /\ memOpsLeft' = memOpsLeft /\ memIdsRepeat' = memIdsRepeat
      /\ UNCHANGED Memory!files /\ UNCHANGED Memory!ids
  BY DEF Memory!ForgetIndex, Memory!files, Memory!ids, Memory!At
<1>1. CASE Memory!CannotParse(w)
  BY <1>0, <1>1, CannotParseStep
<1>2. ASSUME NEW index, Memory!OpensIndex(index),
             Memory!Becomes(w, [old EXCEPT !.pc = "forgetSave", !.index = index])
      PROVE  MemoryInv'
  <2> DEFINE r == [old EXCEPT !.pc = "forgetSave", !.index = index]
  <2>0. index \in Index /\ CountTypes'
    <3>1. /\ index \in Index /\ memCutsLeft' \in Nat /\ memStale' \in BOOLEAN /\ memRecounted' \in BOOLEAN
      BY <1>2, OpensIs
    <3> QED BY <1>0, <3>1, InvParts DEF CountTypes, Memory!files
  <2>1. memWriter' = [memWriter EXCEPT ![w] = r]
    BY <1>2 DEF Memory!Becomes
  <2>2. /\ old \in Hands /\ old.id <= memIds /\ Handles(old)
        /\ \A a \in Range(old.items) : a \in Known(memRecords, memWriter)
    BY InvParts
  <2>3. /\ r \in Hands /\ r.pc = "forgetSave" /\ r.items = old.items /\ r.id = old.id
        /\ r.item = old.item /\ r.op = old.op
    BY <2>0, <2>2 DEF Hands, Places
  <2> HIDE DEF r
  <2>4. ~Swaps(r) /\ Handles(r) /\ (Past(r) => Past(old)) /\ r.pc \notin Memory!Compacting
    BY <1>0, <2>2, <2>3 DEF Swaps, Handles, Past, Memory!Compacting
  <2>5. Aside(w, r)
    BY <2>2, <2>3, <2>4 DEF Aside
  <2> QED BY <1>0, <2>0, <2>1, <2>5, QuietStep
<1> QED BY <1>1, <1>2 DEF Memory!ForgetIndex

LEMMA CompactSaveStep ==
  ASSUME Memory!MemoryBounds, MemoryInv, NEW w \in Writers, Memory!CompactSave(w) PROVE MemoryInv'
<1> DEFINE old == memWriter[w]
<1> DEFINE r == [old EXCEPT !.pc = old.after, !.items = <<>>, !.index = Memory!NoIndex]
<1>0. /\ old.pc = "compactSave" /\ memIndex' = old.index /\ memChanges' = 0
      /\ \/ memWriter' = [memWriter EXCEPT ![w] = Memory!Resting]
         \/ memWriter' = [memWriter EXCEPT ![w] = r] /\ old.after # "idle"
      /\ memRecords' = memRecords /\ memIds' = memIds /\ memAcked' = memAcked
      /\ memDamaged' = memDamaged /\ memIdsRepeat' = memIdsRepeat
  BY DEF Memory!CompactSave, Memory!At, Memory!Becomes, Memory!ids
<1>1. old \in Hands /\ old.id <= memIds /\ Handles(old)
  BY InvParts
<1>2. CountTypes'
  <2>1. old.index \in Index
    BY <1>1 DEF Hands
  <2> QED BY <1>0, <2>1, InvParts DEF Memory!CompactSave, CountTypes
<1>3. CASE memWriter' = [memWriter EXCEPT ![w] = Memory!Resting]
  BY <1>0, <1>2, <1>3, RestingQuiet, QuietStep
<1>4. CASE memWriter' = [memWriter EXCEPT ![w] = r] /\ old.after # "idle"
  <2>1. Memory!NoIndex \in Index /\ <<>> \in Seq(Memory!Item) /\ Range(<<>>) = {}
    <3>1. Memory!NoIndex \in Index
      BY IndexesAre
    <3>2. Range(<<>>) = {}
      BY DEF Range
    <3> QED BY <3>1, <3>2
  <2>2. old.after \in {"forgetItems", "updateEnd"}
    BY <1>1, <1>4 DEF Hands, Afters
  <2>3. /\ r \in Hands /\ r.pc = old.after /\ r.items = <<>> /\ r.id = old.id
        /\ r.item = old.item /\ r.op = old.op
    BY <1>1, <2>1, <2>2 DEF Hands, Places
  <2> HIDE DEF r
  <2>4. (Swaps(r) => Swaps(old)) /\ (Past(r) => Past(old))
    BY <1>0, <2>2, <2>3 DEF Swaps, Past, Memory!Compacting
  <2>5. Handles(r) /\ r.pc \notin Memory!Compacting
    BY <1>1, <2>2, <2>3, <2>4 DEF Handles, Memory!Compacting
  <2>6. Aside(w, r)
    BY <1>1, <2>1, <2>2, <2>3, <2>4, <2>5 DEF Aside
  <2> QED BY <1>0, <1>2, <1>4, <2>6, QuietStep
<1> QED BY <1>0, <1>3, <1>4

LEMMA OpenFailsStep ==
  ASSUME Memory!MemoryBounds, MemoryInv, NEW w \in Writers, Memory!OpenFails(w) PROVE MemoryInv'
<1>1. /\ Memory!Ends(w) /\ memRecords' = memRecords /\ memIds' = memIds /\ memAcked' = memAcked
      /\ memDamaged' = memDamaged
  BY DEF Memory!OpenFails, Memory!files, Memory!ids
<1>2. CountTypes'
  BY InvParts DEF Memory!OpenFails, Memory!Faulty, Memory!files, Memory!ids, CountTypes
<1> QED BY <1>1, <1>2, EndsStep

\* The index a writer is about to write.
LEMMA SavesIndex ==
  ASSUME MemoryInv, NEW w \in Writers
  PROVE  LET r == memWriter[w] IN
         /\ r.pc = "storeSave" => Memory!Counted(r.index, r.item.sid) \in Index
         /\ r.pc = "forgetSave" => Memory!Uncounted(r.index, r.items[1].sid) \in Index
         /\ r.pc = "compactSave" => r.index \in Index
<1> DEFINE r == memWriter[w]
<1>1. r \in Hands /\ Handles(r) /\ r.index \in Index
  BY InvParts DEF Hands
<1>2. CASE r.pc = "storeSave"
  <2>1. r.item.sid \in Nat
    BY <1>1, <1>2 DEF Handles, Memory!Item
  <2> QED BY <1>1, <1>2, <2>1, CountedIs
<1>3. CASE r.pc = "forgetSave"
  <2>1. r.items \in Seq(Memory!Item) /\ Len(r.items) = 1
    BY <1>1, <1>3 DEF Hands, Handles
  <2>2. r.items[1] \in Memory!Item
    BY <2>1
  <2>3. r.items[1].sid \in Nat
    BY <2>2 DEF Memory!Item
  <2> QED BY <1>1, <1>3, <2>3, UncountedIs
<1> QED BY <1>1, <1>2, <1>3

LEMMA MarkdownFailsStep ==
  ASSUME Memory!MemoryBounds, MemoryInv, NEW w \in Writers, Memory!MarkdownFails(w) PROVE MemoryInv'
<1>1. /\ Memory!Ends(w) /\ memRecords' = memRecords /\ memIds' = memIds /\ memAcked' = memAcked
      /\ memDamaged' = memDamaged
  BY DEF Memory!MarkdownFails, Memory!ids
<1>2. memIndex' \in Index
  <2>1. memWriter[w].pc \in {"storeSave", "forgetSave", "compactSave"}
    BY DEF Memory!MarkdownFails, Memory!Saving
  <2> QED BY <2>1, SavesIndex DEF Memory!MarkdownFails
<1>3. CountTypes'
  <2>1. memStale' \in BOOLEAN /\ memRecounted' \in BOOLEAN
    BY DEF Memory!MarkdownFails
  <2>2. /\ memDigest' = memDigest /\ memOpsLeft' = memOpsLeft /\ memCutsLeft' \in Nat
        /\ memChanges' \in Nat /\ memIdsRepeat' = memIdsRepeat
    BY InvParts DEF Memory!MarkdownFails, Memory!Faulty, Memory!ids, CountTypes
  <2> QED BY <1>1, <1>2, <2>1, <2>2, InvParts DEF CountTypes
<1> QED BY <1>1, <1>3, EndsStep


LEMMA ForgetAppendStep ==
  ASSUME Memory!MemoryBounds, MemoryInv, NEW w \in Writers, Memory!ForgetAppend(w) PROVE MemoryInv'
<1> DEFINE old == memWriter[w]
<1> DEFINE item == old.items[1]
<1> DEFINE r == [old EXCEPT !.pc = "forgetIndex"]
<1> DEFINE replaced == old.op = "update" /\ old.item.key = item.key
<1>0. /\ memRecords' = Memory!WithLine(memRecords, item)
      /\ memDamaged' = (memDamaged \/ (replaced /\ \E o \in Writers \ {w} : Memory!ReliesOn(o, item.key)))
      /\ memWriter' = [memWriter EXCEPT ![w] = r]
      /\ memAcked' = (IF replaced THEN memAcked ELSE memAcked \ {item.key})
      /\ memIds' = memIds /\ old.pc = "forgetAppend"
  BY DEF Memory!ForgetAppend, Memory!Goto, Memory!Becomes, Memory!At, Memory!Updating, Memory!ids
<1>1. /\ old \in Hands /\ Handles(old) /\ old.id <= memIds
      /\ Len(old.items) = 1 /\ ~item.live /\ item.id = old.id /\ old.items \in Seq(Memory!Item)
  BY <1>0, InvParts DEF Handles, Hands
<1>2. item \in Memory!Item /\ item \in Range(old.items)
  BY <1>1 DEF Range
<1>3. item \in Known(memRecords, memWriter)
  BY <1>2, InvParts
<1>4. CountTypes'
  BY InvParts DEF Memory!ForgetAppend, Memory!ids, CountTypes
<1>5. /\ r \in Hands /\ r.pc = "forgetIndex" /\ r.item = old.item /\ r.id = old.id
      /\ r.op = old.op /\ r.items = old.items
  BY <1>1 DEF Hands, Places
<1> HIDE DEF r, item
<1>6. Handles(r) /\ ~Swaps(r) /\ (Past(r) => Past(old)) /\ r.pc \notin Memory!Compacting
  BY <1>0, <1>1, <1>5 DEF Handles, Swaps, Past, item, Memory!Compacting
<1>7. /\ memRecords' \in Seq(Memory!Lines)
      /\ \/ Memory!LiveSet(memRecords') = Memory!LiveSet(memRecords) /\ Memory!CutLine \in Range(memRecords)
         \/ Memory!LiveSet(memRecords') =
              {a \in Memory!LiveSet(memRecords) : a.id # item.id} \cup {a \in {item} : a.live}
      /\ Range(memRecords') \subseteq Range(memRecords) \cup {item}
  BY <1>0, <1>2, LineAdds, InvParts
<1>8. /\ memWriter' \in [Writers -> Hands] /\ memWriter \in [Writers -> Hands]
      /\ \A o \in Writers : memWriter'[o] = IF o = w THEN r ELSE memWriter[o]
  BY <1>0, <1>5, InvParts
<1>9. MemoryTypes'
  <2>1. memAcked' \subseteq MemKeys
    BY <1>0, InvParts
  <2>2. \A o \in Writers : memWriter'[o].id <= memIds'
    BY <1>0, <1>1, <1>5, <1>8, InvParts
  <2> QED BY <1>0, <1>4, <1>7, <1>8, <2>1, <2>2, InvParts DEF MemoryTypes
<1>10. (\A o \in Writers : Handles(memWriter[o]))'
  <2>1. \A o \in Writers : Handles(memWriter'[o])
    BY <1>6, <1>8, InvParts
  <2> QED BY <2>1
<1>11. ASSUME ~memDamaged' PROVE Numbered(memRecords', memWriter')
  <2>1. Range(memRecords') \subseteq Known(memRecords, memWriter) \cup {Memory!CutLine}
    BY <1>3, <1>7 DEF Known
  <2>2. \A a \in Range(r.items) : a \in Known(memRecords, memWriter)
    BY <1>5, InvParts
  <2>4. ~memDamaged
    BY <1>0, <1>11, InvParts DEF CountTypes
  <2>3. Numbered(memRecords', memWriter')
    BY <1>0, <1>1, <1>5, <1>6, <2>1, <2>2, <2>4, QuietNumbers
  <2> QED BY <2>3
<1>12. ASSUME ~memDamaged' PROVE Keeps(Memory!LiveSet(memRecords'), memAcked', memWriter')
  <2> DEFINE live == Memory!LiveSet(memRecords)
  <2> DEFINE new == Memory!LiveSet(memRecords')
  <2>1. ~memDamaged /\ (replaced => \A o \in Writers \ {w} : ~Memory!ReliesOn(o, item.key))
    BY <1>0, <1>12, InvParts DEF CountTypes
  <2>2. Keeps(live, memAcked, memWriter)
    BY <2>1 DEF MemoryInv
  <2>3. /\ \A a \in live : a.id # item.id => a \in new
        /\ \A a \in live : a.key # item.key => a.id # item.id
    <3>1. \A a \in live : a \in new \/ a.id = item.id
      BY <1>7
    <3>2. \A a \in live : a.id = item.id => a.key = item.key
      <4>1. \A a \in live : a \in Known(memRecords, memWriter)
        BY InvParts
      <4> QED BY <1>3, <2>1, <4>1 DEF MemoryInv, Numbered
    <3> QED BY <3>1, <3>2
  <2>4. replaced /\ item.key \in memAcked => Beside(live, old)
    <3>1. replaced => Swaps(old)
      BY <1>0 DEF Swaps
    <3> QED BY <2>2, <3>1 DEF Keeps
  <2> HIDE DEF live, new
  <2>5. memAcked' \subseteq {a.key : a \in new}
    <3> SUFFICES ASSUME NEW k \in memAcked' PROVE \E a \in new : a.key = k
      OBVIOUS
    <3>1. k \in memAcked /\ (~replaced => k # item.key)
      BY <1>0
    <3>2. PICK a \in live : a.key = k
      BY <2>2, <3>1 DEF Keeps
    <3>3. CASE k # item.key
      BY <2>3, <3>2, <3>3
    <3>4. CASE k = item.key
      <4>1. replaced /\ Beside(live, old)
        BY <2>4, <3>1, <3>4
      <4>2. PICK b \in live : b.key = k /\ b.id # old.id
        BY <3>4, <4>1 DEF Beside
      <4>3. b.id # item.id
        BY <1>1, <4>2 DEF item
      <4> QED BY <2>3, <4>2, <4>3
    <3> QED BY <3>3, <3>4
  <2>6. \A o \in Writers : memWriter'[o].pc \in Memory!Compacting =>
          memWriter[o].pc \in Memory!Compacting /\ memWriter'[o] = memWriter[o]
    BY <1>6, <1>8
  <2>7. \A o \in Writers : memWriter'[o].pc \in Memory!Compacting =>
          memAcked' \subseteq Memory!KeysOf(memWriter'[o].items)
    BY <1>0, <2>2, <2>6 DEF Keeps
  <2>8. ASSUME NEW o \in Writers, Swaps(memWriter'[o]), memWriter'[o].item.key \in memAcked'
        PROVE  /\ Beside(new, memWriter'[o])
               /\ \A p \in Writers : memWriter'[p].pc \in Memory!Compacting =>
                    Outlives(memWriter'[p].items, new, memWriter'[o])
    <3>1. o # w /\ memWriter'[o] = memWriter[o] /\ Swaps(memWriter[o]) /\ memWriter[o].item.key \in memAcked
      BY <1>0, <1>6, <1>8, <2>8
    <3>2. memWriter[o].item.key # item.key
      <4>1. CASE replaced
        <5>1. ~Memory!ReliesOn(o, item.key)
          BY <2>1, <3>1, <4>1
        <5>2. Memory!Replacing(o)
          BY <3>1 DEF Memory!Replacing, Memory!Updating, Swaps
        <5> QED BY <5>1, <5>2 DEF Memory!ReliesOn
      <4>2. CASE ~replaced
        BY <1>0, <2>8, <3>1, <4>2
      <4> QED BY <4>1, <4>2
    <3>3. Beside(live, memWriter[o])
      BY <2>2, <3>1 DEF Keeps
    <3>4. Beside(new, memWriter[o])
      BY <2>3, <3>2, <3>3 DEF Beside
    <3>5. ASSUME NEW p \in Writers, memWriter'[p].pc \in Memory!Compacting
          PROVE  Outlives(memWriter'[p].items, new, memWriter[o])
      <4>1. Outlives(memWriter[p].items, live, memWriter[o]) /\ memWriter'[p] = memWriter[p]
        BY <2>2, <2>6, <3>1, <3>5 DEF Keeps
      <4>2. Twice(live, memWriter[o]) => Twice(new, memWriter[o])
        BY <2>3, <3>2 DEF Twice
      <4> QED BY <4>1, <4>2 DEF Outlives
    <3> QED BY <3>1, <3>4, <3>5
  <2>9. Keeps(new, memAcked', memWriter')
    BY <2>5, <2>7, <2>8 DEF Keeps
  <2> QED BY <2>9 DEF new
<1> QED BY <1>9, <1>10, <1>11, <1>12 DEF MemoryInv

-----------------------------------------------------------------------------
(***************************************************************************)
(* Compactions.                                                            *)
(***************************************************************************)

\* No memory was recalled more often than so.
AtMost(items, upto) == \A i \in DOMAIN items : items[i].access <= upto

\* The index and the digest cover the recalls that are counted.
Covers(items, index, digest, size, readable) ==
  /\ index.upto <= size /\ size <= Len(digest)
  /\ readable => Len(digest) = size
  /\ AtMost(items, index.upto)

\* What a compaction makes of the memories, the index and the digest it has read.
LEMMA CompactedIs ==
  ASSUME Memory!MemoryBounds, NEW items, Sound(items), NEW index \in Index,
         NEW digest \in Seq(1..MaxIds), NEW size \in Nat,
         NEW newer \in BOOLEAN, NEW readable \in BOOLEAN
  PROVE  LET counted == IF readable THEN Memory!WithRecalls(items, index, digest) ELSE items
             merged == Memory!Merged(counted, newer)
             left == Memory!Trimmed(merged)
             new == Memory!Relabelled(left, [index EXCEPT !.upto = size])
         IN  /\ Sound(new.items) /\ new.index \in Index
             /\ Stem(new.items, items)
             /\ Memory!KeysOf(new.items) = Memory!KeysOf(left)
             /\ Memory!KeysOf(merged) = Memory!KeysOf(items)
             /\ new.index.upto = size
             /\ Covers(items, index, digest, size, readable) => AtMost(new.items, size)
<1> DEFINE recalled == Memory!WithRecalls(items, index, digest)
<1> DEFINE counted == IF readable THEN recalled ELSE items
<1> DEFINE merged == Memory!Merged(counted, newer)
<1> DEFINE left == Memory!Trimmed(merged)
<1> DEFINE old == [index EXCEPT !.upto = size]
<1> DEFINE new == Memory!Relabelled(left, old)
<1> DEFINE Few == /\ index.upto <= size /\ size <= Len(digest)
                  /\ readable => Len(digest) = size
                  /\ \A i \in DOMAIN items : items[i].access <= index.upto
<1>2. digest \in Seq(Nat) /\ old \in Index /\ old.upto = size /\ index.upto \in Nat /\ Len(digest) \in Nat
  <2>2. Len(digest) \in Nat /\ digest \in Seq(Nat)
    <3>1. 1..MaxIds \subseteq Nat
      BY DEF Memory!MemoryBounds
    <3> DEFINE S == 1..MaxIds
    <3>0. digest \in Seq(S) /\ S \subseteq Nat
      BY <3>1
    <3> HIDE DEF S
    <3>2. digest \in [1..Len(digest) -> S] /\ Len(digest) \in Nat
      BY <3>0
    <3>3. digest \in [1..Len(digest) -> Nat]
      BY <3>0, <3>2
    <3> QED BY <3>2, <3>3
  <2> QED BY <2>2 DEF Index
<1> HIDE DEF old
<1>3. /\ Sound(recalled) /\ Stem(recalled, items) /\ Memory!KeysOf(recalled) = Memory!KeysOf(items)
      /\ index.upto <= Len(digest) /\ (\A i \in DOMAIN items : items[i].access <= index.upto) =>
           \A i \in DOMAIN recalled : recalled[i].access <= Len(digest)
  BY <1>2, RecallsKeep
<1> HIDE DEF recalled
<1>a. /\ Sound(counted) /\ Stem(counted, items) /\ Memory!KeysOf(counted) = Memory!KeysOf(items)
      /\ Few => \A i \in DOMAIN counted : counted[i].access <= size
  <2>1. CASE readable
    <3>1. Few => index.upto <= Len(digest) /\ Len(digest) = size
      BY <2>1
    <3> QED BY <1>3, <2>1, <3>1
  <2>2. CASE ~readable
    <3>1. Stem(items, items)
      BY DEF Stem
    <3>2. \A i \in DOMAIN items : items[i].access \in Nat
      <4>1. \A i \in DOMAIN items : items[i] \in Memory!Item
        BY DEF Sound
      <4> QED BY <4>1 DEF Memory!Item
    <3>3. Few => \A i \in DOMAIN items : items[i].access <= size
      BY <1>2, <3>2
    <3> HIDE DEF Few
    <3> QED BY <2>2, <3>1, <3>3
  <2> QED BY <2>1, <2>2
<1> HIDE DEF counted
<1>4. /\ Sound(merged) /\ Stem(merged, counted) /\ Memory!KeysOf(merged) = Memory!KeysOf(counted)
      /\ AsOften(merged, counted)
  BY <1>a, MergedHolds
<1> HIDE DEF merged
<1>5. Sound(left) /\ Stem(left, merged) /\ AsOften(left, merged)
  BY <1>4, TrimmedKeeps
<1> HIDE DEF left
<1>6. /\ Sound(new.items) /\ Stem(new.items, left) /\ Memory!KeysOf(new.items) = Memory!KeysOf(left)
      /\ AsOften(new.items, left) /\ new.index \in Index /\ new.index.upto = size
  BY <1>2, <1>5, RelabelledKeeps
<1> HIDE DEF new
<1>7. Stem(new.items, items)
  BY <1>a, <1>4, <1>5, <1>6, StemStems
<1>8. Memory!KeysOf(merged) = Memory!KeysOf(items)
  BY <1>a, <1>4
<1>9. Few => \A i \in DOMAIN new.items : new.items[i].access <= size
  BY <1>a, <1>4, <1>5, <1>6 DEF AsOften
<1>10. Covers(items, index, digest, size, readable) => AtMost(new.items, size)
  BY <1>9 DEF Covers, AtMost
<1> HIDE DEF Few
<1> QED BY <1>6, <1>7, <1>8, <1>10 DEF new, left, merged, counted, recalled, old

\* A compaction has memories in hand that are those of the file, or of those it had.
LEMMA CollectsStep ==
  ASSUME Memory!MemoryBounds, MemoryInv, NEW w \in Writers, NEW r, NEW trimmed,
         r \in Hands, r.pc \in Memory!Compacting, Sound(r.items),
         memWriter[w].pc \in {"compactRead"} \cup Memory!Compacting,
         r.id = memWriter[w].id, r.item = memWriter[w].item, r.op = memWriter[w].op,
         r.after = memWriter[w].after,
         memWriter' = [memWriter EXCEPT ![w] = r],
         memAcked' = memAcked \ trimmed,
         \A i \in DOMAIN r.items : \E b \in Known(memRecords, memWriter) :
           r.items[i].id = b.id /\ r.items[i].key = b.key,
         ~memDamaged => memAcked' \subseteq Memory!KeysOf(r.items),
         ~memDamaged => \A o \in Writers : Swaps(memWriter[o]) /\ memWriter[o].item.key \in memAcked =>
           Outlives(r.items, Memory!LiveSet(memRecords), memWriter[o]),
         CountTypes', memRecords' = memRecords, memIds' = memIds, memDamaged' = memDamaged
  PROVE  MemoryInv'
<1> DEFINE old == memWriter[w]
<1> DEFINE live == Memory!LiveSet(memRecords)
<1> DEFINE items == r.items
<1>1. /\ old \in Hands /\ old.id <= memIds /\ Handles(old)
  BY InvParts
<1>3. /\ memWriter' \in [Writers -> Hands] /\ memWriter \in [Writers -> Hands]
      /\ \A o \in Writers : memWriter'[o] = IF o = w THEN r ELSE memWriter[o]
  BY InvParts
<1>4. (Swaps(r) => Swaps(old)) /\ (Past(r) => Past(old)) /\ r.pc # "storeAppend"
  BY DEF Swaps, Past, Memory!Compacting
<1>5. Handles(r)
  BY <1>1, <1>4 DEF Handles, Memory!Compacting
<1>6. MemoryTypes'
  <2>1. memAcked' \subseteq MemKeys
    BY InvParts
  <2>2. \A o \in Writers : memWriter'[o].id <= memIds'
    BY <1>1, <1>3, InvParts
  <2> QED BY <1>3, <2>1, <2>2, InvParts DEF MemoryTypes
<1>7. (\A o \in Writers : Handles(memWriter[o]))'
  <2>1. \A o \in Writers : Handles(memWriter'[o])
    BY <1>3, <1>5, InvParts
  <2> QED BY <2>1
<1>9. ASSUME ~memDamaged' PROVE Numbered(memRecords', memWriter')
  <2>1. Range(memRecords) \subseteq Known(memRecords, memWriter) \cup {Memory!CutLine}
    BY DEF Known
  <2>2. \A a \in Range(r.items) : \E b \in Known(memRecords, memWriter) : a.id = b.id /\ a.key = b.key
    BY DEF Range
  <2>3. Numbered(memRecords, memWriter')
    BY <1>3, <1>4, <1>9, <2>1, <2>2, QuietNumbers
  <2> QED BY <2>3
<1>10. ASSUME ~memDamaged PROVE Keeps(live, memAcked', memWriter')
  <2>1. Keeps(live, memAcked, memWriter)
    BY <1>10 DEF MemoryInv
  <2>2. /\ memAcked' \subseteq Memory!KeysOf(items)
        /\ \A o \in Writers : Swaps(memWriter[o]) /\ memWriter[o].item.key \in memAcked =>
             Outlives(items, live, memWriter[o])
    BY <1>10
  <2> HIDE DEF live
  <2>3. \A o \in Writers : Swaps(memWriter'[o]) =>
          /\ Swaps(memWriter[o]) /\ memWriter'[o].item = memWriter[o].item
          /\ memWriter'[o].id = memWriter[o].id
    BY <1>3, <1>4
  <2>4. ASSUME NEW o \in Writers, Swaps(memWriter'[o]), memWriter'[o].item.key \in memAcked'
        PROVE  Beside(live, memWriter'[o]) /\ Outlives(items, live, memWriter'[o])
    <3>1. /\ Swaps(memWriter[o]) /\ memWriter'[o].item = memWriter[o].item
          /\ memWriter'[o].id = memWriter[o].id /\ memWriter[o].item.key \in memAcked
      BY <2>3, <2>4
    <3>2. Beside(live, memWriter[o])
      BY <2>1, <3>1 DEF Keeps
    <3>5. Outlives(items, live, memWriter[o])
      BY <2>2, <3>1
    <3> QED BY <3>1, <3>2, <3>5 DEF Beside, Outlives, Twice
  <2>5. ASSUME NEW o \in Writers, Swaps(memWriter'[o]), memWriter'[o].item.key \in memAcked',
               NEW p \in Writers, memWriter'[p].pc \in Memory!Compacting
        PROVE  Outlives(memWriter'[p].items, live, memWriter'[o])
    <3>1. CASE p = w
      BY <1>3, <2>4, <2>5, <3>1
    <3>2. CASE p # w
      <4>1. memWriter'[p] = memWriter[p]
        BY <1>3, <3>2
      <4>2. Outlives(memWriter[p].items, live, memWriter[o])
        <5>1. Swaps(memWriter[o]) /\ memWriter[o].item.key \in memAcked
          BY <2>3, <2>5
        <5>2. memWriter[p].pc \in Memory!Compacting
          BY <2>5, <4>1
        <5> QED BY <2>1, <5>1, <5>2 DEF Keeps
      <4> QED BY <2>3, <2>5, <4>1, <4>2 DEF Outlives, Twice
    <3> QED BY <3>1, <3>2
  <2>6. \A o \in Writers : memWriter'[o].pc \in Memory!Compacting =>
          memAcked' \subseteq Memory!KeysOf(memWriter'[o].items)
    BY <1>3, <2>1, <2>2 DEF Keeps
  <2>7. memAcked' \subseteq {a.key : a \in live}
    BY <2>1 DEF Keeps
  <2> QED BY <2>4, <2>5, <2>6, <2>7 DEF Keeps
<1> QED BY <1>6, <1>7, <1>9, <1>10 DEF MemoryInv

LEMMA CompactReadStep ==
  ASSUME Memory!MemoryBounds, MemoryInv, NEW w \in Writers, Memory!CompactRead(w) PROVE MemoryInv'
<1> DEFINE old == memWriter[w]
<1> DEFINE items == Memory!Live(memRecords)
<1> DEFINE live == Memory!LiveSet(memRecords)
<1> DEFINE r == [old EXCEPT !.pc = "compactIndex", !.items = items]
<1>0. /\ CountTypes' /\ memRecords' = memRecords /\ memIds' = memIds /\ memAcked' = memAcked
      /\ memDamaged' = memDamaged /\ old.pc = "compactRead"
      /\ memWriter' = [memWriter EXCEPT ![w] = r]
  BY InvParts DEF Memory!CompactRead, Memory!files, Memory!ids, Memory!history, CountTypes, Memory!At,
     Memory!Becomes
<1>1. old \in Hands
  BY InvParts
<1>2. Sound(items) /\ Memory!KeysOf(items) = Memory!LiveKeys(memRecords)
  BY LiveSound, InvParts
<1>3. \A i \in DOMAIN items : items[i] \in live
  BY DEF Memory!LiveSet
<1> HIDE DEF items
<1>4. /\ r \in Hands /\ r.pc = "compactIndex" /\ r.items = items /\ r.id = old.id
      /\ r.item = old.item /\ r.op = old.op /\ r.after = old.after
  BY <1>1, <1>2 DEF Hands, Places, Sound
<1> HIDE DEF r
<1>5. \A i \in DOMAIN r.items : \E b \in Known(memRecords, memWriter) :
        r.items[i].id = b.id /\ r.items[i].key = b.key
  BY <1>3, <1>4, InvParts
<1>6. ASSUME ~memDamaged
      PROVE  /\ memAcked \subseteq Memory!KeysOf(r.items)
             /\ \A o \in Writers : Outlives(r.items, live, memWriter[o])
  <2>1. memAcked \subseteq Memory!LiveKeys(memRecords)
    BY <1>6 DEF MemoryInv, Keeps, Memory!LiveKeys
  <2>2. \A o \in Writers : Outlives(r.items, live, memWriter[o])
    BY <1>3, <1>4 DEF Outlives, Twice
  <2> QED BY <1>2, <1>4, <2>1, <2>2
<1>7. memAcked' = memAcked \ {}
  BY <1>0
<1> QED BY <1>0, <1>2, <1>4, <1>5, <1>6, <1>7, CollectsStep DEF Memory!Compacting

\* A compaction goes on with the memories it has.
LEMMA GoesOnStep ==
  ASSUME Memory!MemoryBounds, MemoryInv, NEW w \in Writers, NEW r,
         memWriter[w].pc \in Memory!Compacting, r \in Hands, r.pc \in Memory!Compacting,
         r.items = memWriter[w].items, r.id = memWriter[w].id, r.item = memWriter[w].item,
         r.op = memWriter[w].op, r.after = memWriter[w].after,
         memWriter' = [memWriter EXCEPT ![w] = r],
         CountTypes', memRecords' = memRecords, memIds' = memIds, memAcked' = memAcked,
         memDamaged' = memDamaged
  PROVE  MemoryInv'
<1> DEFINE old == memWriter[w]
<1>1. /\ old \in Hands /\ Handles(old) /\ old.id <= memIds
      /\ \A a \in Range(old.items) : a \in Known(memRecords, memWriter)
  BY InvParts
<1>2. (Swaps(r) => Swaps(old)) /\ (Past(r) => Past(old)) /\ r.pc # "storeAppend"
  BY DEF Swaps, Past, Memory!Compacting
<1>3. Handles(r)
  BY <1>1, <1>2 DEF Handles, Memory!Compacting
<1>4. Aside(w, r)
  BY <1>1, <1>2, <1>3 DEF Aside
<1> QED BY <1>4, QuietStep

LEMMA CompactIndexStep ==
  ASSUME Memory!MemoryBounds, MemoryInv, NEW w \in Writers, Memory!CompactIndex(w) PROVE MemoryInv'
<1> DEFINE old == memWriter[w]
<1>0. /\ memRecords' = memRecords /\ memIds' = memIds /\ memAcked' = memAcked
      /\ memDamaged' = memDamaged /\ old.pc = "compactIndex" /\ memChanges' = memChanges
      /\ memOpsLeft' = memOpsLeft /\ memIdsRepeat' = memIdsRepeat
      /\ UNCHANGED Memory!files /\ UNCHANGED Memory!ids
  BY DEF Memory!CompactIndex, Memory!files, Memory!ids, Memory!At
<1>1. CASE Memory!CannotParse(w)
  BY <1>0, <1>1, CannotParseStep
<1>2. ASSUME NEW index, Memory!OpensIndex(index),
             Memory!Becomes(w, [old EXCEPT !.pc = "compactSize", !.index = index])
      PROVE  MemoryInv'
  <2> DEFINE r == [old EXCEPT !.pc = "compactSize", !.index = index]
  <2>0. index \in Index /\ CountTypes'
    <3>1. /\ index \in Index /\ memCutsLeft' \in Nat /\ memStale' \in BOOLEAN /\ memRecounted' \in BOOLEAN
      BY <1>2, OpensIs
    <3> QED BY <1>0, <3>1, InvParts DEF CountTypes, Memory!files
  <2>1. memWriter' = [memWriter EXCEPT ![w] = r] /\ old \in Hands
    BY <1>2, InvParts DEF Memory!Becomes
  <2>2. /\ r \in Hands /\ r.pc = "compactSize" /\ r.items = old.items /\ r.id = old.id
        /\ r.item = old.item /\ r.op = old.op /\ r.after = old.after
    BY <2>0, <2>1 DEF Hands, Places
  <2> HIDE DEF r
  <2>3. old.pc \in Memory!Compacting /\ r.pc \in Memory!Compacting
    BY <1>0, <2>2 DEF Memory!Compacting
  <2> QED BY <1>0, <2>0, <2>1, <2>2, <2>3, GoesOnStep
<1> QED BY <1>1, <1>2 DEF Memory!CompactIndex

LEMMA CompactSizeStep ==
  ASSUME Memory!MemoryBounds, MemoryInv, NEW w \in Writers, Memory!CompactSize(w) PROVE MemoryInv'
<1> DEFINE old == memWriter[w]
<1> DEFINE r == [old EXCEPT !.pc = "compactDigest", !.size = Len(memDigest)]
<1>0. /\ CountTypes' /\ memRecords' = memRecords /\ memIds' = memIds /\ memAcked' = memAcked
      /\ memDamaged' = memDamaged /\ old.pc = "compactSize"
      /\ memWriter' = [memWriter EXCEPT ![w] = r]
  BY InvParts DEF Memory!CompactSize, Memory!files, Memory!ids, Memory!history, CountTypes, Memory!At,
     Memory!Becomes
<1>1. old \in Hands /\ Len(memDigest) \in Nat
  <2> DEFINE S == 1..MaxIds
  <2>1. memDigest \in Seq(S)
    BY InvParts
  <2> HIDE DEF S
  <2> QED BY <2>1, InvParts
<1>2. /\ r \in Hands /\ r.pc = "compactDigest" /\ r.items = old.items /\ r.id = old.id
      /\ r.item = old.item /\ r.op = old.op /\ r.after = old.after
  BY <1>1 DEF Hands, Places
<1> HIDE DEF r
<1>3. old.pc \in Memory!Compacting /\ r.pc \in Memory!Compacting
  BY <1>0, <1>2 DEF Memory!Compacting
<1> QED BY <1>0, <1>2, <1>3, GoesOnStep

LEMMA CompactDigestStep ==
  ASSUME Memory!MemoryBounds, MemoryInv, NEW w \in Writers, Memory!CompactDigest(w) PROVE MemoryInv'
<1> DEFINE old == memWriter[w]
<1> DEFINE live == Memory!LiveSet(memRecords)
<1>0. /\ CountTypes' /\ memRecords' = memRecords /\ memIds' = memIds
      /\ memDamaged' = memDamaged /\ old.pc = "compactDigest"
  <2>1. memRecounted' \in BOOLEAN
    BY InvParts DEF Memory!CompactDigest, CountTypes
  <2> QED BY <2>1, InvParts DEF Memory!CompactDigest, Memory!files, Memory!ids, CountTypes, Memory!At
<1>1. old \in Hands /\ Handles(old) /\ Sound(old.items) /\ old.index \in Index /\ old.size \in Nat
      /\ memDigest \in Seq(1..MaxIds)
      /\ \A a \in Range(old.items) : a \in Known(memRecords, memWriter)
  BY <1>0, InvParts DEF Handles, Hands, Memory!Compacting
<1>2. PICK newer \in BOOLEAN, readable \in BOOLEAN :
        LET counted == IF readable THEN Memory!WithRecalls(old.items, old.index, memDigest) ELSE old.items
            merged == Memory!Merged(counted, newer)
            left == Memory!Trimmed(merged)
            new == Memory!Relabelled(left, [old.index EXCEPT !.upto = old.size])
        IN  /\ Memory!Becomes(w, [old EXCEPT !.pc = "compactWrite", !.items = new.items,
                                             !.index = new.index, !.size = 0])
            /\ memAcked' = memAcked \ (Memory!KeysOf(merged) \ Memory!KeysOf(left))
  BY DEF Memory!CompactDigest
<1> DEFINE counted == IF readable THEN Memory!WithRecalls(old.items, old.index, memDigest) ELSE old.items
<1> DEFINE merged == Memory!Merged(counted, newer)
<1> DEFINE left == Memory!Trimmed(merged)
<1> DEFINE new == Memory!Relabelled(left, [old.index EXCEPT !.upto = old.size])
<1> DEFINE trimmed == Memory!KeysOf(merged) \ Memory!KeysOf(left)
<1> DEFINE r == [old EXCEPT !.pc = "compactWrite", !.items = new.items, !.index = new.index, !.size = 0]
<1>3. /\ Sound(new.items) /\ new.index \in Index
      /\ Stem(new.items, old.items)
      /\ Memory!KeysOf(new.items) = Memory!KeysOf(left)
      /\ Memory!KeysOf(merged) = Memory!KeysOf(old.items)
  BY <1>1, CompactedIs
<1>4. memWriter' = [memWriter EXCEPT ![w] = r] /\ memAcked' = memAcked \ trimmed
  BY <1>2 DEF Memory!Becomes
<1> HIDE DEF counted, merged, left, new
<1>5. /\ r \in Hands /\ r.pc = "compactWrite" /\ r.items = new.items /\ r.id = old.id
      /\ r.item = old.item /\ r.op = old.op /\ r.after = old.after
  <2>1. new.items \in Seq(Memory!Item)
    BY <1>3 DEF Sound
  <2> QED BY <1>1, <1>3, <2>1 DEF Hands, Places
<1> HIDE DEF r
<1>6. Memory!KeysOf(old.items) \ trimmed \subseteq Memory!KeysOf(r.items)
  BY <1>3, <1>5
<1>7. \A i \in DOMAIN r.items : \E j \in DOMAIN old.items :
        r.items[i].id = old.items[j].id /\ r.items[i].key = old.items[j].key
  BY <1>3, <1>5 DEF Stem
<1> HIDE DEF trimmed
<1>8. \A i \in DOMAIN r.items : \E b \in Known(memRecords, memWriter) :
        r.items[i].id = b.id /\ r.items[i].key = b.key
  BY <1>1, <1>7 DEF Range
<1>9. ASSUME ~memDamaged
      PROVE  /\ memAcked' \subseteq Memory!KeysOf(r.items)
             /\ \A o \in Writers : Swaps(memWriter[o]) /\ memWriter[o].item.key \in memAcked =>
                  Outlives(r.items, live, memWriter[o])
  <2>1. Keeps(live, memAcked, memWriter)
    BY <1>9 DEF MemoryInv
  <2> HIDE DEF live
  <2>2. /\ memAcked \subseteq Memory!KeysOf(old.items)
        /\ \A o \in Writers : Swaps(memWriter[o]) /\ memWriter[o].item.key \in memAcked =>
             Outlives(old.items, live, memWriter[o])
    BY <1>0, <2>1 DEF Keeps, Memory!Compacting
  <2>3. memAcked' \subseteq Memory!KeysOf(r.items)
    BY <1>4, <1>6, <2>2
  <2>4. ASSUME NEW o \in Writers, Outlives(old.items, live, memWriter[o])
        PROVE  Outlives(r.items, live, memWriter[o])
    BY <1>7, <2>4 DEF Outlives
  <2> QED BY <2>2, <2>3, <2>4
<1> QED BY <1>0, <1>3, <1>4, <1>5, <1>8, <1>9, CollectsStep DEF Memory!Compacting

LEMMA CompactWriteStep ==
  ASSUME Memory!MemoryBounds, MemoryInv, NEW w \in Writers, Memory!CompactWrite(w) PROVE MemoryInv'
<1> DEFINE old == memWriter[w]
<1> DEFINE r == [old EXCEPT !.pc = "compactSave"]
<1>0. /\ memRecords' = Memory!Written(old.items)
      /\ memDamaged' = (memDamaged \/ memRecords' # old.items \/ \E o \in Writers : Memory!Doubled(o))
      /\ memWriter' = [memWriter EXCEPT ![w] = r]
      /\ memAcked' = memAcked /\ memIds' = memIds /\ old.pc = "compactWrite"
  BY DEF Memory!CompactWrite, Memory!Goto, Memory!Becomes, Memory!At, Memory!ids
<1>1. /\ old \in Hands /\ Handles(old) /\ old.id <= memIds /\ Sound(old.items)
  BY <1>0, InvParts DEF Handles, Memory!Compacting
<1>2. old.items \in Seq(Memory!Item)
  BY <1>1 DEF Sound
<1>3. CountTypes'
  BY InvParts DEF Memory!CompactWrite, Memory!ids, CountTypes
<1>4. /\ r \in Hands /\ r.pc = "compactSave" /\ r.item = old.item /\ r.id = old.id
      /\ r.op = old.op /\ r.items = old.items /\ r.after = old.after
  BY <1>1 DEF Hands, Places
<1> HIDE DEF r
<1>5. (Swaps(r) => Swaps(old)) /\ (Past(r) => Past(old))
  BY <1>0, <1>4 DEF Swaps, Past, Memory!Compacting
<1>6. Handles(r) /\ r.pc \notin Memory!Compacting
  BY <1>1, <1>4, <1>5 DEF Handles, Memory!Compacting
<1>7. memRecords' \in Seq(Memory!Lines) /\ Range(memRecords') \subseteq Range(old.items) \cup {Memory!CutLine}
  BY <1>0, <1>2, WrittenIs
<1>8. /\ memWriter' \in [Writers -> Hands] /\ memWriter \in [Writers -> Hands]
      /\ \A o \in Writers : memWriter'[o] = IF o = w THEN r ELSE memWriter[o]
  BY <1>0, <1>4, InvParts
<1>9. MemoryTypes'
  <2>1. \A o \in Writers : memWriter'[o].id <= memIds'
    BY <1>0, <1>1, <1>4, <1>8, InvParts
  <2> QED BY <1>0, <1>3, <1>7, <1>8, <2>1, InvParts DEF MemoryTypes
<1>10. (\A o \in Writers : Handles(memWriter[o]))'
  <2>1. \A o \in Writers : Handles(memWriter'[o])
    BY <1>6, <1>8, InvParts
  <2> QED BY <2>1
<1>11. ASSUME ~memDamaged' PROVE Numbered(memRecords', memWriter')
  <2>1. Range(memRecords') \subseteq Known(memRecords, memWriter) \cup {Memory!CutLine}
    BY <1>7, InvParts
  <2>2. \A a \in Range(r.items) : a \in Known(memRecords, memWriter)
    BY <1>4, InvParts
  <2>4. ~memDamaged
    BY <1>0, <1>11, InvParts DEF CountTypes
  <2>3. Numbered(memRecords', memWriter')
    BY <1>0, <1>1, <1>4, <1>5, <2>1, <2>2, <2>4, QuietNumbers
  <2> QED BY <2>3
<1>12. ASSUME ~memDamaged' PROVE Keeps(Memory!LiveSet(memRecords'), memAcked', memWriter')
  <2> DEFINE live == Memory!LiveSet(memRecords)
  <2> DEFINE new == Memory!LiveSet(memRecords')
  <2>1. ~memDamaged /\ memRecords' = old.items /\ \A o \in Writers : ~Memory!Doubled(o)
    BY <1>0, <1>12, InvParts DEF CountTypes
  <2>2. Keeps(live, memAcked, memWriter)
    BY <2>1 DEF MemoryInv
  <2>3. new = {old.items[i] : i \in DOMAIN old.items}
    BY <1>1, <2>1, SoundLives
  <2>4. \A o \in Writers : Swaps(memWriter[o]) => ~Twice(live, memWriter[o])
    <3> SUFFICES ASSUME NEW o \in Writers, Swaps(memWriter[o]), Twice(live, memWriter[o])
                 PROVE  FALSE
      OBVIOUS
    <3>1. PICK a \in live : a.key = memWriter[o].item.key /\ a.id = memWriter[o].id
      BY DEF Twice
    <3>2. Memory!Stored(memWriter[o].id) = a /\ Memory!IsLive(memWriter[o].id)
      <4>1. \A b \in live : b.id = memWriter[o].id => b = a
        BY <3>1, InvParts
      <4> QED BY <3>1, <4>1 DEF Memory!Stored, Memory!IsLive
    <3>3. Memory!Replacing(o)
      BY DEF Memory!Replacing, Memory!Updating, Swaps
    <3> QED BY <2>1, <3>1, <3>2, <3>3 DEF Memory!Doubled
  <2> HIDE DEF live, new
  <2>5. memAcked' \subseteq {a.key : a \in new}
    <3>1. memAcked \subseteq Memory!KeysOf(old.items)
      BY <1>0, <2>2 DEF Keeps, Memory!Compacting
    <3> QED BY <1>0, <2>3, <3>1 DEF Memory!KeysOf
  <2>6. \A o \in Writers : memWriter'[o].pc \in Memory!Compacting =>
          memWriter[o].pc \in Memory!Compacting /\ memWriter'[o] = memWriter[o]
    BY <1>6, <1>8
  <2>7. \A o \in Writers : memWriter'[o].pc \in Memory!Compacting =>
          memAcked' \subseteq Memory!KeysOf(memWriter'[o].items)
    BY <1>0, <2>2, <2>6 DEF Keeps
  <2>8. \A o \in Writers : Swaps(memWriter'[o]) =>
          /\ Swaps(memWriter[o]) /\ memWriter'[o].item = memWriter[o].item
          /\ memWriter'[o].id = memWriter[o].id
    BY <1>4, <1>5, <1>8
  <2>9. ASSUME NEW o \in Writers, Swaps(memWriter[o]), memWriter[o].item.key \in memAcked,
               NEW p \in Writers, memWriter[p].pc \in Memory!Compacting
        PROVE  \A i \in DOMAIN memWriter[p].items :
                 memWriter[p].items[i].key = memWriter[o].item.key =>
                   memWriter[p].items[i].id # memWriter[o].id
    BY <2>2, <2>4, <2>9 DEF Keeps, Outlives
  <2>10. ASSUME NEW o \in Writers, Swaps(memWriter'[o]), memWriter'[o].item.key \in memAcked'
         PROVE  /\ Beside(new, memWriter'[o])
                /\ \A p \in Writers : memWriter'[p].pc \in Memory!Compacting =>
                     Outlives(memWriter'[p].items, new, memWriter'[o])
    <3>1. /\ Swaps(memWriter[o]) /\ memWriter'[o].item = memWriter[o].item
          /\ memWriter'[o].id = memWriter[o].id /\ memWriter[o].item.key \in memAcked
      BY <1>0, <2>8, <2>10
    <3>2. Beside(new, memWriter'[o])
      <4>1. memWriter[w].pc \in Memory!Compacting
        BY <1>0 DEF Memory!Compacting
      <4>2. PICK i \in DOMAIN old.items : old.items[i].key = memWriter[o].item.key
        BY <2>2, <3>1, <4>1 DEF Keeps, Memory!KeysOf
      <4>3. old.items[i].id # memWriter[o].id
        BY <2>9, <3>1, <4>1, <4>2
      <4> QED BY <2>3, <3>1, <4>2, <4>3 DEF Beside
    <3>3. ASSUME NEW p \in Writers, memWriter'[p].pc \in Memory!Compacting
          PROVE  Outlives(memWriter'[p].items, new, memWriter'[o])
      BY <2>6, <2>9, <3>1, <3>3 DEF Outlives
    <3> QED BY <3>2, <3>3
  <2>11. Keeps(new, memAcked', memWriter')
    BY <2>5, <2>7, <2>10 DEF Keeps
  <2> QED BY <2>11 DEF new
<1> QED BY <1>9, <1>10, <1>11, <1>12 DEF MemoryInv


-----------------------------------------------------------------------------
(***************************************************************************)
(* Recalls, power failures and the start.                                  *)
(***************************************************************************)

LEMMA RecallStep ==
  ASSUME Memory!MemoryBounds, MemoryInv, Memory!Recall PROVE MemoryInv'
<1>1. /\ memRecords' = memRecords /\ memWriter' = memWriter /\ memIds' = memIds
      /\ memAcked' = memAcked /\ memDamaged' = memDamaged
  BY DEF Memory!Recall, Memory!ids, Memory!history
<1>2. PICK S, digest : /\ S \in SUBSET DOMAIN Memory!Live(memRecords)
                       /\ digest = Memory!Picked(Memory!Live(memRecords), S)
                       /\ memDigest' = memDigest \o [i \in DOMAIN digest |-> digest[i].id]
  <2> DEFINE live == Memory!Live(memRecords)
  <2> DEFINE Of(l) == {i \in DOMAIN live : live[i].sid = memIndex.sums[l].id}
  <2>1. PICK l \in Labels :
          memDigest' = memDigest \o [i \in DOMAIN Memory!Picked(live, Of(l)) |-> Memory!Picked(live, Of(l))[i].id]
    BY DEF Memory!Recall
  <2>2. Of(l) \in SUBSET DOMAIN live
    OBVIOUS
  <2> HIDE DEF live, Of
  <2> QED BY <2>1, <2>2 DEF live
<1>3. digest \in Seq(Memory!Item)
  <2>1. Memory!Live(memRecords) \in Seq(Memory!Item)
    BY LiveIs, InvParts
  <2> QED BY <1>2, <2>1, PickedIs, PicksAlike
<1>4. memDigest' \in Seq(1..MaxIds)
  <2> DEFINE ids == [i \in DOMAIN digest |-> digest[i].id]
  <2>1. DOMAIN digest = 1..Len(digest) /\ Len(digest) \in Nat /\ \A i \in DOMAIN digest : digest[i] \in Memory!Item
    BY <1>3
  <2>2. \A a \in Memory!Item : a.id \in 1..MaxIds
    BY DEF Memory!Item
  <2>3. ids \in [1..Len(digest) -> 1..MaxIds]
    BY <2>1, <2>2
  <2>4. ids \in Seq(1..MaxIds)
    BY <2>1, <2>3
  <2> HIDE DEF ids
  <2>5. memDigest \o ids \in Seq(1..MaxIds)
    BY <2>4, InvParts
  <2> QED BY <1>2, <2>5 DEF ids
<1>5. CountTypes'
  BY <1>4, InvParts DEF Memory!Recall, Memory!ids, Memory!history, CountTypes
<1>6. MemoryInv' <=> (MemoryTypes' /\ MemoryInv)
  BY <1>1 DEF MemoryInv, MemoryTypes
<1>7. MemoryTypes'
  BY <1>1, <1>5 DEF MemoryInv, MemoryTypes
<1> QED BY <1>6, <1>7

LEMMA PowerCutStep ==
  ASSUME Memory!MemoryBounds, MemoryInv, Memory!PowerCut PROVE MemoryInv'
<1> DEFINE boot == [Memory!Resting EXCEPT !.pc = "compactRead", !.op = "boot"]
<1>1. /\ memIds' = memIds /\ memAcked' = memAcked
      /\ \E w \in Writers : memWriter' = [o \in Writers |-> IF o = w THEN boot ELSE Memory!Resting]
  BY DEF Memory!PowerCut
<1>2. /\ boot \in Hands /\ Handles(boot) /\ ~Past(boot) /\ ~Swaps(boot)
      /\ boot.id = 0 /\ boot.items = <<>> /\ boot.pc = "compactRead"
  <2>1. /\ boot \in Hands /\ boot.op = "boot" /\ boot.pc = "compactRead"
        /\ boot.id = 0 /\ boot.items = <<>>
    BY RestingIs DEF Hands, Places, Ops
  <2> HIDE DEF boot
  <2> QED BY <2>1 DEF Handles, Past, Swaps, Memory!Compacting
<1> HIDE DEF boot
<1>3. /\ memWriter' \in [Writers -> Hands]
      /\ \A o \in Writers : /\ Handles(memWriter'[o]) /\ ~Past(memWriter'[o]) /\ ~Swaps(memWriter'[o])
                            /\ memWriter'[o].id = 0 /\ memWriter'[o].items = <<>>
                            /\ memWriter'[o].pc \in {"idle", "compactRead"}
  BY <1>1, <1>2, RestingIs
<1>4. /\ memRecords' \in Seq(Memory!Lines) /\ Range(memRecords') \subseteq Known(memRecords, memWriter) \cup {Memory!CutLine}
      /\ ~memDamaged' => ~memDamaged /\ Memory!LiveSet(memRecords') = Memory!LiveSet(memRecords)
  <2>0. memRecords \in Seq(Memory!Lines) /\ Range(memRecords) \subseteq Known(memRecords, memWriter) \cup {Memory!CutLine}
    BY InvParts DEF Known
  <2>1. CASE memRecords' = memRecords /\ memDamaged' = memDamaged
    BY <2>0, <2>1
  <2>2. CASE memRecords' = Memory!WithLine(memRecords, Memory!CutLine) /\ memDamaged' = memDamaged
    BY <2>0, <2>2, CutLineKeeps
  <2>3. ASSUME NEW w \in Writers, NEW n \in 0 .. Len(memWriter[w].items) - 1,
               memRecords' = SubSeq(memWriter[w].items, 1, n) \o <<Memory!CutLine>>, memDamaged'
        PROVE  /\ memRecords' \in Seq(Memory!Lines)
               /\ Range(memRecords') \subseteq Known(memRecords, memWriter) \cup {Memory!CutLine}
               /\ ~memDamaged' => ~memDamaged /\ Memory!LiveSet(memRecords') = Memory!LiveSet(memRecords)
    <3>1. memWriter[w].items \in Seq(Memory!Item) /\ n \in 0..Len(memWriter[w].items)
      <4>1. memWriter[w].items \in Seq(Memory!Item)
        BY InvParts DEF Hands
      <4>2. Len(memWriter[w].items) \in Nat
        BY <4>1
      <4> QED BY <2>3, <4>1, <4>2
    <3>2. /\ memRecords' \in Seq(Memory!Lines)
          /\ Range(memRecords') \subseteq Range(memWriter[w].items) \cup {Memory!CutLine}
      BY <2>3, <3>1, BrokenOff
    <3>3. Range(memWriter[w].items) \subseteq Known(memRecords, memWriter)
      BY InvParts
    <3> QED BY <2>3, <3>2, <3>3
  <2> QED BY <2>1, <2>2, <2>3 DEF Memory!PowerCut
<1>5. CountTypes'
  <2>1. memIndex' \in Index
    BY IndexesAre, InvParts DEF Memory!PowerCut
  <2>2. memDamaged' \in BOOLEAN
    BY InvParts DEF Memory!PowerCut, CountTypes
  <2>3. memRecounted' \in BOOLEAN
    <3>1. CASE memRecounted' = (memRecounted \/ \E w \in Writers : Memory!At(w, "compactSave"))
      BY <3>1, Zenon
    <3>2. CASE memRecounted' = TRUE
      BY <3>2
    <3> QED BY <3>1, <3>2 DEF Memory!PowerCut
  <2>4. /\ memDigest' = memDigest /\ memChanges' = 0 /\ memOpsLeft' = memOpsLeft
        /\ memCutsLeft' \in Nat /\ memStale' = TRUE /\ memIdsRepeat' = TRUE
    BY InvParts DEF Memory!PowerCut, Memory!Faulty, CountTypes
  <2> QED BY <2>1, <2>2, <2>3, <2>4, InvParts DEF CountTypes
<1>6. MemoryTypes'
  <2>1. \A o \in Writers : memWriter'[o].id <= memIds'
    BY <1>1, <1>3, InvParts
  <2> QED BY <1>1, <1>3, <1>4, <1>5, <2>1, InvParts DEF MemoryTypes
<1>7. (\A o \in Writers : Handles(memWriter[o]))'
  <2>1. \A o \in Writers : Handles(memWriter'[o])
    BY <1>3
  <2> QED BY <2>1
<1>8. ASSUME ~memDamaged' PROVE Numbered(memRecords', memWriter')
  <2>1. Known(memRecords', memWriter') \subseteq Known(memRecords, memWriter)
    <3>1. \A o \in Writers : Range(memWriter'[o].items) = {}
      BY <1>3 DEF Range
    <3> QED BY <1>4, <3>1 DEF Known
  <2>3. Copies(memRecords, memWriter, memRecords', memWriter')
    BY <1>3, <2>1 DEF Copies
  <2>4. Numbered(memRecords, memWriter)
    BY <1>4, <1>8 DEF MemoryInv
  <2> QED BY <2>3, <2>4, NumbersStay
<1>9. ASSUME ~memDamaged' PROVE Keeps(Memory!LiveSet(memRecords'), memAcked', memWriter')
  <2>1. Keeps(Memory!LiveSet(memRecords), memAcked, memWriter) /\ Memory!LiveSet(memRecords') = Memory!LiveSet(memRecords)
    BY <1>4, <1>9 DEF MemoryInv
  <2> QED BY <1>1, <1>3, <2>1 DEF Keeps, Memory!Compacting
<1> QED BY <1>6, <1>7, <1>8, <1>9 DEF MemoryInv

LEMMA StartsSound == ASSUME Memory!MemoryBounds, Memory!Init PROVE MemoryInv
<1>1. /\ memWriter = [w \in Writers |-> Memory!Resting] /\ memDigest = <<>>
      /\ memCutsLeft \in Nat /\ memIdsRepeat \in BOOLEAN /\ memOpsLeft = MaxMemOps - memIds
      /\ MaxMemOps \in Nat \ {0}
      /\ memDamaged \in BOOLEAN /\ memStale \in BOOLEAN /\ memRecounted \in BOOLEAN
  BY DEF Memory!Init, Memory!MemoryBounds
<1>2. /\ memWriter \in [Writers -> Hands]
      /\ \A o \in Writers : /\ Handles(memWriter[o]) /\ ~Past(memWriter[o]) /\ ~Swaps(memWriter[o])
                            /\ memWriter[o].id = 0 /\ memWriter[o].items = <<>>
                            /\ memWriter[o].pc = "idle"
  BY <1>1, RestingIs
<1>3. Known(memRecords, memWriter) = Range(memRecords) \ {Memory!CutLine}
  <2>1. \A o \in Writers : Range(memWriter[o].items) = {}
    BY <1>2 DEF Range
  <2> QED BY <2>1 DEF Known
<1>4. /\ memRecords \in Seq(Memory!Lines) /\ memIndex \in Index /\ memChanges \in Nat
      /\ memIds \in 0..MaxIds /\ memIds \in Nat /\ memAcked \subseteq MemKeys
      /\ \A a, b \in Range(memRecords) : a = b
      /\ memIds \in {0, 1}
      /\ memAcked \subseteq {a.key : a \in Memory!LiveSet(memRecords)}
  <2>1. CASE memRecords = <<>> /\ memIndex = Memory!NewIndex /\ memChanges = 0 /\ memIds = 0 /\ memAcked = {}
    <3>1. Range(memRecords) = {} /\ memRecords \in Seq(Memory!Lines)
      BY <2>1 DEF Range
    <3>2. MaxIds \in Nat /\ Memory!NewIndex \in Index
      <4>1. Memory!NewIndex \in Index
        BY IndexesAre
      <4> QED BY <4>1 DEF Memory!MemoryBounds
    <3> QED BY <2>1, <3>1, <3>2
  <2>2. ASSUME NEW k \in MemKeys, NEW l \in Labels,
               memRecords = <<[id |-> 1, key |-> k, label |-> l, sid |-> 1, live |-> TRUE, access |-> 0]>>,
               memIndex = [Memory!NewIndex EXCEPT !.sums[l] = [id |-> 1, refs |-> 1], !.next = 2],
               memChanges = 1, memIds = 1, memAcked = {k}
        PROVE  /\ memRecords \in Seq(Memory!Lines) /\ memIndex \in Index /\ memChanges \in Nat
               /\ memIds \in 0..MaxIds /\ memIds \in Nat /\ memAcked \subseteq MemKeys
               /\ \A a, b \in Range(memRecords) : a = b
               /\ memIds \in {0, 1}
               /\ memAcked \subseteq {a.key : a \in Memory!LiveSet(memRecords)}
    <3> DEFINE a == [id |-> 1, key |-> k, label |-> l, sid |-> 1, live |-> TRUE, access |-> 0]
    <3>1. 1 \in 1..MaxIds /\ 1 \in 0..MaxIds
      BY DEF Memory!MemoryBounds
    <3>2. a \in Memory!Item /\ a.id = 1 /\ a.key = k /\ a.live /\ a # Memory!CutLine /\ memRecords = <<a>>
      <4>1. a \in Memory!Item /\ a.id = 1 /\ a.key = k /\ a.live /\ memRecords = <<a>>
        BY <2>2, <3>1 DEF Memory!Item
      <4> HIDE DEF a
      <4> QED BY <4>1, LinesApart
    <3> HIDE DEF a
    <3>3. /\ memRecords \in Seq(Memory!Lines) /\ Range(memRecords) = {a} /\ DOMAIN memRecords = {1}
          /\ memRecords[1] = a /\ Len(memRecords) = 1
      BY <3>2 DEF Memory!Lines, Range
    <3>4. memIndex \in Index
      <4>1. Memory!NewIndex \in Index
        BY IndexesAre
      <4> QED BY <2>2, <4>1 DEF Index
    <3>5. a \in Memory!LiveSet(memRecords)
      <4>1. Memory!IsLast(memRecords, 1)
        BY <3>2, <3>3 DEF Memory!IsLast
      <4> QED BY <3>2, <3>3, <4>1, LiveSetIs
    <3>6. \A x \in memAcked : \E b \in Memory!LiveSet(memRecords) : b.key = x
      BY <2>2, <3>2, <3>5
    <3>7. \A b \in Range(memRecords) : b = a
      BY <3>3
    <3>8. memIds = 1 /\ memChanges = 1 /\ memAcked = {k}
      BY <2>2
    <3>9. \A b, c \in Range(memRecords) : b = c
      BY <3>7
    <3>10. memAcked \subseteq {b.key : b \in Memory!LiveSet(memRecords)}
      BY <3>6
    <3>11. memIds \in 0..MaxIds /\ memIds \in Nat /\ memIds \in {0, 1} /\ memAcked \subseteq MemKeys /\ memChanges \in Nat
      BY <3>1, <3>8
    <3> QED BY <3>3, <3>4, <3>9, <3>10, <3>11
  <2>3. (CHOOSE l \in Labels : TRUE) \in Labels
    BY DEF Memory!MemoryBounds
  <2> QED BY <2>1, <2>2, <2>3 DEF Memory!Init
<1>5. MemoryTypes
  <2>1. memOpsLeft \in Nat
    BY <1>1, <1>4
  <2>2. \A w \in Writers : memWriter[w].id <= memIds
    BY <1>2, <1>4
  <2> QED BY <1>1, <1>2, <1>4, <2>1, <2>2 DEF MemoryTypes, CountTypes
<1>6. Numbered(memRecords, memWriter)
  BY <1>2, <1>3, <1>4 DEF Numbered
<1>7. Keeps(Memory!LiveSet(memRecords), memAcked, memWriter)
  BY <1>2, <1>4 DEF Keeps, Memory!Compacting
<1> QED BY <1>2, <1>5, <1>6, <1>7 DEF MemoryInv

LEMMA StepsSound == ASSUME Memory!MemoryBounds, MemoryInv, [Memory!Next]_(Memory!memVars) PROVE MemoryInv'
<1>1. CASE UNCHANGED Memory!memVars
  BY <1>1 DEF Memory!memVars, MemoryInv, MemoryTypes, CountTypes
<1>2. CASE Memory!Recall
  BY <1>2, RecallStep
<1>3. CASE Memory!PowerCut
  BY <1>3, PowerCutStep
<1>4. ASSUME NEW w \in Writers,
             \/ Memory!BeginStore(w) \/ Memory!BeginUpdate(w) \/ Memory!BeginForget(w)
             \/ Memory!StoreItems(w) \/ Memory!UpdateItems(w) \/ Memory!StoreIndex(w) \/ Memory!StoreAppend(w) \/ Memory!StoreSave(w)
             \/ Memory!ForgetItems(w) \/ Memory!ForgetAppend(w) \/ Memory!ForgetIndex(w) \/ Memory!ForgetSave(w) \/ Memory!UpdateEnd(w)
             \/ Memory!CompactRead(w) \/ Memory!CompactIndex(w) \/ Memory!CompactSize(w)
             \/ Memory!CompactDigest(w) \/ Memory!CompactWrite(w) \/ Memory!CompactSave(w)
             \/ Memory!OpenFails(w) \/ Memory!MarkdownFails(w)
      PROVE  MemoryInv'
  BY <1>4, BeginsStep, StoreItemsStep, UpdateItemsStep, StoreIndexStep, StoreAppendStep,
     StoreSaveStep, ForgetItemsStep, ForgetAppendStep, ForgetIndexStep, ForgetSaveStep,
     UpdateEndStep, CompactReadStep, CompactIndexStep, CompactSizeStep,
     CompactDigestStep, CompactWriteStep, CompactSaveStep, OpenFailsStep, MarkdownFailsStep
<1> QED BY <1>1, <1>2, <1>3, <1>4 DEF Memory!Next

LEMMA MemoriesSound ==
  ASSUME Memory!MemoryBounds, MemoryInv PROVE Memory!MemoriesKept /\ Memory!TypeOK
<1>1. Memory!MemoriesKept
  BY DEF MemoryInv, Keeps, Memory!MemoriesKept, Memory!LiveKeys
<1>2. \A w \in Writers : memWriter[w].id \in 0..MaxIds
  BY InvParts DEF Hands
<1>3. memIndex.whole \in BOOLEAN
  BY InvParts DEF Index
<1>4. /\ \A i \in DOMAIN memRecords : memRecords[i] \in Memory!Lines
      /\ \A i \in DOMAIN memDigest : memDigest[i] \in 1..MaxIds
  <2> DEFINE S == 1..MaxIds
  <2>1. memRecords \in Seq(Memory!Lines) /\ memDigest \in Seq(S)
    BY InvParts
  <2> HIDE DEF S
  <2>2. /\ \A i \in DOMAIN memRecords : memRecords[i] \in Memory!Lines
        /\ \A i \in DOMAIN memDigest : memDigest[i] \in S
    BY <2>1
  <2> QED BY <2>2 DEF S
<1>5. Memory!TypeOK
  BY <1>2, <1>3, <1>4, InvParts DEF Memory!TypeOK, CountTypes
<1> QED BY <1>1, <1>5


-----------------------------------------------------------------------------
(***************************************************************************)
(* Recalls are counted once.                                               *)
(***************************************************************************)

\* No line, nor one about to be appended, was recalled more often than so.
Fits(lines, writers, upto) ==
  /\ \A a \in Range(lines) \ {Memory!CutLine} : a.access <= upto
  /\ \A w \in Writers : writers[w].pc = "forgetAppend" => writers[w].items[1].access <= upto
Saves(writers) == \E w \in Writers : writers[w].pc = "compactSave"
Stores(r) == r.pc \in {"storeAppend", "storeSave", "forgetSave"}

\* What a compaction has in hand fits what its index covers or will cover.
Carries(r, index, digest) ==
  /\ r.pc = "compactIndex" /\ index.whole => AtMost(r.items, index.upto)
  /\ r.pc \in {"compactSize", "compactDigest", "compactWrite"} =>
       r.index.upto <= Len(digest) /\ AtMost(r.items, r.index.upto)
  /\ r.pc = "compactDigest" => r.index.upto <= r.size /\ r.size <= Len(digest)

\* What the index covers of the digest is all that the records were given of it;
\* between the records of a compaction and its index, that is so of the latter.
RecallsFit(lines, writers, index, digest) ==
  /\ index.upto <= Len(digest) /\ Fits(lines, writers, Len(digest))
  /\ ~Saves(writers) /\ index.whole => Fits(lines, writers, index.upto)
  /\ \A w \in Writers : writers[w].pc = "compactSave" =>
       /\ writers[w].index.upto <= Len(digest)
       /\ Fits(lines, writers, writers[w].index.upto)
  /\ ~Saves(writers) => \A w \in Writers : Carries(writers[w], index, digest)
  /\ \A w \in Writers : Stores(writers[w]) =>
       index.whole /\ writers[w].index.whole /\ writers[w].index.upto = index.upto
RecallsInv ==
  /\ \A w \in Writers : memWriter[w].pc \in {"storeIndex", "storeAppend"} =>
       memWriter[w].item.access = 0
  /\ ~memRecounted => RecallsFit(memRecords, memWriter, memIndex, memDigest)

\* A writer goes on, and brings no recalls that the records did not have.
Goes(w, r) ==
  /\ r.pc \notin Memory!Compacting \cup {"compactSave"}
  /\ r.pc \in {"storeIndex", "storeAppend"} => r.item.access = 0
  /\ r.pc = "forgetAppend" =>
       \E a \in Range(memRecords) \ {Memory!CutLine} : r.items[1].access = a.access
  /\ Stores(r) /\ ~memRecounted' =>
       memIndex.whole /\ r.index.whole /\ r.index.upto = memIndex.upto

LEMMA Counts ==
  ASSUME Memory!MemoryBounds, MemoryInv
  PROVE  /\ memIndex.upto \in Nat /\ Len(memDigest) \in Nat
         /\ \A a \in Range(memRecords) \ {Memory!CutLine} : a \in Memory!Item /\ a.access \in Nat
         /\ \A w \in Writers : /\ memWriter[w].index.upto \in Nat /\ memWriter[w].size \in Nat
                               /\ \A i \in DOMAIN memWriter[w].items : memWriter[w].items[i].access \in Nat
         /\ \A w \in Writers : memWriter[w].pc = "forgetAppend" => memWriter[w].items[1].access \in Nat
<1>1. memIndex.upto \in Nat /\ Len(memDigest) \in Nat
  <2> DEFINE S == 1..MaxIds
  <2>1. memIndex \in Index /\ memDigest \in Seq(S)
    BY InvParts
  <2> HIDE DEF S
  <2> QED BY <2>1 DEF Index
<1>2. \A a \in Range(memRecords) \ {Memory!CutLine} : a \in Memory!Item /\ a.access \in Nat
  <2>1. Range(memRecords) \ {Memory!CutLine} \subseteq Memory!Item
    BY InvParts DEF Memory!Lines, Range
  <2> QED BY <2>1 DEF Memory!Item
<1>3. ASSUME NEW w \in Writers
      PROVE  /\ memWriter[w].index.upto \in Nat /\ memWriter[w].size \in Nat
             /\ \A i \in DOMAIN memWriter[w].items : memWriter[w].items[i].access \in Nat
             /\ memWriter[w].pc = "forgetAppend" => memWriter[w].items[1].access \in Nat
  <2>1. memWriter[w].items \in Seq(Memory!Item) /\ memWriter[w].index \in Index /\ Handles(memWriter[w])
    BY InvParts DEF Hands
  <2>2. \A i \in DOMAIN memWriter[w].items : memWriter[w].items[i].access \in Nat
    <3>1. \A i \in DOMAIN memWriter[w].items : memWriter[w].items[i] \in Memory!Item
      BY <2>1
    <3> QED BY <3>1 DEF Memory!Item
  <2>3. memWriter[w].pc = "forgetAppend" => 1 \in DOMAIN memWriter[w].items
    BY <2>1 DEF Handles
  <2>4. memWriter[w].index.upto \in Nat /\ memWriter[w].size \in Nat
    BY <2>1, InvParts DEF Index, Hands
  <2> QED BY <2>2, <2>3, <2>4
<1> QED BY <1>1, <1>2, <1>3

\* Lines that bring nothing new fit what the old ones did.
Brings(w, lines) ==
  \A a \in Range(lines) \ {Memory!CutLine} :
    \/ a \in Range(memRecords)
    \/ a.access = 0
    \/ memWriter[w].pc = "forgetAppend" /\ a.access = memWriter[w].items[1].access

LEMMA FitsStill ==
  ASSUME Memory!MemoryBounds, MemoryInv, NEW w \in Writers, NEW r, Goes(w, r),
         memWriter' = [memWriter EXCEPT ![w] = r], NEW lines, Brings(w, lines),
         NEW upto \in Nat, Fits(memRecords, memWriter, upto)
  PROVE  Fits(lines, memWriter', upto)
<1>1. \A o \in Writers : memWriter'[o] = IF o = w THEN r ELSE memWriter[o]
  BY InvParts
<1>2. \A a \in Range(lines) \ {Memory!CutLine} : a.access <= upto
  <2> TAKE a \in Range(lines) \ {Memory!CutLine}
  <2>1. CASE a \in Range(memRecords)
    BY <2>1 DEF Fits
  <2>2. CASE a.access = 0
    BY <2>2
  <2>3. CASE memWriter[w].pc = "forgetAppend" /\ a.access = memWriter[w].items[1].access
    BY <2>3 DEF Fits
  <2> QED BY <2>1, <2>2, <2>3 DEF Brings
<1>3. ASSUME NEW o \in Writers, memWriter'[o].pc = "forgetAppend"
      PROVE  memWriter'[o].items[1].access <= upto
  <2>1. CASE o = w
    <3>1. PICK a \in Range(memRecords) \ {Memory!CutLine} : r.items[1].access = a.access
      BY <1>1, <1>3, <2>1 DEF Goes
    <3> QED BY <1>1, <2>1, <3>1 DEF Fits
  <2>2. CASE o # w
    BY <1>1, <1>3, <2>2 DEF Fits
  <2> QED BY <2>1, <2>2
<1> QED BY <1>2, <1>3 DEF Fits

LEMMA GoesStep ==
  ASSUME Memory!MemoryBounds, MemoryInv, RecallsInv, NEW w \in Writers, NEW r, Goes(w, r),
         memWriter' = [memWriter EXCEPT ![w] = r], Brings(w, memRecords'),
         memDigest' = memDigest,
         ~memRecounted' => /\ ~memRecounted /\ memWriter[w].pc # "compactSave"
                           /\ memIndex'.upto = memIndex.upto /\ memIndex'.whole = memIndex.whole
  PROVE  RecallsInv'
<1>1. \A o \in Writers : memWriter'[o] = IF o = w THEN r ELSE memWriter[o]
  BY InvParts
<1>2. \A o \in Writers : memWriter'[o].pc \in {"storeIndex", "storeAppend"} => memWriter'[o].item.access = 0
  BY <1>1 DEF Goes, RecallsInv
<1>3. ASSUME ~memRecounted'
      PROVE  RecallsFit(memRecords', memWriter', memIndex', memDigest')
  <2>1. /\ RecallsFit(memRecords, memWriter, memIndex, memDigest) /\ ~memRecounted
        /\ memWriter[w].pc # "compactSave"
        /\ memIndex'.upto = memIndex.upto /\ memIndex'.whole = memIndex.whole
    BY <1>3 DEF RecallsInv
  <2>2. \A upto \in Nat : Fits(memRecords, memWriter, upto) => Fits(memRecords', memWriter', upto)
    BY FitsStill
  <2>3. \A o \in Writers : memWriter'[o].pc \in Memory!Compacting \cup {"compactSave"} =>
          memWriter'[o] = memWriter[o]
    BY <1>1 DEF Goes
  <2>4. Saves(memWriter') <=> Saves(memWriter)
    <3>1. ASSUME NEW o \in Writers, memWriter[o].pc = "compactSave" PROVE Saves(memWriter')
      <4>1. memWriter'[o] = memWriter[o]
        BY <1>1, <2>1, <3>1
      <4> QED BY <3>1, <4>1 DEF Saves
    <3>2. ASSUME NEW o \in Writers, memWriter'[o].pc = "compactSave" PROVE Saves(memWriter)
      BY <2>3, <3>2 DEF Saves
    <3> QED BY <3>1, <3>2 DEF Saves
  <2>5. /\ memIndex.upto \in Nat /\ Len(memDigest) \in Nat
        /\ \A o \in Writers : memWriter[o].index.upto \in Nat
    BY Counts
  <2>6. memIndex'.upto <= Len(memDigest') /\ Fits(memRecords', memWriter', Len(memDigest'))
    BY <2>1, <2>2, <2>5 DEF RecallsFit
  <2>7. ~Saves(memWriter') /\ memIndex'.whole => Fits(memRecords', memWriter', memIndex'.upto)
    BY <2>1, <2>2, <2>4, <2>5 DEF RecallsFit
  <2>8. ASSUME NEW o \in Writers, memWriter'[o].pc = "compactSave"
        PROVE  /\ memWriter'[o].index.upto <= Len(memDigest')
               /\ Fits(memRecords', memWriter', memWriter'[o].index.upto)
    <3>1. memWriter'[o] = memWriter[o]
      BY <2>3, <2>8
    <3>2. /\ memWriter[o].index.upto <= Len(memDigest)
          /\ Fits(memRecords, memWriter, memWriter[o].index.upto)
      BY <2>1, <2>8, <3>1 DEF RecallsFit
    <3>3. Fits(memRecords', memWriter', memWriter[o].index.upto)
      BY <2>2, <2>5, <3>2
    <3> QED BY <3>1, <3>2, <3>3
  <2>9. ASSUME ~Saves(memWriter'), NEW o \in Writers
        PROVE  Carries(memWriter'[o], memIndex', memDigest')
    <3>1. CASE memWriter'[o].pc \in Memory!Compacting
      <4>1. memWriter'[o] = memWriter[o] /\ Carries(memWriter[o], memIndex, memDigest)
        BY <2>1, <2>3, <2>4, <2>9, <3>1 DEF RecallsFit
      <4> QED BY <2>1, <4>1 DEF Carries
    <3>2. CASE memWriter'[o].pc \notin Memory!Compacting
      BY <3>2 DEF Carries, Memory!Compacting
    <3> QED BY <3>1, <3>2
  <2>10. ASSUME NEW o \in Writers, Stores(memWriter'[o])
         PROVE  memIndex'.whole /\ memWriter'[o].index.whole /\ memWriter'[o].index.upto = memIndex'.upto
    <3>1. CASE o = w
      BY <1>1, <1>3, <2>1, <2>10, <3>1 DEF Goes
    <3>2. CASE o # w
      BY <1>1, <2>1, <2>10, <3>2 DEF RecallsFit
    <3> QED BY <3>1, <3>2
  <2> QED BY <2>6, <2>7, <2>8, <2>9, <2>10 DEF RecallsFit
<1> QED BY <1>2, <1>3 DEF RecallsInv


LEMMA KeptStep ==
  ASSUME Memory!MemoryBounds, MemoryInv, RecallsInv, NEW w \in Writers, NEW r, Goes(w, r),
         memWriter' = [memWriter EXCEPT ![w] = r],
         memRecords' = memRecords, memIndex' = memIndex, memDigest' = memDigest,
         ~memRecounted' => ~memRecounted /\ memWriter[w].pc # "compactSave"
  PROVE  RecallsInv'
<1>1. Brings(w, memRecords')
  BY DEF Brings
<1> QED BY <1>1, GoesStep

LEMMA RestingGoes == ASSUME NEW w \in Writers PROVE Goes(w, Memory!Resting)
BY DEF Goes, Memory!Resting, Stores, Memory!Compacting

LEMMA BeginsCounts ==
  ASSUME Memory!MemoryBounds, MemoryInv, RecallsInv, NEW w \in Writers,
         Memory!BeginStore(w) \/ Memory!BeginUpdate(w) \/ Memory!BeginForget(w)
  PROVE  RecallsInv'
<1>1. PICK op, to, id : Memory!Begins(w, op, to, id) /\ to \in {"storeItems", "updateItems", "forgetItems"}
  BY DEF Memory!BeginStore, Memory!BeginUpdate, Memory!BeginForget
<1> DEFINE r == [Memory!Resting EXCEPT !.pc = to, !.op = op, !.id = id]
<1>2. r.pc = to
  BY DEF Memory!Resting
<1>3. /\ memWriter' = [memWriter EXCEPT ![w] = r] /\ memWriter[w].pc = "idle"
      /\ memRecords' = memRecords /\ memIndex' = memIndex /\ memDigest' = memDigest
      /\ memRecounted' = memRecounted
  BY <1>1 DEF Memory!Begins, Memory!Becomes, Memory!files, Memory!At
<1> HIDE DEF r
<1>4. Goes(w, r)
  BY <1>1, <1>2 DEF Goes, Stores, Memory!Compacting
<1> QED BY <1>3, <1>4, KeptStep

LEMMA LooksCounts ==
  ASSUME Memory!MemoryBounds, MemoryInv, RecallsInv, NEW w \in Writers, NEW key \in MemKeys, NEW label \in Labels,
         Memory!Looks(w, key, label), memWriter[w].pc # "compactSave",
         memRecords' = memRecords, memIndex' = memIndex, memDigest' = memDigest,
         memRecounted' = memRecounted
  PROVE  RecallsInv'
<1> DEFINE fresh == [id |-> 0, key |-> key, label |-> label, sid |-> 0, live |-> TRUE, access |-> 0]
<1>0. fresh.access = 0 /\ memWriter[w] \in Hands
  BY InvParts
<1>1. \/ Memory!Becomes(w, [memWriter[w] EXCEPT !.pc = "storeIndex", !.item = fresh])
      \/ Memory!Becomes(w, [memWriter[w] EXCEPT !.pc = "forgetItems", !.item = fresh])
      \/ Memory!Becomes(w, Memory!Resting)
  BY DEF Memory!Looks, Memory!Ends
<1> HIDE DEF fresh
<1>2. ASSUME NEW to \in {"storeIndex", "forgetItems"},
             Memory!Becomes(w, [memWriter[w] EXCEPT !.pc = to, !.item = fresh])
      PROVE  RecallsInv'
  <2> DEFINE r == [memWriter[w] EXCEPT !.pc = to, !.item = fresh]
  <2>1. r.pc = to /\ r.item = fresh /\ memWriter' = [memWriter EXCEPT ![w] = r]
    BY <1>0, <1>2 DEF Memory!Becomes, Hands
  <2> HIDE DEF r
  <2>2. Goes(w, r)
    BY <1>0, <2>1 DEF Goes, Stores, Memory!Compacting
  <2> QED BY <2>1, <2>2, KeptStep
<1>3. CASE Memory!Becomes(w, Memory!Resting)
  BY <1>3, RestingGoes, KeptStep DEF Memory!Becomes
<1> QED BY <1>1, <1>2, <1>3

LEMMA EndsCounts ==
  ASSUME Memory!MemoryBounds, MemoryInv, RecallsInv, NEW w \in Writers, Memory!Ends(w),
         memRecords' = memRecords, memIndex' = memIndex, memDigest' = memDigest,
         ~memRecounted' => ~memRecounted /\ memWriter[w].pc # "compactSave"
  PROVE  RecallsInv'
BY RestingGoes, KeptStep DEF Memory!Ends, Memory!Becomes

LEMMA StoreItemsCounts ==
  ASSUME Memory!MemoryBounds, MemoryInv, RecallsInv, NEW w \in Writers, Memory!StoreItems(w) PROVE RecallsInv'
<1>1. PICK key \in MemKeys, label \in Labels : Memory!Looks(w, key, label)
  BY DEF Memory!StoreItems
<1> QED BY <1>1, LooksCounts DEF Memory!StoreItems, Memory!At, Memory!files, Memory!history

LEMMA UpdateItemsCounts ==
  ASSUME Memory!MemoryBounds, MemoryInv, RecallsInv, NEW w \in Writers, Memory!UpdateItems(w) PROVE RecallsInv'
<1>1. /\ memWriter[w].pc = "updateItems" /\ memRecords' = memRecords /\ memIndex' = memIndex
      /\ memDigest' = memDigest /\ memRecounted' = memRecounted
  BY DEF Memory!UpdateItems, Memory!At, Memory!files, Memory!history
<1>2. CASE Memory!Ends(w)
  BY <1>1, <1>2, EndsCounts
<1>3. ASSUME NEW key \in MemKeys, NEW label \in Labels, Memory!Looks(w, key, label)
      PROVE  RecallsInv'
  BY <1>1, <1>3, LooksCounts
<1> QED BY <1>2, <1>3 DEF Memory!UpdateItems

LEMMA CannotParseCounts ==
  ASSUME Memory!MemoryBounds, MemoryInv, RecallsInv, NEW w \in Writers, Memory!CannotParse(w),
         UNCHANGED Memory!files, memWriter[w].pc # "compactSave"
  PROVE  RecallsInv'
BY EndsCounts DEF Memory!CannotParse, Memory!files

\* An index that opens is the one there is.
LEMMA OpensThat ==
  ASSUME NEW index, Memory!OpensIndex(index), ~memRecounted'
  PROVE  memIndex.whole /\ index = memIndex /\ ~memRecounted
BY DEF Memory!OpensIndex

LEMMA StoreIndexCounts ==
  ASSUME Memory!MemoryBounds, MemoryInv, RecallsInv, NEW w \in Writers, Memory!StoreIndex(w) PROVE RecallsInv'
<1>0. /\ memWriter[w].pc = "storeIndex" /\ memRecords' = memRecords /\ memIndex' = memIndex
      /\ memDigest' = memDigest /\ UNCHANGED Memory!files
  BY DEF Memory!StoreIndex, Memory!At, Memory!files
<1>1. CASE Memory!CannotParse(w)
  BY <1>0, <1>1, CannotParseCounts
<1>2. ASSUME NEW id \in Memory!MadeIds \cap 1..MaxIds, NEW opened, Memory!OpensIndex(opened),
             LET r == memWriter[w]
                 index == Memory!EnsureLabel(opened, r.item.label, 0)
                 item == [r.item EXCEPT !.id = id, !.sid = index.sums[r.item.label].id]
             IN  Memory!Becomes(w, [r EXCEPT !.pc = "storeAppend", !.item = item, !.index = index])
      PROVE  RecallsInv'
  <2> DEFINE old == memWriter[w]
  <2> DEFINE index == Memory!EnsureLabel(opened, old.item.label, 0)
  <2> DEFINE item == [old.item EXCEPT !.id = id, !.sid = index.sums[old.item.label].id]
  <2> DEFINE r == [old EXCEPT !.pc = "storeAppend", !.item = item, !.index = index]
  <2>1. memWriter' = [memWriter EXCEPT ![w] = r]
    BY <1>2 DEF Memory!Becomes
  <2>2. old \in Hands /\ old.item \in Drafts /\ old.item.access = 0
    <3>1. old \in Hands /\ Handles(old)
      BY InvParts
    <3> QED BY <1>0, <3>1 DEF Handles, Hands, RecallsInv
  <2>3. index.upto = opened.upto /\ index.whole = opened.whole
    <3>1. old.item.label \in Labels /\ opened \in Index
      BY <1>2, <2>2, OpensIs DEF Drafts
    <3> QED BY <3>1, EnsureIs
  <2> HIDE DEF index
  <2>4. item.access = 0
    <3> HIDE DEF old
    <3> QED BY <2>2 DEF Drafts
  <2> HIDE DEF item
  <2>5. r.pc = "storeAppend" /\ r.item = item /\ r.index = index
    BY <2>2 DEF Hands
  <2> HIDE DEF r
  <2>6. ~memRecounted' => memIndex.whole /\ opened = memIndex /\ ~memRecounted
    BY <1>2, OpensThat
  <2>7. Goes(w, r)
    BY <2>3, <2>4, <2>5, <2>6 DEF Goes, Memory!Compacting
  <2> QED BY <1>0, <2>1, <2>6, <2>7, KeptStep
<1> QED BY <1>1, <1>2 DEF Memory!StoreIndex

\* The line that was in hand is appended, or continues one that was cut.
LEMMA AppendedIs ==
  ASSUME Memory!MemoryBounds, MemoryInv, NEW item \in Memory!Item, memRecords' = Memory!WithLine(memRecords, item)
  PROVE  \A a \in Range(memRecords') \ {Memory!CutLine} : a \in Range(memRecords) \/ a = item
<1>1. memRecords \in Seq(Memory!Lines)
  BY InvParts
<1>2. Range(memRecords') \subseteq Range(memRecords) \cup {item}
  BY <1>1, LineAdds
<1> QED BY <1>2

LEMMA StoreAppendCounts ==
  ASSUME Memory!MemoryBounds, MemoryInv, RecallsInv, NEW w \in Writers, Memory!StoreAppend(w) PROVE RecallsInv'
<1> DEFINE old == memWriter[w]
<1> DEFINE r == [old EXCEPT !.pc = "storeSave"]
<1>1. /\ old.pc = "storeAppend" /\ memRecords' = Memory!WithLine(memRecords, old.item)
      /\ memWriter' = [memWriter EXCEPT ![w] = r]
      /\ memIndex' = memIndex /\ memDigest' = memDigest /\ memRecounted' = memRecounted
  BY DEF Memory!StoreAppend, Memory!At, Memory!Goto, Memory!Becomes
<1>2. old \in Hands /\ old.item \in Memory!Item /\ old.item.access = 0
  BY <1>1, InvParts DEF Handles, RecallsInv
<1>3. Brings(w, memRecords')
  BY <1>1, <1>2, AppendedIs DEF Brings
<1>4. r.pc = "storeSave" /\ r.index = old.index
  BY <1>2 DEF Hands
<1> HIDE DEF r
<1>5. ~memRecounted => memIndex.whole /\ old.index.whole /\ old.index.upto = memIndex.upto
  BY <1>1 DEF RecallsInv, RecallsFit, Stores
<1>6. Goes(w, r)
  BY <1>1, <1>4, <1>5 DEF Goes, Memory!Compacting
<1> QED BY <1>1, <1>3, <1>6, GoesStep


LEMMA SettlesGoes ==
  ASSUME Memory!MemoryBounds, MemoryInv, NEW w \in Writers, NEW after \in Afters, NEW changes,
         Memory!Settles(w, after, changes)
  PROVE  \E r : Goes(w, r) /\ memWriter' = [memWriter EXCEPT ![w] = r]
<1> DEFINE r == [memWriter[w] EXCEPT !.items = <<>>, !.index = Memory!NoIndex]
<1> DEFINE due == [r EXCEPT !.pc = "compactRead", !.after = after]
<1> DEFINE goes == [r EXCEPT !.pc = after]
<1>1. \/ memWriter' = [memWriter EXCEPT ![w] = due]
      \/ memWriter' = [memWriter EXCEPT ![w] = Memory!Resting]
      \/ memWriter' = [memWriter EXCEPT ![w] = goes]
  BY DEF Memory!Settles, Memory!Becomes
<1>2. memWriter[w] \in Hands
  BY InvParts
<1>3. due.pc = "compactRead" /\ goes.pc = after
  BY <1>2 DEF Hands
<1> HIDE DEF due, goes
<1>4. Goes(w, due) /\ Goes(w, goes) /\ Goes(w, Memory!Resting)
  BY <1>3, RestingGoes DEF Goes, Stores, Afters, Memory!Compacting
<1> QED BY <1>1, <1>4

LEMMA StoreSaveCounts ==
  ASSUME Memory!MemoryBounds, MemoryInv, RecallsInv, NEW w \in Writers, Memory!StoreSave(w) PROVE RecallsInv'
<1> DEFINE r == memWriter[w]
<1>1. /\ r.pc = "storeSave" /\ memIndex' = Memory!Counted(r.index, r.item.sid)
      /\ Memory!Settles(w, IF r.op = "update" THEN "forgetItems" ELSE "idle", memChanges + 1)
      /\ memRecords' = memRecords /\ memDigest' = memDigest /\ memRecounted' = memRecounted
  BY DEF Memory!StoreSave, Memory!At, Memory!Updating, Memory!history
<1>2. r \in Hands /\ Handles(r)
  BY InvParts
<1>3. memIndex'.upto = r.index.upto /\ memIndex'.whole = r.index.whole
  <2>1. r.index \in Index /\ r.item.sid \in Nat
    BY <1>1, <1>2 DEF Hands, Handles, Memory!Item
  <2> QED BY <1>1, <2>1, CountedIs
<1>4. ~memRecounted => r.index.upto = memIndex.upto /\ r.index.whole /\ memIndex.whole
  BY <1>1 DEF RecallsInv, RecallsFit, Stores
<1>5. (IF r.op = "update" THEN "forgetItems" ELSE "idle") \in Afters
  BY DEF Afters
<1>6. PICK s : Goes(w, s) /\ memWriter' = [memWriter EXCEPT ![w] = s]
  BY <1>1, <1>5, SettlesGoes
<1>7. memRecounted' = memRecounted /\ memDigest' = memDigest /\ r.pc # "compactSave"
  BY <1>1
<1>8. ~memRecounted => memIndex'.upto = memIndex.upto /\ memIndex'.whole = memIndex.whole
  <2>1. memIndex.whole \in BOOLEAN /\ r.index.whole \in BOOLEAN
    BY <1>2, InvParts DEF Hands, Index
  <2> QED BY <1>3, <1>4, <2>1
<1>9. Brings(w, memRecords')
  BY <1>1 DEF Brings
<1> HIDE DEF r
<1> QED BY <1>6, <1>7, <1>8, <1>9, GoesStep DEF r

LEMMA ForgetSaveCounts ==
  ASSUME Memory!MemoryBounds, MemoryInv, RecallsInv, NEW w \in Writers, Memory!ForgetSave(w) PROVE RecallsInv'
<1> DEFINE r == memWriter[w]
<1>1. /\ r.pc = "forgetSave" /\ memIndex' = Memory!Uncounted(r.index, r.items[1].sid)
      /\ Memory!Settles(w, IF r.op = "update" THEN "updateEnd" ELSE "idle", memChanges + 1)
      /\ memRecords' = memRecords /\ memDigest' = memDigest /\ memRecounted' = memRecounted
  BY DEF Memory!ForgetSave, Memory!At, Memory!Updating, Memory!history
<1>2. r \in Hands /\ Handles(r)
  BY InvParts
<1>3. memIndex'.upto = r.index.upto /\ memIndex'.whole = r.index.whole
  <2>1. r.index \in Index /\ r.items \in Seq(Memory!Item) /\ Len(r.items) = 1
    BY <1>1, <1>2 DEF Hands, Handles
  <2>2. r.items[1] \in Memory!Item
    BY <2>1
  <2>3. r.items[1].sid \in Nat
    BY <2>2 DEF Memory!Item
  <2> QED BY <1>1, <2>1, <2>3, UncountedIs
<1>4. ~memRecounted => r.index.upto = memIndex.upto /\ r.index.whole /\ memIndex.whole
  BY <1>1 DEF RecallsInv, RecallsFit, Stores
<1>5. (IF r.op = "update" THEN "updateEnd" ELSE "idle") \in Afters
  BY DEF Afters
<1>6. PICK s : Goes(w, s) /\ memWriter' = [memWriter EXCEPT ![w] = s]
  BY <1>1, <1>5, SettlesGoes
<1>7. memRecounted' = memRecounted /\ memDigest' = memDigest /\ r.pc # "compactSave"
  BY <1>1
<1>8. ~memRecounted => memIndex'.upto = memIndex.upto /\ memIndex'.whole = memIndex.whole
  <2>1. memIndex.whole \in BOOLEAN /\ r.index.whole \in BOOLEAN
    BY <1>2, InvParts DEF Hands, Index
  <2> QED BY <1>3, <1>4, <2>1
<1>9. Brings(w, memRecords')
  BY <1>1 DEF Brings
<1> HIDE DEF r
<1> QED BY <1>6, <1>7, <1>8, <1>9, GoesStep DEF r

LEMMA UpdateEndCounts ==
  ASSUME Memory!MemoryBounds, MemoryInv, RecallsInv, NEW w \in Writers, Memory!UpdateEnd(w) PROVE RecallsInv'
<1>1. /\ memWriter[w].pc = "updateEnd" /\ Memory!Settles(w, "idle", memChanges) /\ "idle" \in Afters
      /\ memRecords' = memRecords /\ memIndex' = memIndex /\ memDigest' = memDigest
      /\ memRecounted' = memRecounted
  BY DEF Memory!UpdateEnd, Memory!At, Memory!files, Memory!history, Afters
<1>2. PICK s : Goes(w, s) /\ memWriter' = [memWriter EXCEPT ![w] = s]
  BY <1>1, SettlesGoes
<1> QED BY <1>1, <1>2, KeptStep

LEMMA ForgetItemsCounts ==
  ASSUME Memory!MemoryBounds, MemoryInv, RecallsInv, NEW w \in Writers, Memory!ForgetItems(w) PROVE RecallsInv'
<1> DEFINE old == memWriter[w]
<1>0. /\ old.pc = "forgetItems" /\ memRecords' = memRecords /\ memIndex' = memIndex
      /\ memDigest' = memDigest /\ memRecounted' = memRecounted
  BY DEF Memory!ForgetItems, Memory!At, Memory!files, Memory!history
<1>1. CASE Memory!Ends(w)
  BY <1>0, <1>1, EndsCounts
<1>2. CASE Memory!IsLive(old.id)
           /\ Memory!Becomes(w, [old EXCEPT !.pc = "forgetAppend",
                                     !.items = <<[Memory!Stored(old.id) EXCEPT !.live = FALSE]>>])
  <2> DEFINE a == Memory!Stored(old.id)
  <2>1. a \in Memory!LiveSet(memRecords)
    BY <1>2 DEF Memory!IsLive, Memory!Stored
  <2>2. a \in Memory!Item /\ a \in Range(memRecords) \ {Memory!CutLine}
    BY <2>1, LiveSetSound, InvParts DEF Range
  <2> HIDE DEF a
  <2> DEFINE item == [a EXCEPT !.live = FALSE]
  <2>3. item.access = a.access
    BY <2>2 DEF Memory!Item
  <2> DEFINE r == [old EXCEPT !.pc = "forgetAppend", !.items = <<item>>]
  <2>4. memWriter' = [memWriter EXCEPT ![w] = r]
    BY <1>2 DEF Memory!Becomes, a
  <2> HIDE DEF item
  <2>5. old \in Hands
    BY InvParts
  <2>6. r.pc = "forgetAppend" /\ r.items = <<item>>
    BY <2>5 DEF Hands
  <2> HIDE DEF r
  <2>7. Goes(w, r)
    BY <2>2, <2>3, <2>6 DEF Goes, Stores, Memory!Compacting
  <2> QED BY <1>0, <2>4, <2>7, KeptStep
<1> QED BY <1>1, <1>2 DEF Memory!ForgetItems

LEMMA ForgetAppendCounts ==
  ASSUME Memory!MemoryBounds, MemoryInv, RecallsInv, NEW w \in Writers, Memory!ForgetAppend(w) PROVE RecallsInv'
<1> DEFINE old == memWriter[w]
<1> DEFINE r == [old EXCEPT !.pc = "forgetIndex"]
<1>1. /\ old.pc = "forgetAppend" /\ memRecords' = Memory!WithLine(memRecords, old.items[1])
      /\ memWriter' = [memWriter EXCEPT ![w] = r]
      /\ memIndex' = memIndex /\ memDigest' = memDigest /\ memRecounted' = memRecounted
  BY DEF Memory!ForgetAppend, Memory!At, Memory!Goto, Memory!Becomes
<1>2. old \in Hands /\ old.items[1] \in Memory!Item
  <2>1. old \in Hands /\ Len(old.items) = 1 /\ old.items \in Seq(Memory!Item)
    BY <1>1, InvParts DEF Handles, Hands
  <2> QED BY <2>1
<1>3. Brings(w, memRecords')
  BY <1>1, <1>2, AppendedIs DEF Brings
<1>4. r.pc = "forgetIndex"
  BY <1>2 DEF Hands
<1> HIDE DEF r
<1>5. Goes(w, r)
  BY <1>4 DEF Goes, Stores, Memory!Compacting
<1> QED BY <1>1, <1>3, <1>5, GoesStep

LEMMA ForgetIndexCounts ==
  ASSUME Memory!MemoryBounds, MemoryInv, RecallsInv, NEW w \in Writers, Memory!ForgetIndex(w) PROVE RecallsInv'
<1> DEFINE old == memWriter[w]
<1>0. /\ old.pc = "forgetIndex" /\ memRecords' = memRecords /\ memIndex' = memIndex
      /\ memDigest' = memDigest /\ UNCHANGED Memory!files
  BY DEF Memory!ForgetIndex, Memory!At, Memory!files
<1>1. CASE Memory!CannotParse(w)
  BY <1>0, <1>1, CannotParseCounts
<1>2. ASSUME NEW index, Memory!OpensIndex(index),
             Memory!Becomes(w, [old EXCEPT !.pc = "forgetSave", !.index = index])
      PROVE  RecallsInv'
  <2> DEFINE r == [old EXCEPT !.pc = "forgetSave", !.index = index]
  <2>1. memWriter' = [memWriter EXCEPT ![w] = r] /\ old \in Hands
    BY <1>2, InvParts DEF Memory!Becomes
  <2>2. r.pc = "forgetSave" /\ r.index = index
    BY <2>1 DEF Hands
  <2> HIDE DEF r
  <2>3. ~memRecounted' => memIndex.whole /\ index = memIndex /\ ~memRecounted
    BY <1>2, OpensThat
  <2>4. Goes(w, r)
    BY <2>2, <2>3 DEF Goes, Memory!Compacting
  <2> QED BY <1>0, <2>1, <2>3, <2>4, KeptStep
<1> QED BY <1>1, <1>2 DEF Memory!ForgetIndex

LEMMA OpenFailsCounts ==
  ASSUME Memory!MemoryBounds, MemoryInv, RecallsInv, NEW w \in Writers, Memory!OpenFails(w) PROVE RecallsInv'
<1>1. /\ Memory!Ends(w) /\ memRecords' = memRecords /\ memIndex' = memIndex /\ memDigest' = memDigest
      /\ memRecounted' = (memRecounted \/ memWriter[w].pc = "compactSave")
  BY DEF Memory!OpenFails, Memory!files, Memory!At
<1> QED BY <1>1, EndsCounts


\* A step of a compaction up to the writing of the records.
LEMMA CarriesStep ==
  ASSUME Memory!MemoryBounds, MemoryInv, RecallsInv, NEW w \in Writers, NEW r,
         r.pc \in Memory!Compacting, memWriter[w].pc # "compactSave",
         memWriter' = [memWriter EXCEPT ![w] = r],
         memRecords' = memRecords, memIndex' = memIndex, memDigest' = memDigest,
         ~memRecounted' => ~memRecounted /\ (~Saves(memWriter) => Carries(r, memIndex, memDigest))
  PROVE  RecallsInv'
<1>1. \A o \in Writers : memWriter'[o] = IF o = w THEN r ELSE memWriter[o]
  BY InvParts
<1>2. \A o \in Writers : memWriter'[o].pc \notin Memory!Compacting => memWriter'[o] = memWriter[o]
  BY <1>1
<1>3. \A o \in Writers : memWriter'[o].pc \in {"storeIndex", "storeAppend"} => memWriter'[o].item.access = 0
  BY <1>2 DEF RecallsInv, Memory!Compacting
<1>4. ASSUME ~memRecounted' PROVE RecallsFit(memRecords, memWriter', memIndex, memDigest)
  <2>1. RecallsFit(memRecords, memWriter, memIndex, memDigest)
    BY <1>4 DEF RecallsInv
  <2>2. \A upto : Fits(memRecords, memWriter, upto) => Fits(memRecords, memWriter', upto)
    BY <1>2 DEF Fits, Memory!Compacting
  <2>3. Saves(memWriter') <=> Saves(memWriter)
    <3>1. \A o \in Writers : memWriter'[o].pc = "compactSave" <=> memWriter[o].pc = "compactSave"
      BY <1>1 DEF Memory!Compacting
    <3> QED BY <3>1 DEF Saves
  <2>4. ASSUME ~Saves(memWriter'), NEW o \in Writers PROVE Carries(memWriter'[o], memIndex, memDigest)
    <3>1. CASE o = w
      BY <1>1, <1>4, <2>3, <2>4, <3>1
    <3>2. CASE o # w
      BY <1>1, <2>1, <2>3, <2>4, <3>2 DEF RecallsFit
    <3> QED BY <3>1, <3>2
  <2>5. \A o \in Writers : memWriter'[o].pc = "compactSave" =>
          memWriter'[o].index.upto <= Len(memDigest) /\ Fits(memRecords, memWriter', memWriter'[o].index.upto)
    BY <1>2, <2>1, <2>2 DEF RecallsFit, Memory!Compacting
  <2>6. \A o \in Writers : Stores(memWriter'[o]) =>
          memIndex.whole /\ memWriter'[o].index.whole /\ memWriter'[o].index.upto = memIndex.upto
    BY <1>2, <2>1 DEF RecallsFit, Stores, Memory!Compacting
  <2>7. /\ memIndex.upto <= Len(memDigest) /\ Fits(memRecords, memWriter', Len(memDigest))
        /\ ~Saves(memWriter') /\ memIndex.whole => Fits(memRecords, memWriter', memIndex.upto)
    BY <2>1, <2>2, <2>3 DEF RecallsFit
  <2> QED BY <2>4, <2>5, <2>6, <2>7 DEF RecallsFit
<1> QED BY <1>3, <1>4 DEF RecallsInv

LEMMA CompactReadCounts ==
  ASSUME Memory!MemoryBounds, MemoryInv, RecallsInv, NEW w \in Writers, Memory!CompactRead(w) PROVE RecallsInv'
<1> DEFINE old == memWriter[w]
<1> DEFINE items == Memory!Live(memRecords)
<1> DEFINE r == [old EXCEPT !.pc = "compactIndex", !.items = items]
<1>0. /\ old.pc = "compactRead" /\ memRecords' = memRecords /\ memIndex' = memIndex
      /\ memDigest' = memDigest /\ memRecounted' = memRecounted
      /\ memWriter' = [memWriter EXCEPT ![w] = r]
  BY DEF Memory!CompactRead, Memory!At, Memory!files, Memory!history, Memory!Becomes
<1>1. \A i \in DOMAIN items : items[i] \in Memory!LiveSet(memRecords)
  BY DEF Memory!LiveSet
<1> HIDE DEF items
<1>2. r.pc = "compactIndex" /\ r.items = items
  BY InvParts DEF Hands
<1> HIDE DEF r
<1>3. ASSUME ~memRecounted, ~Saves(memWriter) PROVE Carries(r, memIndex, memDigest)
  <2>1. memIndex.whole => Fits(memRecords, memWriter, memIndex.upto)
    BY <1>3 DEF RecallsInv, RecallsFit
  <2>2. Memory!LiveSet(memRecords) \subseteq Range(memRecords) \ {Memory!CutLine}
    BY LiveSetSound, InvParts DEF Range
  <2>3. memIndex.whole => AtMost(r.items, memIndex.upto)
    BY <1>1, <1>2, <2>1, <2>2 DEF Fits, AtMost
  <2> QED BY <1>2, <2>3 DEF Carries
<1>4. r.pc \in Memory!Compacting /\ old.pc # "compactSave"
  BY <1>0, <1>2 DEF Memory!Compacting
<1> QED BY <1>0, <1>3, <1>4, CarriesStep

LEMMA CompactIndexCounts ==
  ASSUME Memory!MemoryBounds, MemoryInv, RecallsInv, NEW w \in Writers, Memory!CompactIndex(w) PROVE RecallsInv'
<1> DEFINE old == memWriter[w]
<1>0. /\ old.pc = "compactIndex" /\ memRecords' = memRecords /\ memIndex' = memIndex
      /\ memDigest' = memDigest /\ UNCHANGED Memory!files
  BY DEF Memory!CompactIndex, Memory!At, Memory!files
<1>1. CASE Memory!CannotParse(w)
  BY <1>0, <1>1, CannotParseCounts
<1>2. ASSUME NEW index, Memory!OpensIndex(index),
             Memory!Becomes(w, [old EXCEPT !.pc = "compactSize", !.index = index])
      PROVE  RecallsInv'
  <2> DEFINE r == [old EXCEPT !.pc = "compactSize", !.index = index]
  <2>1. memWriter' = [memWriter EXCEPT ![w] = r] /\ old \in Hands
    BY <1>2, InvParts DEF Memory!Becomes
  <2>2. r.pc = "compactSize" /\ r.index = index /\ r.items = old.items
    BY <2>1 DEF Hands
  <2> HIDE DEF r
  <2>3. ~memRecounted' => memIndex.whole /\ index = memIndex /\ ~memRecounted
    BY <1>2, OpensThat
  <2>4. ASSUME ~memRecounted', ~Saves(memWriter) PROVE Carries(r, memIndex, memDigest)
    <3>1. Carries(old, memIndex, memDigest) /\ memIndex.upto <= Len(memDigest)
      BY <2>3, <2>4 DEF RecallsInv, RecallsFit
    <3> QED BY <1>0, <2>2, <2>3, <2>4, <3>1 DEF Carries
  <2>5. r.pc \in Memory!Compacting /\ old.pc # "compactSave"
    BY <1>0, <2>2 DEF Memory!Compacting
  <2> QED BY <1>0, <2>1, <2>3, <2>4, <2>5, CarriesStep
<1> QED BY <1>1, <1>2 DEF Memory!CompactIndex

LEMMA CompactSizeCounts ==
  ASSUME Memory!MemoryBounds, MemoryInv, RecallsInv, NEW w \in Writers, Memory!CompactSize(w) PROVE RecallsInv'
<1> DEFINE old == memWriter[w]
<1> DEFINE r == [old EXCEPT !.pc = "compactDigest", !.size = Len(memDigest)]
<1>0. /\ old.pc = "compactSize" /\ memRecords' = memRecords /\ memIndex' = memIndex
      /\ memDigest' = memDigest /\ memRecounted' = memRecounted
      /\ memWriter' = [memWriter EXCEPT ![w] = r]
  BY DEF Memory!CompactSize, Memory!At, Memory!files, Memory!history, Memory!Becomes
<1>1. /\ r.pc = "compactDigest" /\ r.items = old.items /\ r.index = old.index
      /\ r.size = Len(memDigest) /\ Len(memDigest) \in Nat
  BY InvParts, Counts DEF Hands
<1> HIDE DEF r
<1>2. ASSUME ~memRecounted, ~Saves(memWriter) PROVE Carries(r, memIndex, memDigest)
  <2>1. Carries(old, memIndex, memDigest)
    BY <1>2 DEF RecallsInv, RecallsFit
  <2>2. old.index.upto <= Len(memDigest) /\ AtMost(old.items, old.index.upto)
    BY <1>0, <2>1 DEF Carries
  <2> QED BY <1>1, <2>2 DEF Carries
<1>3. r.pc \in Memory!Compacting /\ old.pc # "compactSave"
  BY <1>0, <1>1 DEF Memory!Compacting
<1> QED BY <1>0, <1>2, <1>3, CarriesStep

\* The memories and the index a compaction ends with.
Compacted(items, index, digest, size, newer, readable) ==
  LET counted == IF readable THEN Memory!WithRecalls(items, index, digest) ELSE items
  IN  Memory!Relabelled(Memory!Trimmed(Memory!Merged(counted, newer)), [index EXCEPT !.upto = size])

LEMMA CompactedFits ==
  ASSUME Memory!MemoryBounds, NEW items, Sound(items), NEW index \in Index,
         NEW digest \in Seq(1..MaxIds), NEW size \in Nat,
         NEW newer \in BOOLEAN, NEW readable \in BOOLEAN
  PROVE  /\ Compacted(items, index, digest, size, newer, readable).index.upto = size
         /\ Covers(items, index, digest, size, readable) =>
              AtMost(Compacted(items, index, digest, size, newer, readable).items, size)
BY CompactedIs DEF Compacted

\* The recalls up to the size are counted, and none is that was noted since.
LEMMA CompactDigestCounts ==
  ASSUME Memory!MemoryBounds, MemoryInv, RecallsInv, NEW w \in Writers, Memory!CompactDigest(w) PROVE RecallsInv'
<1> DEFINE old == memWriter[w]
<1>0. /\ old.pc = "compactDigest" /\ memRecords' = memRecords /\ memIndex' = memIndex
      /\ memDigest' = memDigest
  BY DEF Memory!CompactDigest, Memory!At, Memory!files
<1>1. old \in Hands /\ Sound(old.items) /\ old.index \in Index /\ old.size \in Nat
      /\ memDigest \in Seq(1..MaxIds) /\ Len(memDigest) \in Nat
  BY <1>0, InvParts, Counts DEF Handles, Hands, Memory!Compacting
<1>2. PICK newer \in BOOLEAN, readable \in BOOLEAN :
        LET counted == IF readable THEN Memory!WithRecalls(old.items, old.index, memDigest) ELSE old.items
            merged == Memory!Merged(counted, newer)
            left == Memory!Trimmed(merged)
            new == Memory!Relabelled(left, [old.index EXCEPT !.upto = old.size])
        IN  /\ Memory!Becomes(w, [old EXCEPT !.pc = "compactWrite", !.items = new.items,
                                             !.index = new.index, !.size = 0])
            /\ memRecounted' = (memRecounted \/ (readable /\ Len(memDigest) > old.size))
  BY DEF Memory!CompactDigest
<1> DEFINE counted == IF readable THEN Memory!WithRecalls(old.items, old.index, memDigest) ELSE old.items
<1> DEFINE merged == Memory!Merged(counted, newer)
<1> DEFINE left == Memory!Trimmed(merged)
<1> DEFINE new == Memory!Relabelled(left, [old.index EXCEPT !.upto = old.size])
<1> DEFINE r == [old EXCEPT !.pc = "compactWrite", !.items = new.items, !.index = new.index, !.size = 0]
<1>3. /\ new.index.upto = old.size
      /\ Covers(old.items, old.index, memDigest, old.size, readable) => AtMost(new.items, old.size)
  <2>1. new = Compacted(old.items, old.index, memDigest, old.size, newer, readable)
    BY DEF Compacted
  <2> HIDE DEF new, old
  <2> QED BY <1>1, <2>1, CompactedFits
<1>4. memWriter' = [memWriter EXCEPT ![w] = r]
  BY <1>2 DEF Memory!Becomes
<1> HIDE DEF counted, merged, left, new
<1>5. r.pc = "compactWrite" /\ r.items = new.items /\ r.index = new.index
  BY <1>1 DEF Hands
<1> HIDE DEF r
<1>6. ASSUME ~memRecounted', ~Saves(memWriter) PROVE Carries(r, memIndex, memDigest)
  <2>1. ~memRecounted /\ (readable => ~(Len(memDigest) > old.size))
    BY <1>2, <1>6
  <2>2. Carries(old, memIndex, memDigest)
    BY <1>6, <2>1 DEF RecallsInv, RecallsFit
  <2>3. /\ old.index.upto <= old.size /\ old.size <= Len(memDigest)
        /\ AtMost(old.items, old.index.upto)
    BY <1>0, <2>2 DEF Carries
  <2>4. Covers(old.items, old.index, memDigest, old.size, readable)
    BY <1>1, <2>1, <2>3 DEF Covers
  <2> QED BY <1>3, <1>5, <2>3, <2>4 DEF Carries
<1>7. r.pc \in Memory!Compacting /\ old.pc # "compactSave"
  BY <1>0, <1>5 DEF Memory!Compacting
<1>8. ~memRecounted' => ~memRecounted
  BY <1>2
<1> QED BY <1>0, <1>4, <1>6, <1>7, <1>8, CarriesStep

\* The records a lone compaction writes have no recall its index will not cover.
LEMMA CompactWriteCounts ==
  ASSUME Memory!MemoryBounds, MemoryInv, RecallsInv, NEW w \in Writers, Memory!CompactWrite(w) PROVE RecallsInv'
<1> DEFINE old == memWriter[w]
<1> DEFINE r == [old EXCEPT !.pc = "compactSave"]
<1>0. /\ old.pc = "compactWrite" /\ memRecords' = Memory!Written(old.items)
      /\ memIndex' = memIndex /\ memDigest' = memDigest
      /\ memRecounted' = (memRecounted \/ ~Memory!OthersRest(w))
      /\ memWriter' = [memWriter EXCEPT ![w] = r]
  BY DEF Memory!CompactWrite, Memory!At, Memory!Goto, Memory!Becomes
<1>1. old \in Hands /\ old.items \in Seq(Memory!Item)
  BY InvParts DEF Hands
<1>2. r.pc = "compactSave" /\ r.index = old.index
  BY <1>1 DEF Hands
<1> HIDE DEF r
<1>3. \A o \in Writers : memWriter'[o] = IF o = w THEN r ELSE memWriter[o]
  BY <1>0, InvParts
<1>4. \A o \in Writers : memWriter'[o].pc \in {"storeIndex", "storeAppend"} => memWriter'[o].item.access = 0
  BY <1>2, <1>3 DEF RecallsInv
<1>5. ASSUME ~memRecounted' PROVE RecallsFit(memRecords', memWriter', memIndex', memDigest')
  <2>1. ~memRecounted /\ \A o \in Writers : o # w => memWriter[o].pc = "idle"
    BY <1>0, <1>5 DEF Memory!OthersRest, Memory!At
  <2>2. RecallsFit(memRecords, memWriter, memIndex, memDigest)
    BY <2>1 DEF RecallsInv
  <2>3. ~Saves(memWriter)
    BY <1>0, <2>1 DEF Saves
  <2>4. /\ old.index.upto <= Len(memDigest)
        /\ \A i \in DOMAIN old.items : old.items[i].access <= old.index.upto
    BY <1>0, <2>2, <2>3 DEF RecallsFit, Carries, AtMost
  <2>5. Range(memRecords') \subseteq Range(old.items) \cup {Memory!CutLine}
    BY <1>0, <1>1, WrittenIs
  <2>6. \A a \in Range(memRecords') \ {Memory!CutLine} :
          a.access \in Nat /\ a.access <= old.index.upto /\ a.access <= Len(memDigest)
    <3> TAKE a \in Range(memRecords') \ {Memory!CutLine}
    <3>1. PICK i \in DOMAIN old.items : a = old.items[i]
      BY <2>5 DEF Range
    <3>2. a.access \in Nat /\ a.access <= old.index.upto
      BY <2>4, <3>1, Counts
    <3>3. old.index.upto \in Nat /\ Len(memDigest) \in Nat
      BY Counts
    <3> QED BY <2>4, <3>2, <3>3
  <2>7. \A o \in Writers : memWriter'[o].pc \in {"idle", "compactSave"}
          /\ (memWriter'[o].pc = "compactSave" => memWriter'[o].index = old.index)
    BY <1>2, <1>3, <2>1
  <2>8. Saves(memWriter')
    BY <1>2, <1>3 DEF Saves
  <2> QED BY <1>0, <2>2, <2>4, <2>6, <2>7, <2>8 DEF RecallsFit, Fits, Stores
<1> QED BY <1>4, <1>5 DEF RecallsInv

\* The index of a compaction is written while everybody else rests.
LEMMA SavedAlone ==
  ASSUME Memory!MemoryBounds, MemoryInv, RecallsInv, NEW w \in Writers, memWriter[w].pc = "compactSave",
         memIndex' = memWriter[w].index, memRecords' = memRecords, memDigest' = memDigest,
         NEW r, r.pc \in Afters, memWriter' = [memWriter EXCEPT ![w] = r],
         ~memRecounted' => Memory!OthersRest(w) /\ ~memRecounted
  PROVE  RecallsInv'
<1> DEFINE old == memWriter[w]
<1>1. \A o \in Writers : memWriter'[o] = IF o = w THEN r ELSE memWriter[o]
  BY InvParts
<1>2. \A o \in Writers : memWriter'[o].pc \in {"storeIndex", "storeAppend"} => memWriter'[o].item.access = 0
  BY <1>1 DEF RecallsInv, Afters
<1>3. ASSUME ~memRecounted' PROVE RecallsFit(memRecords', memWriter', memIndex', memDigest')
  <2>1. ~memRecounted /\ \A o \in Writers : o # w => memWriter[o].pc = "idle"
    BY <1>3 DEF Memory!OthersRest, Memory!At
  <2>2. RecallsFit(memRecords, memWriter, memIndex, memDigest)
    BY <2>1 DEF RecallsInv
  <2>3. \A o \in Writers : memWriter'[o].pc \in Afters
    BY <1>1, <2>1 DEF Afters
  <2>4. /\ old.index.upto <= Len(memDigest)
        /\ Fits(memRecords, memWriter, old.index.upto) /\ Fits(memRecords, memWriter, Len(memDigest))
    BY <2>2 DEF RecallsFit
  <2>5. \A o \in Writers : memWriter'[o].pc \notin
          {"compactIndex", "compactSize", "compactDigest", "compactWrite",
           "compactSave", "forgetAppend", "storeAppend", "storeSave", "forgetSave"}
    BY <2>3 DEF Afters
  <2> QED BY <2>4, <2>5 DEF RecallsFit, Fits, Saves, Stores, Carries
<1> QED BY <1>2, <1>3 DEF RecallsInv

LEMMA CompactSaveCounts ==
  ASSUME Memory!MemoryBounds, MemoryInv, RecallsInv, NEW w \in Writers, Memory!CompactSave(w) PROVE RecallsInv'
<1> DEFINE old == memWriter[w]
<1> DEFINE r == [old EXCEPT !.pc = old.after, !.items = <<>>, !.index = Memory!NoIndex]
<1>0. /\ old.pc = "compactSave" /\ memIndex' = old.index
      /\ \/ memWriter' = [memWriter EXCEPT ![w] = Memory!Resting]
         \/ memWriter' = [memWriter EXCEPT ![w] = r]
      /\ memRecords' = memRecords /\ memDigest' = memDigest
      /\ memRecounted' = (memRecounted \/ ~Memory!OthersRest(w))
  BY DEF Memory!CompactSave, Memory!At, Memory!Becomes
<1>1. old \in Hands
  BY InvParts
<1>2. r.pc \in Afters /\ Memory!Resting.pc \in Afters
  BY <1>1 DEF Hands, Memory!Resting, Afters
<1> HIDE DEF r
<1>3. ~memRecounted' => Memory!OthersRest(w) /\ ~memRecounted
  BY <1>0
<1> QED BY <1>0, <1>2, <1>3, SavedAlone

\* Without MEMORY.md the index is written all the same.
LEMMA MarkdownFailsCounts ==
  ASSUME Memory!MemoryBounds, MemoryInv, RecallsInv, NEW w \in Writers, Memory!MarkdownFails(w) PROVE RecallsInv'
<1> DEFINE r == memWriter[w]
<1>0. /\ memRecords' = memRecords /\ memDigest' = memDigest
      /\ memWriter' = [memWriter EXCEPT ![w] = Memory!Resting]
      /\ r.pc \in {"storeSave", "forgetSave", "compactSave"}
      /\ r.pc = "storeSave" => memIndex' = Memory!Counted(r.index, r.item.sid)
      /\ r.pc = "forgetSave" => memIndex' = Memory!Uncounted(r.index, r.items[1].sid)
      /\ r.pc = "compactSave" => memIndex' = r.index
      /\ memRecounted' = (memRecounted \/ (r.pc = "compactSave" /\ ~Memory!OthersRest(w)))
  BY DEF Memory!MarkdownFails, Memory!Saving, Memory!Ends, Memory!Becomes, Memory!At
<1>1. r \in Hands /\ Handles(r) /\ r.index \in Index
  BY InvParts DEF Hands
<1>2. CASE r.pc = "compactSave"
  <2>1. Memory!Resting.pc \in Afters
    BY DEF Memory!Resting, Afters
  <2>2. ~memRecounted' => Memory!OthersRest(w) /\ ~memRecounted
    BY <1>0, <1>2
  <2> QED BY <1>0, <1>2, <2>1, <2>2, SavedAlone
<1>3. CASE r.pc \in {"storeSave", "forgetSave"}
  <2>1. memIndex'.upto = r.index.upto /\ memIndex'.whole = r.index.whole
    <3>1. CASE r.pc = "storeSave"
      <4>1. r.item.sid \in Nat
        BY <1>1, <3>1 DEF Handles, Memory!Item
      <4> QED BY <1>0, <1>1, <3>1, <4>1, CountedIs
    <3>2. CASE r.pc = "forgetSave"
      <4>1. r.items \in Seq(Memory!Item) /\ Len(r.items) = 1
        BY <1>1, <3>2 DEF Hands, Handles
      <4>2. r.items[1] \in Memory!Item
        BY <4>1
      <4>3. r.items[1].sid \in Nat
        BY <4>2 DEF Memory!Item
      <4>4. /\ Memory!Uncounted(r.index, r.items[1].sid).upto = r.index.upto
            /\ Memory!Uncounted(r.index, r.items[1].sid).whole = r.index.whole
        BY <1>1, <4>3, UncountedIs
      <4> QED BY <1>0, <3>2, <4>4
    <3> QED BY <1>3, <3>1, <3>2
  <2>2. ~memRecounted => r.index.upto = memIndex.upto /\ r.index.whole /\ memIndex.whole
    BY <1>3 DEF RecallsInv, RecallsFit, Stores
  <2>3. memIndex.whole \in BOOLEAN /\ r.index.whole \in BOOLEAN
    BY <1>1, InvParts DEF Index
  <2>4. ~memRecounted' => /\ ~memRecounted /\ r.pc # "compactSave"
                          /\ memIndex'.upto = memIndex.upto /\ memIndex'.whole = memIndex.whole
    BY <1>0, <1>3, <2>1, <2>2, <2>3
  <2>5. Brings(w, memRecords') /\ Goes(w, Memory!Resting)
    BY <1>0, RestingGoes DEF Brings
  <2> HIDE DEF r
  <2> QED BY <1>0, <2>4, <2>5, GoesStep DEF r
<1> QED BY <1>0, <1>2, <1>3

LEMMA RecallCounts ==
  ASSUME Memory!MemoryBounds, MemoryInv, RecallsInv, Memory!Recall, MemoryInv' PROVE RecallsInv'
<1>1. /\ memRecords' = memRecords /\ memIndex' = memIndex /\ memWriter' = memWriter
      /\ memRecounted' = memRecounted
  BY DEF Memory!Recall, Memory!history
<1>2. Len(memDigest') >= Len(memDigest) /\ Len(memDigest') \in Nat
  <2>1. PICK found : memDigest' = memDigest \o [i \in DOMAIN found |-> found[i].id] /\ found \in Seq(Memory!Item)
    <3> DEFINE live == Memory!Live(memRecords)
    <3> DEFINE Of(l) == {i \in DOMAIN live : live[i].sid = memIndex.sums[l].id}
    <3>1. PICK l \in Labels :
            memDigest' = memDigest \o [i \in DOMAIN Memory!Picked(live, Of(l)) |-> Memory!Picked(live, Of(l))[i].id]
      BY DEF Memory!Recall
    <3>2. Of(l) \in SUBSET DOMAIN live /\ live \in Seq(Memory!Item)
      BY LiveIs, InvParts
    <3> HIDE DEF live, Of
    <3>3. Memory!Picked(live, Of(l)) \in Seq(Memory!Item)
      BY <3>2, PickedIs, PicksAlike
    <3> QED BY <3>1, <3>3
  <2> DEFINE ids == [i \in DOMAIN found |-> found[i].id]
  <2>2. DOMAIN found = 1..Len(found) /\ Len(found) \in Nat /\ \A i \in DOMAIN found : found[i].id \in 1..MaxIds
    <3>1. DOMAIN found = 1..Len(found) /\ Len(found) \in Nat /\ \A i \in DOMAIN found : found[i] \in Memory!Item
      BY <2>1
    <3> QED BY <3>1 DEF Memory!Item
  <2>3. ids \in Seq(1..MaxIds)
    <3>1. ids \in [1..Len(found) -> 1..MaxIds]
      BY <2>2
    <3> QED BY <2>2, <3>1
  <2> HIDE DEF ids
  <2> DEFINE S == 1..MaxIds
  <2>4. memDigest \in Seq(S) /\ ids \in Seq(S) /\ memDigest' = memDigest \o ids
    BY <2>1, <2>3, InvParts DEF ids
  <2> HIDE DEF S
  <2>5. Len(memDigest') = Len(memDigest) + Len(ids) /\ Len(memDigest) \in Nat /\ Len(ids) \in Nat
    BY <2>4
  <2> QED BY <2>5
<1>3. ASSUME ~memRecounted PROVE RecallsFit(memRecords, memWriter, memIndex, memDigest')
  <2>1. RecallsFit(memRecords, memWriter, memIndex, memDigest)
    BY <1>3 DEF RecallsInv
  <2>2. \A n \in Nat : n <= Len(memDigest) => n <= Len(memDigest')
    BY <1>2, Counts
  <2>3. Fits(memRecords, memWriter, Len(memDigest'))
    <3>1. Fits(memRecords, memWriter, Len(memDigest))
      BY <2>1 DEF RecallsFit
    <3>2. /\ \A a \in Range(memRecords) \ {Memory!CutLine} : a.access \in Nat
          /\ \A o \in Writers : memWriter[o].pc = "forgetAppend" => memWriter[o].items[1].access \in Nat
      BY Counts
    <3> QED BY <2>2, <3>1, <3>2 DEF Fits
  <2>4. /\ memIndex.upto \in Nat
        /\ \A o \in Writers : memWriter[o].index.upto \in Nat /\ memWriter[o].size \in Nat
    BY Counts
  <2>5. \A o \in Writers : Carries(memWriter[o], memIndex, memDigest) => Carries(memWriter[o], memIndex, memDigest')
    BY <2>2, <2>4 DEF Carries
  <2> QED BY <2>1, <2>2, <2>3, <2>4, <2>5 DEF RecallsFit
<1> QED BY <1>1, <1>3 DEF RecallsInv

LEMMA PowerCutCounts ==
  ASSUME Memory!MemoryBounds, MemoryInv, RecallsInv, Memory!PowerCut PROVE RecallsInv'
<1> DEFINE boot == [Memory!Resting EXCEPT !.pc = "compactRead", !.op = "boot"]
<1>1. boot.pc = "compactRead" /\ Memory!Resting.pc = "idle"
  BY DEF Memory!Resting
<1> HIDE DEF boot
<1>2. \A o \in Writers : memWriter'[o].pc \in {"idle", "compactRead"}
  <2>1. PICK w \in Writers : memWriter' = [o \in Writers |-> IF o = w THEN boot ELSE Memory!Resting]
    BY DEF Memory!PowerCut, boot
  <2> QED BY <1>1, <2>1
<1>3. ASSUME ~memRecounted' PROVE RecallsFit(memRecords', memWriter', memIndex', memDigest')
  <2>1. /\ ~memRecounted /\ \A w \in Writers : memWriter[w].pc # "compactSave"
        /\ \/ memRecords' = memRecords
           \/ memRecords' = Memory!WithLine(memRecords, Memory!CutLine)
        /\ memIndex' = memIndex \/ memIndex' = Memory!NoIndex
        /\ memDigest' = memDigest
    BY <1>3 DEF Memory!PowerCut, Memory!At
  <2>2. RecallsFit(memRecords, memWriter, memIndex, memDigest) /\ ~Saves(memWriter)
    BY <2>1 DEF RecallsInv, Saves
  <2>3. Range(memRecords') \subseteq Range(memRecords) \cup {Memory!CutLine}
    BY <2>1, CutLineKeeps, InvParts
  <2>4. \A upto : Fits(memRecords, memWriter, upto) => Fits(memRecords', memWriter', upto)
    BY <1>2, <2>3 DEF Fits
  <2>5. Memory!NoIndex.upto = 0 /\ ~Memory!NoIndex.whole /\ Len(memDigest) \in Nat
    BY Counts, IndexesAre
  <2>6. memIndex'.upto <= Len(memDigest') /\ (memIndex'.whole => memIndex' = memIndex)
    BY <2>1, <2>2, <2>5 DEF RecallsFit
  <2>7. \A o \in Writers : memWriter'[o].pc \notin
          {"compactIndex", "compactSize", "compactDigest", "compactWrite", "compactSave",
           "storeAppend", "storeSave", "forgetSave"}
    BY <1>2
  <2>8. Fits(memRecords', memWriter', Len(memDigest'))
    BY <2>1, <2>2, <2>4 DEF RecallsFit
  <2>9. memIndex'.whole => Fits(memRecords', memWriter', memIndex'.upto)
    BY <2>2, <2>4, <2>6 DEF RecallsFit
  <2> QED BY <2>6, <2>7, <2>8, <2>9 DEF RecallsFit, Stores, Carries
<1> QED BY <1>2, <1>3 DEF RecallsInv

LEMMA StartsCounted == ASSUME Memory!MemoryBounds, Memory!Init PROVE RecallsInv
<1>1. /\ memWriter = [w \in Writers |-> Memory!Resting] /\ memDigest = <<>> /\ ~memRecounted
  BY DEF Memory!Init
<1>2. \A o \in Writers : memWriter[o].pc = "idle"
  BY <1>1 DEF Memory!Resting
<1>3. (\A a \in Range(memRecords) : a.access = 0) /\ memIndex.upto = 0
  <2>1. CASE memRecords = <<>> /\ memIndex = Memory!NewIndex
    BY <2>1 DEF Range, Memory!NewIndex
  <2>2. ASSUME NEW k \in MemKeys, NEW l \in Labels,
               memRecords = <<[id |-> 1, key |-> k, label |-> l, sid |-> 1, live |-> TRUE, access |-> 0]>>,
               memIndex = [Memory!NewIndex EXCEPT !.sums[l] = [id |-> 1, refs |-> 1], !.next = 2]
        PROVE  (\A a \in Range(memRecords) : a.access = 0) /\ memIndex.upto = 0
    <3>1. \A a \in Range(memRecords) : a.access = 0
      BY <2>2 DEF Range
    <3>2. memIndex.upto = 0
      BY <2>2 DEF Memory!NewIndex
    <3> QED BY <3>1, <3>2
  <2>3. (CHOOSE l \in Labels : TRUE) \in Labels
    BY DEF Memory!MemoryBounds
  <2> QED BY <2>1, <2>2, <2>3 DEF Memory!Init
<1>4. Len(memDigest) = 0
  BY <1>1
<1>5. Fits(memRecords, memWriter, 0)
  BY <1>2, <1>3 DEF Fits
<1>6. RecallsFit(memRecords, memWriter, memIndex, memDigest)
  BY <1>2, <1>3, <1>4, <1>5 DEF RecallsFit, Saves, Stores, Carries
<1> QED BY <1>2, <1>6 DEF RecallsInv

LEMMA StepsCounted ==
  ASSUME Memory!MemoryBounds, MemoryInv, RecallsInv, [Memory!Next]_(Memory!memVars), MemoryInv' PROVE RecallsInv'
<1>1. CASE UNCHANGED Memory!memVars
  BY <1>1 DEF Memory!memVars, RecallsInv
<1>2. CASE Memory!Recall
  BY <1>2, RecallCounts
<1>3. CASE Memory!PowerCut
  BY <1>3, PowerCutCounts
<1>4. ASSUME NEW w \in Writers,
             \/ Memory!BeginStore(w) \/ Memory!BeginUpdate(w) \/ Memory!BeginForget(w)
             \/ Memory!StoreItems(w) \/ Memory!UpdateItems(w) \/ Memory!StoreIndex(w) \/ Memory!StoreAppend(w) \/ Memory!StoreSave(w)
             \/ Memory!ForgetItems(w) \/ Memory!ForgetAppend(w) \/ Memory!ForgetIndex(w) \/ Memory!ForgetSave(w) \/ Memory!UpdateEnd(w)
             \/ Memory!CompactRead(w) \/ Memory!CompactIndex(w) \/ Memory!CompactSize(w)
             \/ Memory!CompactDigest(w) \/ Memory!CompactWrite(w) \/ Memory!CompactSave(w)
             \/ Memory!OpenFails(w) \/ Memory!MarkdownFails(w)
      PROVE  RecallsInv'
  BY <1>4, BeginsCounts, StoreItemsCounts, UpdateItemsCounts, StoreIndexCounts, StoreAppendCounts,
     StoreSaveCounts, ForgetItemsCounts, ForgetAppendCounts, ForgetIndexCounts, ForgetSaveCounts,
     UpdateEndCounts, CompactReadCounts, CompactIndexCounts, CompactSizeCounts, CompactDigestCounts,
     CompactWriteCounts, CompactSaveCounts, OpenFailsCounts, MarkdownFailsCounts
<1> QED BY <1>1, <1>2, <1>3, <1>4 DEF Memory!Next

LEMMA RecallsSound ==
  ASSUME Memory!MemoryBounds, MemoryInv, RecallsInv PROVE Memory!RecallsCountedOnce
<1>1. Memory!LiveSet(memRecords) \subseteq Range(memRecords) \ {Memory!CutLine}
  BY LiveSetSound, InvParts DEF Range
<1> QED BY <1>1 DEF Memory!RecallsCountedOnce, RecallsInv, RecallsFit, Fits
=============================================================================
