-------------------------- MODULE ImInbound_proofs --------------------------
(***************************************************************************)
(* Proofs about receiving on each chat platform, for any numbers of        *)
(* messages, frames, connections and resets and any sizes of rings and     *)
(* queues.                                                                 *)
(***************************************************************************)
EXTENDS ImInbound, Integers, SequenceTheorems, FiniteSetTheorems, SequencesExt, TLAPS

(* Lemmas about sequences that several platforms need.                      *)
LEMMA RingKeeps ==
  ASSUME NEW S, NEW ring \in Seq(S), NEW x \in S, NEW size \in Nat \ {0}, Len(ring) <= size
  PROVE  LET r == Append(ring, x)
             kept == IF Len(r) > size THEN Tail(r) ELSE r
         IN  kept \in Seq(S) /\ Len(kept) <= size
<1> DEFINE r == Append(ring, x)
<1>1. r \in Seq(S) /\ r # <<>> /\ Len(r) = Len(ring) + 1 /\ Len(ring) \in Nat
  BY AppendProperties
<1>2. Tail(r) \in Seq(S) /\ Len(Tail(r)) = Len(r) - 1
  BY <1>1, HeadTailProperties
<1> QED BY <1>1, <1>2

LEMMA CountTo == ASSUME NEW n \in Nat PROVE IsFiniteSet(1..n) /\ Cardinality(1..n) = n
<1>1. 1 \in Int /\ n \in Int
  OBVIOUS
<1>2. IsFiniteSet(1..n) /\ Cardinality(1..n) = (IF 1 > n THEN 0 ELSE n - 1 + 1)
  BY ONLY <1>1, FS_Interval
<1> QED BY <1>2

LEMMA LargerOne == ASSUME NEW a \in Nat, NEW b \in Nat
                   PROVE Max({a, b}) = IF a >= b THEN a ELSE b
<1>1. CASE a >= b
  <2>1. \A x \in {a, b} : (\A y \in {a, b} : x >= y) <=> x = a
    BY <1>1
  <2> QED BY <1>1, <2>1 DEF Max
<1>2. CASE a < b
  <2>1. \A x \in {a, b} : (\A y \in {a, b} : x >= y) <=> x = b
    BY <1>2
  <2> QED BY <1>2, <2>1 DEF Max
<1> QED BY <1>1, <1>2

(* A batch holds consecutive numbers.                                       *)
Consecutive(batch) == \A i \in DOMAIN batch : batch[i] = batch[1] + i - 1

LEMMA NewBatch ==
  ASSUME NEW f \in Nat, NEW k \in Nat, NEW last \in Nat, f + k <= last
  PROVE  LET batch == [i \in 1..k |-> f + i]
         IN  /\ batch \in Seq(1..last) /\ Len(batch) = k /\ Consecutive(batch)
             /\ batch # <<>> <=> k > 0
             /\ k > 0 => batch[1] = f + 1
<1> DEFINE batch == [i \in 1..k |-> f + i]
<1>1. batch \in [1..k -> 1..last]
  OBVIOUS
<1>2. batch \in Seq(1..last)
  <2>1. Seq(1..last) = UNION {[1..m -> 1..last] : m \in Nat}
    BY SeqDef, Zenon
  <2> HIDE DEF batch
  <2> QED BY <1>1, <2>1, Zenon
<1>3. Len(batch) = k
  OBVIOUS
<1>4. \A i \in DOMAIN batch : i \in 1..k /\ k > 0 /\ batch[i] = f + i /\ batch[1] = f + 1
  OBVIOUS
<1>5. Consecutive(batch)
  <2> SUFFICES ASSUME NEW i \in DOMAIN batch PROVE batch[i] = batch[1] + i - 1
    BY DEF Consecutive
  <2>1. i \in 1..k /\ batch[i] = f + i /\ batch[1] = f + 1
    BY <1>4
  <2> HIDE DEF batch
  <2> QED BY <2>1
<1>6. k > 0 => batch[1] = f + 1
  OBVIOUS
<1>7. batch # <<>> <=> k > 0
  <2> HIDE DEF batch
  <2> QED BY <1>2, <1>3
<1> QED BY <1>2, <1>3, <1>5, <1>6, <1>7

LEMMA RestOfBatch ==
  ASSUME NEW last \in Nat, NEW batch \in Seq(1..last), batch # <<>>, Consecutive(batch)
  PROVE  /\ Head(batch) = batch[1] /\ Head(batch) \in 1..last
         /\ Tail(batch) \in Seq(1..last) /\ Consecutive(Tail(batch))
         /\ Tail(batch) # <<>> <=> Len(batch) > 1
         /\ Tail(batch) # <<>> => Tail(batch)[1] = batch[1] + 1
         /\ Len(Tail(batch)) = Len(batch) - 1
<1>1. /\ Head(batch) = batch[1] /\ Head(batch) \in 1..last /\ Tail(batch) \in Seq(1..last)
      /\ Len(Tail(batch)) = Len(batch) - 1 /\ Len(batch) \in Nat /\ Len(batch) > 0
      /\ Tail(batch) # <<>> <=> Len(batch) > 1
  <2>1. Len(batch) \in Nat /\ Len(batch) > 0 /\ Head(batch) = batch[1] /\ 1 \in DOMAIN batch
    OBVIOUS
  <2>2. Head(batch) \in 1..last /\ Tail(batch) \in Seq(1..last) /\ Len(Tail(batch)) = Len(batch) - 1
    BY HeadTailProperties
  <2>3. Tail(batch) # <<>> <=> Len(Tail(batch)) > 0
    BY <2>2
  <2> QED BY <2>1, <2>2, <2>3
<1>2. \A i \in DOMAIN Tail(batch) :
        /\ i \in Nat /\ i + 1 \in DOMAIN batch /\ Tail(batch)[i] = batch[i + 1]
        /\ 1 \in DOMAIN Tail(batch) /\ 2 \in DOMAIN batch /\ Tail(batch)[1] = batch[2]
  BY <1>1
<1>3. ASSUME NEW i \in DOMAIN Tail(batch)
      PROVE Tail(batch)[i] = batch[1] + i /\ Tail(batch)[1] = batch[1] + 1
  <2>1. batch[i + 1] = batch[1] + (i + 1) - 1 /\ batch[2] = batch[1] + 2 - 1
    BY <1>2 DEF Consecutive
  <2>2. batch[1] \in Nat /\ i \in Nat
    BY <1>1, <1>2
  <2> QED BY <1>2, <2>1, <2>2
<1>4. Consecutive(Tail(batch))
  <2> SUFFICES ASSUME NEW i \in DOMAIN Tail(batch) PROVE Tail(batch)[i] = Tail(batch)[1] + i - 1
    BY DEF Consecutive
  <2>1. Tail(batch)[i] = batch[1] + i /\ Tail(batch)[1] = batch[1] + 1 /\ i \in Nat
    BY <1>2, <1>3
  <2>2. batch[1] \in Nat
    BY <1>1
  <2> QED BY <2>1, <2>2
<1>5. Tail(batch) # <<>> => 1 \in DOMAIN Tail(batch)
  BY <1>1
<1> QED BY <1>1, <1>3, <1>4, <1>5

LEMMA RangesGrow == ASSUME NEW m \in Nat, NEW n \in Nat, n <= m + 1
                    PROVE 1..(n - 1) \subseteq 1..m
  OBVIOUS

LEMMA GrowingText ==
  ASSUME NEW last \in Nat, NEW texts \in Seq(1..last), NEW m \in 1..last,
         \A i \in DOMAIN texts : texts[i] < m,
         \A i, j \in DOMAIN texts : i < j => texts[i] < texts[j]
  PROVE  /\ Append(texts, m) \in Seq(1..last)
         /\ \A i \in DOMAIN Append(texts, m) : Append(texts, m)[i] <= m
         /\ \A i, j \in DOMAIN Append(texts, m) : i < j => Append(texts, m)[i] < Append(texts, m)[j]
<1> DEFINE more == Append(texts, m)
<1>1. /\ more \in Seq(1..last) /\ more[Len(texts) + 1] = m /\ Len(texts) \in Nat
      /\ DOMAIN more = 1..(Len(texts) + 1) /\ DOMAIN texts = 1..Len(texts)
      /\ \A i \in 1..Len(texts) : more[i] = texts[i] /\ more[i] \in Nat /\ more[i] < m
  OBVIOUS
<1> HIDE DEF more
<1>2. \A i \in DOMAIN more : i \in Nat /\ (i \in 1..Len(texts) \/ i = Len(texts) + 1)
  BY <1>1
<1>3. \A i \in DOMAIN more : more[i] <= m
  BY <1>1, <1>2
<1>4. ASSUME NEW i \in DOMAIN more, NEW j \in DOMAIN more, i < j PROVE more[i] < more[j]
  <2>1. i \in 1..Len(texts)
    BY <1>1, <1>2, <1>4
  <2>2. CASE j \in 1..Len(texts)
    BY <1>1, <1>4, <2>1, <2>2
  <2>3. CASE j = Len(texts) + 1
    BY <1>1, <2>1, <2>3
  <2> QED BY <1>2, <2>2, <2>3
<1> QED BY <1>1, <1>3, <1>4 DEF more

LEMMA NumbersOf == ASSUME NEW last \in Nat, NEW s \in Seq(1..last)
                   PROVE \A i \in DOMAIN s : s[i] \in 1..last /\ s[i] \in Nat
  OBVIOUS


(* Different numbers closer than w to m, and not m, are fewer than 2 w - 1. *)
LEMMA FewAreNear ==
  ASSUME NEW w \in Nat \ {0}, NEW size \in Nat \ {0}, 2 * w <= size + 1,
         NEW ring \in Seq(Nat), Len(ring) = size, NEW m \in Nat,
         \A i, j \in DOMAIN ring : i < j => ring[i] # ring[j],
         \A i \in DOMAIN ring : ring[i] # m /\ m < ring[i] + w /\ ring[i] < m + w
  PROVE  FALSE
<1> DEFINE around == (m - w + 1)..(m + w - 1)
<1>1. m - w + 1 \in Int /\ m + w - 1 \in Int /\ m \in around
      /\ (m + w - 1) - (m - w + 1) + 1 = 2 * w - 1 /\ ~(m - w + 1 > m + w - 1)
  OBVIOUS
<1>2. IsFiniteSet(around) /\ Cardinality(around) = 2 * w - 1
  <2>1. /\ IsFiniteSet(around)
        /\ Cardinality(around) = IF m - w + 1 > m + w - 1 THEN 0 ELSE (m + w - 1) - (m - w + 1) + 1
    <3>1. m - w + 1 \in Int /\ m + w - 1 \in Int
      BY <1>1
    <3> QED BY <3>1, FS_Interval
  <2> QED BY <1>1, <2>1
<1>3. IsFiniteSet(around \ {m}) /\ Cardinality(around \ {m}) = 2 * w - 2
  <2>1. /\ IsFiniteSet(around \ {m})
        /\ Cardinality(around \ {m}) = IF m \in around THEN Cardinality(around) - 1 ELSE Cardinality(around)
    <3> HIDE DEF around
    <3> QED BY <1>2, FS_RemoveElement
  <2> HIDE DEF around
  <2> QED BY <1>1, <1>2, <2>1
<1>4. IsFiniteSet(1..size) /\ Cardinality(1..size) = size
  BY FS_Interval
<1>5. ring \in [1..size -> around \ {m}]
  <2>1. \A i \in 1..size : ring[i] \in Nat /\ ring[i] # m /\ m < ring[i] + w /\ ring[i] < m + w
    <3>1. DOMAIN ring = 1..size
      BY LenProperties
    <3>2. \A i \in DOMAIN ring : ring[i] \in Nat
      OBVIOUS
    <3> HIDE DEF around
    <3> QED BY <3>1, <3>2, Zenon
  <2>2. \A i \in 1..size : ring[i] \in around \ {m}
    BY <2>1
  <2>3. ring \in [1..size -> Nat]
    OBVIOUS
  <2> HIDE DEF around
  <2> QED BY <2>2, <2>3
<1> HIDE DEF around
<1>6. Cardinality(around \ {m}) < Cardinality(1..size)
  BY <1>3, <1>4
<1>7. \E i, j \in 1..size : i # j /\ ring[i] = ring[j]
  <2>1. PICK near : IsFiniteSet(near) /\ Cardinality(near) < Cardinality(1..size) /\ ring \in [1..size -> near]
    BY <1>3, <1>5, <1>6, Zenon
  <2>2. PICK all : all = 1..size /\ IsFiniteSet(all)
    BY <1>4, Zenon
  <2>3. \E i, j \in all : i # j /\ ring[i] = ring[j]
    BY <2>1, <2>2, FS_PigeonHole
  <2> QED BY <2>2, <2>3
<1>8. DOMAIN ring = 1..size
  BY LenProperties
<1>9. \A i, j \in 1..size : i # j => i < j \/ j < i
  OBVIOUS
<1> QED BY <1>7, <1>8, <1>9

(* In a ring of different numbers, none much larger than those after it.    *)
RingOrdered(ring, w) ==
  \A i, j \in DOMAIN ring : i < j => ring[i] # ring[j] /\ ring[i] < ring[j] + w

(* What has left the ring is not much larger than what is in it.            *)
LeftBehind(x, ring, size, w) == Len(ring) = size /\ \A i \in DOMAIN ring : x < ring[i] + w

LEMMA RingMoves ==
  ASSUME NEW w \in Nat \ {0}, NEW size \in Nat \ {0}, NEW ring \in Seq(Nat), Len(ring) <= size,
         NEW m \in Nat, RingOrdered(ring, w), m \notin ToSet(ring),
         \A x \in ToSet(ring) : x < m + w
  PROVE  LET r == Append(ring, m)
             kept == IF Len(r) > size THEN Tail(r) ELSE r
         IN  /\ RingOrdered(kept, w) /\ m \in ToSet(kept) /\ ToSet(kept) \subseteq ToSet(ring) \cup {m}
             /\ \A x \in ToSet(ring) \ ToSet(kept) : LeftBehind(x, kept, size, w)
             /\ \A x \in Nat : LeftBehind(x, ring, size, w) /\ x < m + w => LeftBehind(x, kept, size, w)
<1> DEFINE r == Append(ring, m)
           n == Len(ring)
<1>1. /\ r \in Seq(Nat) /\ Len(r) = n + 1 /\ n \in Nat /\ DOMAIN r = 1..(n + 1) /\ DOMAIN ring = 1..n
      /\ r[n + 1] = m /\ \A i \in 1..n : r[i] = ring[i] /\ ring[i] \in Nat
  OBVIOUS
<1>2. \A i \in 1..n : ring[i] \in ToSet(ring) /\ ring[i] # m /\ ring[i] < m + w
  BY <1>1 DEF ToSet
<1> HIDE DEF r, n
<1>3. ASSUME NEW i \in 1..(n + 1), NEW j \in 1..(n + 1), i < j
      PROVE r[i] # r[j] /\ r[i] < r[j] + w
  <2>1. i \in 1..n
    BY <1>1, <1>3
  <2>2. CASE j \in 1..n
    BY <1>1, <1>3, <2>1, <2>2 DEF RingOrdered
  <2>3. CASE j = n + 1
    BY <1>1, <1>2, <2>1, <2>3
  <2> QED BY <1>1, <2>2, <2>3
<1>4. ToSet(r) = ToSet(ring) \cup {m}
  <2>1. \A i \in 1..(n + 1) : i \in 1..n \/ i = n + 1
    BY <1>1
  <2>2. 1..n \subseteq 1..(n + 1) /\ n + 1 \in 1..(n + 1)
    BY <1>1
  <2>3. ToSet(r) = {r[i] : i \in 1..(n + 1)} /\ ToSet(ring) = {ring[i] : i \in 1..n}
    BY <1>1 DEF ToSet
  <2>4. ASSUME NEW x \in ToSet(r) PROVE x \in ToSet(ring) \cup {m}
    BY <1>1, <2>1, <2>3
  <2>5. ASSUME NEW x \in ToSet(ring) \cup {m} PROVE x \in ToSet(r)
    BY <1>1, <2>2, <2>3
  <2> QED BY <2>4, <2>5
<1>5. CASE ~(Len(r) > size)
  <2>1. RingOrdered(r, w)
    BY <1>1, <1>3 DEF RingOrdered
  <2>2. n # size
    BY <1>1, <1>5
  <2>3. \A x : ~LeftBehind(x, ring, size, w)
    BY <2>2 DEF LeftBehind, n
  <2> QED BY <1>4, <1>5, <2>1, <2>3 DEF r
<1>6. CASE Len(r) > size
  <2> DEFINE k == Tail(r)
  <2>1. n = size /\ n > 0
    <3>1. n \in Nat /\ n <= size /\ Len(r) = n + 1
      BY <1>1 DEF n
    <3> QED BY <1>6, <3>1
  <2>2. r # <<>>
    BY <1>1
  <2>3. Len(k) = n /\ DOMAIN k = 1..n /\ \A i \in 1..n : k[i] = r[i + 1]
    BY <1>1, <2>2
  <2>4. \A i \in 1..n : i + 1 \in 1..(n + 1) /\ 1 < i + 1 /\ 1 \in 1..(n + 1)
    BY <1>1, <2>1
  <2> HIDE DEF k
  <2>5. RingOrdered(k, w)
    <3> SUFFICES ASSUME NEW i \in 1..n, NEW j \in 1..n, i < j PROVE k[i] # k[j] /\ k[i] < k[j] + w
      BY <2>3 DEF RingOrdered
    <3>1. i + 1 < j + 1
      BY <1>1
    <3> QED BY <1>3, <2>3, <2>4, <3>1
  <2>6. m \in ToSet(k)
    <3>1. k[n] = m /\ n \in 1..n
      BY <1>1, <2>1, <2>3
    <3> QED BY <2>3, <3>1 DEF ToSet
  <2>7. ToSet(k) \subseteq ToSet(r)
    BY <1>1, <2>3, <2>4 DEF ToSet
  <2>8. ASSUME NEW x \in ToSet(ring) \ ToSet(k) PROVE LeftBehind(x, k, size, w)
    <3>1. PICK i \in 1..n : x = ring[i]
      BY <1>1, <2>8 DEF ToSet
    <3>2. i = 1
      <4> SUFFICES ASSUME i # 1 PROVE FALSE
        OBVIOUS
      <4>1. i - 1 \in 1..n /\ (i - 1) + 1 = i
        BY <1>1
      <4>2. k[i - 1] = x
        BY <1>1, <2>3, <3>1, <4>1
      <4> QED BY <2>3, <2>8, <4>1, <4>2 DEF ToSet
    <3>3. x = r[1]
      BY <1>1, <3>1, <3>2
    <3>4. \A j \in 1..n : x < k[j] + w
      BY <1>3, <2>3, <2>4, <3>3
    <3> QED BY <2>1, <2>3, <3>4 DEF LeftBehind
  <2>9. ASSUME NEW x \in Nat, LeftBehind(x, ring, size, w), x < m + w PROVE LeftBehind(x, k, size, w)
    <3>1. \A i \in 1..n : x < ring[i] + w
      BY <1>1, <2>9 DEF LeftBehind
    <3>2. \A i \in 1..(n + 1) : x < r[i] + w
      <4>1. \A i \in 1..(n + 1) : i \in 1..n \/ i = n + 1
        BY <1>1
      <4> QED BY <1>1, <2>9, <3>1, <4>1
    <3> QED BY <2>1, <2>3, <2>4, <3>2 DEF LeftBehind
  <2> QED BY <1>4, <1>6, <2>5, <2>6, <2>7, <2>8, <2>9 DEF r, k
<1> QED BY <1>5, <1>6 DEF r

LEMMA AppendToOne == ASSUME NEW S, NEW a \in S, NEW b \in S PROVE Append(<<a>>, b) = <<a, b>>
<1>1. Append(<<a>>, b) \in Seq(S) /\ Len(Append(<<a>>, b)) = 2 /\ <<a, b>> \in Seq(S) /\ Len(<<a, b>>) = 2
  OBVIOUS
<1>2. Append(<<a>>, b)[1] = a /\ Append(<<a>>, b)[2] = b /\ <<a, b>>[1] = a /\ <<a, b>>[2] = b
  OBVIOUS
<1>3. \A i \in 1..2 : Append(<<a>>, b)[i] = <<a, b>>[i]
  BY <1>2
<1> QED BY <1>1, <1>3, SeqEqual

LEMMA AppendedElements ==
  ASSUME NEW S, NEW s \in Seq(S), NEW x \in S
  PROVE  /\ Append(s, x) \in Seq(S) /\ ToSet(Append(s, x)) = ToSet(s) \cup {x}
         /\ (\A i, j \in DOMAIN s : i # j => s[i] # s[j]) /\ x \notin ToSet(s)
              => \A i, j \in DOMAIN Append(s, x) : i # j => Append(s, x)[i] # Append(s, x)[j]
<1> DEFINE r == Append(s, x)
           n == Len(s)
<1>1. /\ r \in Seq(S) /\ n \in Nat /\ DOMAIN r = 1..(n + 1) /\ DOMAIN s = 1..n
      /\ r[n + 1] = x /\ \A i \in 1..n : r[i] = s[i]
  OBVIOUS
<1> HIDE DEF r, n
<1>2. /\ \A i \in 1..(n + 1) : i \in 1..n \/ i = n + 1
      /\ 1..n \subseteq 1..(n + 1) /\ n + 1 \in 1..(n + 1)
  BY <1>1
<1>3. ToSet(r) = {r[i] : i \in 1..(n + 1)} /\ ToSet(s) = {s[i] : i \in 1..n}
  BY <1>1 DEF ToSet
<1>4. ASSUME NEW y \in ToSet(r) PROVE y \in ToSet(s) \cup {x}
  BY <1>1, <1>2, <1>3
<1>5. ASSUME NEW y \in ToSet(s) \cup {x} PROVE y \in ToSet(r)
  BY <1>1, <1>2, <1>3
<1>6. ASSUME \A i, j \in DOMAIN s : i # j => s[i] # s[j], x \notin ToSet(s),
             NEW i \in DOMAIN r, NEW j \in DOMAIN r, i # j
      PROVE  r[i] # r[j]
  BY <1>1, <1>2, <1>3, <1>6
<1> QED BY <1>1, <1>4, <1>5, <1>6 DEF r

-----------------------------------------------------------------------------
(***************************************************************************)
(* Receiving on QQ.                                                        *)
(***************************************************************************)

LEMMA QqFiniteSets ==
  \A S : (Qq!IsFiniteSet(S) <=> IsFiniteSet(S)) /\ Qq!Cardinality(S) = Cardinality(S)
  BY DEF Qq!IsFiniteSet, IsFiniteSet, Qq!Cardinality, Cardinality

LEMMA QqRingMoves ==
  ASSUME NEW w \in Nat \ {0}, NEW size \in Nat \ {0}, NEW ring \in Seq(Nat), Len(ring) <= size,
         NEW m \in Nat, RingOrdered(ring, w), m \notin Qq!ToSet(ring),
         \A x \in Qq!ToSet(ring) : x < m + w
  PROVE  LET r == Append(ring, m)
             kept == IF Len(r) > size THEN Tail(r) ELSE r
         IN  /\ RingOrdered(kept, w) /\ m \in Qq!ToSet(kept)
             /\ Qq!ToSet(kept) \subseteq Qq!ToSet(ring) \cup {m}
             /\ \A x \in Qq!ToSet(ring) \ Qq!ToSet(kept) : LeftBehind(x, kept, size, w)
             /\ \A x \in Nat : LeftBehind(x, ring, size, w) /\ x < m + w => LeftBehind(x, kept, size, w)
<1>1. \A s : Qq!ToSet(s) = ToSet(s)
  BY DEF Qq!ToSet, ToSet
<1> QED BY <1>1, RingMoves

LEMMA QqAppendedElements ==
  ASSUME NEW S, NEW s \in Seq(S), NEW x \in S
  PROVE  /\ Append(s, x) \in Seq(S) /\ Qq!ToSet(Append(s, x)) = Qq!ToSet(s) \cup {x}
         /\ (\A i, j \in DOMAIN s : i # j => s[i] # s[j]) /\ x \notin Qq!ToSet(s)
              => \A i, j \in DOMAIN Append(s, x) : i # j => Append(s, x)[i] # Append(s, x)[j]
<1>1. \A q : Qq!ToSet(q) = ToSet(q)
  BY DEF Qq!ToSet, ToSet
<1> QED BY <1>1, AppendedElements

LEMMA QqLargerOne == ASSUME NEW a \in Nat, NEW b \in Nat
                     PROVE Qq!Max({a, b}) = IF a >= b THEN a ELSE b
  BY LargerOne DEF Qq!Max, Max

QqFrameRecords == [kind : {"hello", "reconnect", "dispatch"}, msg : 0..QqMaxFrames, len : Qq!FrameLens]
QqFrameOf(f) == [i \in 1..frames[f].len |-> <<f, i>>]
QqNumber(frame) == frame[1][1]
QqIsMessage(f) == frames[f].kind = "dispatch"
QqInHands(h) == handlers[h] \in {"busy", "saving"}

(* The server numbers its messages, and sends none again that is much older *)
(* than the others.                                                         *)
QqServerInv ==
  /\ Len(frames) <= QqMaxFrames
  /\ \E n \in Nat : n <= Len(frames) /\ Qq!Messages = 1..n
  /\ \A f, g \in DOMAIN frames :
       f < g /\ QqIsMessage(f) /\ QqIsMessage(g) => frames[f].msg < frames[g].msg + QqResendWindow

(* The tasks, the connection and the queue come and go together.            *)
QqLinkInv ==
  /\ sending # Qq!None => link = "up"
  /\ link # "none" => wsTask = "serve"
  /\ frameQueue = Qq!NoFrames => wsTask = "none"
  /\ ~strayHandler =>
       /\ \A d, e \in Qq!Handlers : handlers[d] # "none" /\ handlers[e] # "none" => d = e
       /\ Qq!AnyHandler => inboundHandle /\ frameQueue # Qq!NoFrames

(* What is queued or handled is whole, and so is what a fragment continues. *)
QqFrameInv ==
  /\ sending # Qq!None =>
       \E f \in DOMAIN frames, part \in 1..2 :
         /\ sending = <<f, part>> /\ part <= frames[f].len
         /\ part = 2 => assembly \in {Qq!None, <<<<f, 1>>>>}
  /\ frameQueue # Qq!NoFrames =>
       \A i \in DOMAIN frameQueue : \E f \in DOMAIN frames : frameQueue[i] = QqFrameOf(f)
  /\ \A h \in Qq!Handlers : QqInHands(h) => \E f \in DOMAIN frames : inHand[h] = QqFrameOf(f)
  /\ \A h \in Qq!Handlers : handlers[h] = "saving" => QqIsMessage(QqNumber(inHand[h]))

(* Frames are handled in the order they were sent in.                       *)
QqOrderInv ==
  /\ frameQueue # Qq!NoFrames =>
       /\ \A i, j \in DOMAIN frameQueue : i < j => QqNumber(frameQueue[i]) < QqNumber(frameQueue[j])
       /\ \A h \in Qq!Handlers, i \in DOMAIN frameQueue :
            QqInHands(h) => QqNumber(inHand[h]) < QqNumber(frameQueue[i])
       /\ sending # Qq!None => \A i \in DOMAIN frameQueue : QqNumber(frameQueue[i]) < sending[1]
  /\ sending # Qq!None => \A h \in Qq!Handlers : QqInHands(h) => QqNumber(inHand[h]) < sending[1]

QqKnown == Qq!ToSet(seenMessages) \cup Qq!ToSet(qqTexts)

(* Frames not looked at yet.                                                *)
QqWaiting(f) ==
  \/ sending # Qq!None /\ sending[1] = f
  \/ frameQueue # Qq!NoFrames /\ \E i \in DOMAIN frameQueue : QqNumber(frameQueue[i]) = f
  \/ \E h \in Qq!Handlers : handlers[h] = "busy" /\ QqNumber(inHand[h]) = f

(* With one task that handles frames: what was published and has left the   *)
(* ring is not much younger than what pushed it out, and what waits is not  *)
(* much older than what is known.                                           *)
QqRingInv ==
  ~strayHandler =>
    /\ QqKnown \subseteq Qq!Messages
    /\ RingOrdered(seenMessages, QqResendWindow)
    /\ \A x \in Qq!ToSet(qqTexts) \ Qq!ToSet(seenMessages) : LeftBehind(x, seenMessages, QqSeenSize, QqResendWindow)
    /\ \A i, j \in DOMAIN qqTexts : i # j => qqTexts[i] # qqTexts[j]
    /\ \A f \in DOMAIN frames : QqIsMessage(f) /\ QqWaiting(f) =>
         \A x \in QqKnown : x < frames[f].msg + QqResendWindow
    /\ \A h \in Qq!Handlers : handlers[h] = "saving" =>
         frames[QqNumber(inHand[h])].msg \in Qq!ToSet(seenMessages) \ Qq!ToSet(qqTexts)

QqInv == Qq!TypeOK /\ QqServerInv /\ QqLinkInv /\ QqFrameInv /\ QqOrderInv /\ QqRingInv

LEMMA QqConstants ==
  ASSUME Qq!QqAssumption
  PROVE  /\ QqMaxFrames \in Nat \ {0} /\ QqSeenSize \in Nat \ {0} /\ QqResendWindow \in Nat \ {0}
         /\ 2 * QqResendWindow <= QqSeenSize + 1
         /\ QqMaxConnections \in Nat /\ QqFrameQueueLen \in Nat
         /\ Qq!FragmentSet = (1..QqMaxFrames) \X (1..2) /\ Qq!Max(Qq!FrameLens) = 2
<1>1. Qq!Max(Qq!FrameLens) = 2
  BY QqLargerOne DEF Qq!FrameLens
<1> QED BY <1>1 DEF Qq!QqAssumption, Qq!FragmentSet

LEMMA QqFrameFacts ==
  ASSUME Qq!QqAssumption, frames \in Seq(QqFrameRecords), Len(frames) <= QqMaxFrames, NEW f \in DOMAIN frames
  PROVE  /\ frames[f] \in QqFrameRecords /\ f \in 1..QqMaxFrames /\ f \in Nat
         /\ QqFrameOf(f) \in Seq(Qq!FragmentSet) /\ QqNumber(QqFrameOf(f)) = f /\ QqFrameOf(f) # Qq!None
         /\ Qq!Whole(QqFrameOf(f))
         /\ frames[f].len \in {1, 2}
         /\ frames[f].len = 1 => <<<<f, 1>>>> = QqFrameOf(f)
         /\ frames[f].len = 2 => Append(<<<<f, 1>>>>, <<f, 2>>) = QqFrameOf(f)
         /\ <<<<f, 1>>>> \in Seq(Qq!FragmentSet) /\ Len(<<<<f, 1>>>>) = 1 /\ <<f, 1>> \in Qq!FragmentSet
         /\ <<f, 2>> \in Qq!FragmentSet
<1> USE QqConstants
<1>1. frames[f] \in QqFrameRecords /\ f \in 1..QqMaxFrames /\ f \in Nat
  OBVIOUS
<1>2. frames[f].len \in {1, 2}
  BY <1>1 DEF QqFrameRecords, Qq!FrameLens
<1>3. <<f, 1>> \in Qq!FragmentSet /\ <<f, 2>> \in Qq!FragmentSet
  BY <1>1
<1>4. <<<<f, 1>>>> \in Seq(Qq!FragmentSet) /\ <<<<f, 1>>, <<f, 2>>>> \in Seq(Qq!FragmentSet) /\ Len(<<<<f, 1>>>>) = 1
  BY <1>3
<1>5. CASE frames[f].len = 1
  <2>1. QqFrameOf(f) = <<<<f, 1>>>>
    BY <1>5 DEF QqFrameOf
  <2>2. QqNumber(QqFrameOf(f)) = f /\ QqFrameOf(f) # Qq!None
    BY <2>1 DEF QqNumber, Qq!None
  <2>3. Qq!Whole(QqFrameOf(f))
    BY <2>2 DEF Qq!Whole, QqNumber, QqFrameOf
  <2> QED BY <1>1, <1>2, <1>3, <1>4, <1>5, <2>1, <2>2, <2>3
<1>6. CASE frames[f].len = 2
  <2>1. QqFrameOf(f) = <<<<f, 1>>, <<f, 2>>>>
    BY <1>6 DEF QqFrameOf
  <2>2. QqNumber(QqFrameOf(f)) = f /\ QqFrameOf(f) # Qq!None
    BY <2>1 DEF QqNumber, Qq!None
  <2>3. Qq!Whole(QqFrameOf(f))
    BY <2>2 DEF Qq!Whole, QqNumber, QqFrameOf
  <2>4. Append(<<<<f, 1>>>>, <<f, 2>>) = <<<<f, 1>>, <<f, 2>>>>
    BY <1>3, AppendToOne
  <2> QED BY <1>1, <1>2, <1>3, <1>4, <1>6, <2>1, <2>2, <2>3, <2>4
<1> QED BY <1>2, <1>5, <1>6

LEMMA QqStart == ASSUME Qq!QqAssumption, Qq!Init PROVE QqInv
<1> USE QqConstants DEF Qq!Init
<1>1. /\ <<>> \in Seq(1..QqMaxFrames) /\ <<>> \in Seq(QqFrameRecords) /\ <<>> \in Seq(Qq!FragmentSet)
      /\ Len(<<>>) = 0 /\ Qq!ToSet(<<>>) = {} /\ 0 <= QqSeenSize /\ 0 <= QqMaxFrames
      /\ 0 \in 0..QqMaxConnections /\ 0 \in 0..2
  BY DEF Qq!ToSet
<1>2. Qq!TypeOK
  <2>1. {wsConnected, identifyPending, shouldReconnect, qqStopping, inboundHandle, strayHandler}
          \subseteq BOOLEAN
    BY Zenon
  <2>2. handlers \in [Qq!Handlers -> {"none", "waiting", "busy", "saving"}]
    OBVIOUS
  <2>3. inHand \in [Qq!Handlers -> Seq(Qq!FragmentSet)]
    BY <1>1 DEF Qq!None
  <2> QED BY <1>1, <2>1, <2>2, <2>3 DEF Qq!TypeOK, Qq!None, QqFrameRecords
<1>3. QqServerInv
  <2>1. Qq!Messages = {} /\ 1..0 = {}
    BY DEF Qq!Messages
  <2> QED BY <1>1, <2>1 DEF QqServerInv
<1>4. QqLinkInv /\ QqFrameInv /\ QqOrderInv
  BY DEF QqLinkInv, QqFrameInv, QqOrderInv, Qq!AnyHandler, QqInHands, Qq!None
<1>5. QqRingInv
  BY <1>1 DEF QqRingInv, QqKnown, RingOrdered
<1> QED BY <1>2, <1>3, <1>4, <1>5 DEF QqInv

(* Another frame leaves what was said of the earlier ones.                  *)
LEMMA QqSends == ASSUME Qq!QqAssumption, QqInv, Qq!ServerSends PROVE QqInv'
<1> USE QqConstants DEF QqInv
<1>1. /\ link = "up" /\ sending = Qq!None /\ Len(frames) < QqMaxFrames
      /\ sending' = <<Len(frames) + 1, 1>>
      /\ UNCHANGED <<link, connections, wsTask, wsConnected, identifyPending, shouldReconnect,
                     qqStopping, assembly, assemblyLen, frameQueue, handlers, inHand, inboundHandle,
                     strayHandler, qqStopper, seenMessages, qqTexts>>
  BY DEF Qq!ServerSends, Qq!linkVars, Qq!assemblyVars, Qq!inboundVars, Qq!outVars
<1>2. PICK n \in Nat : n <= Len(frames) /\ Qq!Messages = 1..n
  BY DEF QqServerInv
<1>3. frames \in Seq(QqFrameRecords) /\ Len(frames) \in Nat
  BY DEF Qq!TypeOK, QqFrameRecords
<1>4. Qq!NewMessage = n + 1
  <2>1. Cardinality(1..n) = n
    BY CountTo
  <2> QED BY <1>2, <2>1, QqFiniteSets DEF Qq!NewMessage
<1> DEFINE g == Len(frames) + 1
<1>5. PICK new \in QqFrameRecords :
        /\ frames' = Append(frames, new)
        /\ new.kind = "dispatch" => new.msg \in 1..(n + 1) /\ new.msg + QqResendWindow >= n + 1
  <2>1. PICK len \in Qq!FrameLens :
          \/ \E kind \in {"hello", "reconnect"} :
               frames' = Append(frames, [kind |-> kind, msg |-> 0, len |-> len])
          \/ \E m \in Qq!Deliverable :
               frames' = Append(frames, [kind |-> "dispatch", msg |-> m, len |-> len])
    BY DEF Qq!ServerSends
  <2>2. CASE \E kind \in {"hello", "reconnect"} :
               frames' = Append(frames, [kind |-> kind, msg |-> 0, len |-> len])
    <3>1. PICK kind \in {"hello", "reconnect"} :
            frames' = Append(frames, [kind |-> kind, msg |-> 0, len |-> len])
      BY <2>2
    <3>2. [kind |-> kind, msg |-> 0, len |-> len] \in QqFrameRecords
      BY DEF QqFrameRecords
    <3> QED BY <3>1, <3>2
  <2>3. ASSUME NEW m \in Qq!Deliverable,
               frames' = Append(frames, [kind |-> "dispatch", msg |-> m, len |-> len])
        PROVE  \E new \in QqFrameRecords :
                 /\ frames' = Append(frames, new)
                 /\ new.kind = "dispatch" => new.msg \in 1..(n + 1) /\ new.msg + QqResendWindow >= n + 1
    <3>1. m \in 1..(n + 1) /\ m + QqResendWindow >= n + 1
      BY <1>4 DEF Qq!Deliverable
    <3>2. m \in 0..QqMaxFrames
      BY <1>1, <1>2, <1>3, <3>1
    <3>3. [kind |-> "dispatch", msg |-> m, len |-> len] \in QqFrameRecords
      BY <3>2 DEF QqFrameRecords
    <3> QED BY <2>3, <3>1, <3>3
  <2> QED BY <2>1, <2>2, <2>3
<1>6. /\ frames' \in Seq(QqFrameRecords) /\ Len(frames') = g /\ DOMAIN frames = 1..Len(frames)
      /\ DOMAIN frames' = 1..g /\ frames'[g] = new /\ g \in Nat
      /\ \A f \in 1..Len(frames) : f \in 1..g /\ f < g /\ frames'[f] = frames[f]
      /\ \A f \in 1..g : f \in 1..Len(frames) \/ f = g
  BY <1>3, <1>5
<1> HIDE DEF g
<1>7. \A f \in DOMAIN frames : QqFrameOf(f)' = QqFrameOf(f) /\ QqIsMessage(f)' = QqIsMessage(f)
  BY <1>6 DEF QqFrameOf, QqIsMessage
<1>8. Qq!TypeOK'
  <2>1. sending' \in Qq!FragmentSet
    BY <1>1, <1>3
  <2> QED BY <1>1, <1>6, <2>1 DEF Qq!TypeOK, QqFrameRecords
<1>9. \A f \in DOMAIN frames : QqIsMessage(f) => frames[f].msg \in Qq!Messages
  BY DEF Qq!Messages, QqIsMessage
<1>10. \E k \in Nat : k <= Len(frames') /\ Qq!Messages' = 1..k
  <2>1. CASE new.kind # "dispatch"
    <3>1. Qq!Messages' = Qq!Messages
      <4>1. \A f \in DOMAIN frames' : frames'[f].kind = "dispatch" <=> f \in DOMAIN frames /\ frames[f].kind = "dispatch"
        BY <1>6, <2>1
      <4>2. \A f \in DOMAIN frames : frames'[f].msg = frames[f].msg /\ f \in DOMAIN frames'
        BY <1>6
      <4> QED BY <4>1, <4>2 DEF Qq!Messages
    <3> QED BY <1>2, <1>3, <1>6, <3>1 DEF g
  <2>2. CASE new.kind = "dispatch"
    <3>1. Qq!Messages' = Qq!Messages \cup {new.msg}
      <4>1. \A f \in DOMAIN frames' : frames'[f].kind = "dispatch" <=> (f \in DOMAIN frames /\ frames[f].kind = "dispatch") \/ f = g
        BY <1>6, <2>2
      <4>2. \A f \in DOMAIN frames : frames'[f].msg = frames[f].msg /\ f \in DOMAIN frames'
        BY <1>6
      <4>3. g \in 1..g
        BY <1>3 DEF g
      <4>4. frames'[g].msg = new.msg /\ g \in DOMAIN frames'
        BY <1>6, <4>3
      <4> QED BY <4>1, <4>2, <4>4 DEF Qq!Messages
    <3>2. CASE new.msg \in 1..n
      <4>1. Qq!Messages' = 1..n
        BY <1>2, <3>1, <3>2
      <4> QED BY <1>2, <1>3, <1>6, <4>1 DEF g
    <3>3. CASE new.msg = n + 1
      <4>1. 1..(n + 1) = (1..n) \cup {n + 1}
        OBVIOUS
      <4>2. Qq!Messages' = 1..(n + 1)
        BY <1>2, <3>1, <3>3, <4>1
      <4> QED BY <1>2, <1>3, <1>6, <4>2 DEF g
    <3> QED BY <1>5, <2>2, <3>2, <3>3
  <2> QED BY <2>1, <2>2
<1>11. new.kind = "dispatch" => \A x \in Qq!Messages : x < new.msg + QqResendWindow
  <2> SUFFICES ASSUME new.kind = "dispatch", NEW x \in Qq!Messages PROVE x < new.msg + QqResendWindow
    OBVIOUS
  <2>1. new.msg \in Nat /\ new.msg + QqResendWindow >= n + 1 /\ x \in Nat /\ x <= n
    BY <1>2, <1>5
  <2> QED BY <2>1
<1>12. Qq!Messages \subseteq Qq!Messages'
  BY <1>6 DEF Qq!Messages
<1>13. QqServerInv'
  <2>1. ASSUME NEW f \in DOMAIN frames', NEW k \in DOMAIN frames', f < k, QqIsMessage(f)', QqIsMessage(k)'
        PROVE  frames'[f].msg < frames'[k].msg + QqResendWindow
    <3>1. f \in DOMAIN frames
      BY <1>6, <2>1
    <3>2. CASE k \in DOMAIN frames
      BY <1>6, <1>7, <2>1, <3>1, <3>2 DEF QqServerInv
    <3>3. CASE k = g
      BY <1>6, <1>7, <1>9, <1>11, <2>1, <3>1, <3>3 DEF QqIsMessage
    <3> QED BY <1>6, <3>2, <3>3
  <2>2. Len(frames') <= QqMaxFrames
    BY <1>1, <1>3, <1>6 DEF g
  <2> QED BY <1>10, <2>1, <2>2 DEF QqServerInv
<1>14. QqLinkInv'
  BY <1>1 DEF QqLinkInv, Qq!AnyHandler
<1>15. QqFrameInv'
  <2>1. \E f \in DOMAIN frames', part \in 1..2 :
          /\ sending' = <<f, part>> /\ part <= frames'[f].len
          /\ part = 2 => assembly' \in {Qq!None, <<<<f, 1>>>>}
    <3>1. sending' = <<g, 1>> /\ 1 <= frames'[g].len /\ 1 \in 1..2 /\ 1 # 2 /\ g \in DOMAIN frames'
      BY <1>1, <1>6 DEF g, QqFrameRecords, Qq!FrameLens
    <3> QED BY <3>1
  <2>2. \A h : QqInHands(h)' = QqInHands(h)
    BY <1>1 DEF QqInHands
  <2>3. \A f \in DOMAIN frames : f \in DOMAIN frames' /\ QqFrameOf(f)' = QqFrameOf(f)
    BY <1>6, <1>7
  <2>4. ASSUME frameQueue # Qq!NoFrames, NEW i \in DOMAIN frameQueue
        PROVE  \E f \in DOMAIN frames' : frameQueue[i] = QqFrameOf(f)'
    BY <2>3, <2>4 DEF QqFrameInv
  <2>5. ASSUME NEW h \in Qq!Handlers, QqInHands(h)
        PROVE  \E f \in DOMAIN frames' : inHand[h] = QqFrameOf(f)'
    BY <2>3, <2>5 DEF QqFrameInv
  <2>6. ASSUME NEW h \in Qq!Handlers, handlers[h] = "saving"
        PROVE  QqIsMessage(QqNumber(inHand[h]))'
    <3>1. PICK f \in DOMAIN frames : inHand[h] = QqFrameOf(f)
      BY <2>6 DEF QqFrameInv, QqInHands
    <3>2. QqNumber(inHand[h]) = f
      BY <1>3, <3>1, QqFrameFacts DEF QqServerInv
    <3>3. QqIsMessage(f)
      BY <2>6, <3>2 DEF QqFrameInv
    <3> QED BY <1>1, <1>6, <3>2, <3>3 DEF QqIsMessage, QqNumber
  <2> QED BY <1>1, <2>1, <2>2, <2>4, <2>5, <2>6 DEF QqFrameInv
<1>16. \A f \in DOMAIN frames : QqNumber(QqFrameOf(f)) = f /\ f \in Nat /\ f < g
  BY <1>3, <1>6, QqFrameFacts DEF QqServerInv
<1>17. QqOrderInv'
  <2>1. sending' # Qq!None /\ sending'[1] = g
    BY <1>1 DEF g, Qq!None
  <2>2. \A h : QqInHands(h)' = QqInHands(h)
    BY <1>1 DEF QqInHands
  <2>3. \A h \in Qq!Handlers : QqInHands(h) => QqNumber(inHand[h]) < g
    BY <1>16 DEF QqFrameInv
  <2>4. frameQueue # Qq!NoFrames => \A i \in DOMAIN frameQueue : QqNumber(frameQueue[i]) < g
    BY <1>16 DEF QqFrameInv
  <2> QED BY <1>1, <2>1, <2>2, <2>3, <2>4 DEF QqOrderInv
<1>18. QqRingInv'
  <2> SUFFICES ASSUME ~strayHandler PROVE QqRingInv'
    BY <1>1 DEF QqRingInv
  <2>1. QqKnown' = QqKnown /\ QqKnown \subseteq Qq!Messages
    BY <1>1 DEF QqKnown, QqRingInv
  <2>2. \A f \in DOMAIN frames' : QqWaiting(f)' => f = g \/ (f \in DOMAIN frames /\ QqWaiting(f))
    <3> SUFFICES ASSUME NEW f \in DOMAIN frames', QqWaiting(f)', f # g PROVE f \in DOMAIN frames /\ QqWaiting(f)
      OBVIOUS
    <3>1. f \in DOMAIN frames
      BY <1>6
    <3>2. sending'[1] = g
      BY <1>1 DEF g
    <3> QED BY <1>1, <3>1, <3>2 DEF QqWaiting
  <2>3. ASSUME NEW f \in DOMAIN frames', QqIsMessage(f)', QqWaiting(f)', NEW x \in QqKnown
        PROVE  x < frames'[f].msg + QqResendWindow
    <3>1. CASE f = g
      BY <1>6, <1>11, <2>1, <2>3, <3>1 DEF QqIsMessage
    <3>2. CASE f \in DOMAIN frames /\ QqWaiting(f)
      BY <1>6, <1>7, <2>3, <3>2 DEF QqRingInv
    <3> QED BY <2>2, <2>3, <3>1, <3>2
  <2>4. ASSUME NEW h \in Qq!Handlers, handlers[h] = "saving"
        PROVE  frames'[QqNumber(inHand[h])] = frames[QqNumber(inHand[h])]
    <3>1. PICK f \in DOMAIN frames : inHand[h] = QqFrameOf(f)
      BY <2>4 DEF QqFrameInv, QqInHands
    <3> QED BY <1>6, <1>16, <3>1
  <2> QED BY <1>1, <1>12, <2>1, <2>3, <2>4 DEF QqRingInv
<1> QED BY <1>8, <1>13, <1>14, <1>15, <1>17, <1>18


(* What takes frames away brings nothing new.                               *)
QqCalm ==
  /\ frames' = frames
  /\ sending' = Qq!None \/ (sending' = sending /\ assembly' \in {assembly, Qq!None})
  /\ frameQueue' \in {frameQueue, Qq!None, Qq!NoFrames}
  /\ \A h \in Qq!Handlers :
       /\ QqInHands(h)' => QqInHands(h) /\ inHand'[h] = inHand[h]
       /\ handlers'[h] = "busy" => handlers[h] = "busy"
       /\ handlers'[h] = "saving" => handlers[h] = "saving" \/ QqIsMessage(QqNumber(inHand[h]))
  /\ strayHandler => strayHandler'

LEMMA QqCalmKeeps ==
  ASSUME QqInv, QqCalm
  PROVE  /\ QqServerInv' /\ QqFrameInv' /\ QqOrderInv' /\ Qq!Messages' = Qq!Messages
         /\ \A f : QqIsMessage(f)' = QqIsMessage(f)
         /\ \A f : QqWaiting(f)' => QqWaiting(f)
<1> USE DEF QqInv, QqCalm
<1>1. Qq!Messages' = Qq!Messages /\ \A f : QqIsMessage(f)' = QqIsMessage(f) /\ QqFrameOf(f)' = QqFrameOf(f)
  BY DEF Qq!Messages, QqIsMessage, QqFrameOf
<1>2. QqServerInv'
  BY <1>1 DEF QqServerInv
<1>3. DOMAIN Qq!None = {}
  BY DEF Qq!None
<1>4. frameQueue' # Qq!NoFrames => frameQueue' = Qq!None \/ (frameQueue' = frameQueue /\ frameQueue # Qq!NoFrames)
  OBVIOUS
<1>5. sending' # Qq!None => sending' = sending /\ sending # Qq!None /\ assembly' \in {assembly, Qq!None}
  OBVIOUS
<1>6. QqFrameInv'
  <2>1. sending' # Qq!None =>
          \E f \in DOMAIN frames', part \in 1..2 :
            /\ sending' = <<f, part>> /\ part <= frames'[f].len
            /\ part = 2 => assembly' \in {Qq!None, <<<<f, 1>>>>}
    <3> SUFFICES ASSUME sending' # Qq!None
                 PROVE \E f \in DOMAIN frames', part \in 1..2 :
                         /\ sending' = <<f, part>> /\ part <= frames'[f].len
                         /\ part = 2 => assembly' \in {Qq!None, <<<<f, 1>>>>}
      OBVIOUS
    <3>1. PICK f \in DOMAIN frames, part \in 1..2 :
            /\ sending = <<f, part>> /\ part <= frames[f].len
            /\ part = 2 => assembly \in {Qq!None, <<<<f, 1>>>>}
      BY <1>5 DEF QqFrameInv
    <3>2. part = 2 => assembly' \in {Qq!None, <<<<f, 1>>>>}
      BY <1>5, <3>1
    <3> QED BY <1>5, <3>1, <3>2
  <2>2. ASSUME frameQueue' # Qq!NoFrames, NEW i \in DOMAIN frameQueue'
        PROVE  \E f \in DOMAIN frames' : frameQueue'[i] = QqFrameOf(f)'
    <3>1. frameQueue' = frameQueue /\ frameQueue # Qq!NoFrames
      BY <1>3, <1>4, <2>2
    <3> QED BY <1>1, <2>2, <3>1 DEF QqFrameInv
  <2>3. ASSUME NEW h \in Qq!Handlers, QqInHands(h)'
        PROVE  \E f \in DOMAIN frames' : inHand'[h] = QqFrameOf(f)'
    BY <1>1, <2>3 DEF QqFrameInv
  <2>4. ASSUME NEW h \in Qq!Handlers, handlers'[h] = "saving"
        PROVE  QqIsMessage(QqNumber(inHand[h])) /\ inHand'[h] = inHand[h]
    BY <2>4 DEF QqFrameInv, QqInHands
  <2> QED BY <2>1, <2>2, <2>3, <2>4 DEF QqFrameInv, QqIsMessage, QqNumber
<1>7. QqOrderInv'
  <2>1. CASE frameQueue' = Qq!NoFrames
    <3>1. sending' # Qq!None => \A h \in Qq!Handlers : QqInHands(h)' => QqNumber(inHand'[h]) < sending'[1]
      BY <1>5 DEF QqOrderInv
    <3> QED BY <2>1, <3>1 DEF QqOrderInv, QqNumber
  <2>2. CASE frameQueue' = Qq!None /\ frameQueue' # Qq!NoFrames
    <3>1. sending' # Qq!None => \A h \in Qq!Handlers : QqInHands(h)' => QqNumber(inHand'[h]) < sending'[1]
      BY <1>5 DEF QqOrderInv
    <3> QED BY <1>3, <2>2, <3>1 DEF QqOrderInv, QqNumber
  <2>3. CASE frameQueue' = frameQueue /\ frameQueue # Qq!NoFrames
    BY <1>5, <2>3 DEF QqOrderInv, QqNumber
  <2> QED BY <1>4, <2>1, <2>2, <2>3
<1>8. ASSUME NEW f, QqWaiting(f)' PROVE QqWaiting(f)
  <2>1. CASE sending' # Qq!None /\ sending'[1] = f
    BY <1>5, <2>1 DEF QqWaiting
  <2>2. CASE frameQueue' # Qq!NoFrames /\ \E i \in DOMAIN frameQueue' : QqNumber(frameQueue'[i]) = f
    BY <1>3, <1>4, <2>2 DEF QqWaiting
  <2>3. CASE \E h \in Qq!Handlers : handlers'[h] = "busy" /\ QqNumber(inHand'[h]) = f
    BY <2>3 DEF QqWaiting, QqInHands
  <2> QED BY <1>8, <2>1, <2>2, <2>3 DEF QqWaiting, QqNumber
<1> QED BY <1>1, <1>2, <1>6, <1>7, <1>8

LEMMA QqCalmRing ==
  ASSUME QqInv, QqCalm, UNCHANGED <<seenMessages, qqTexts>>,
         \A h \in Qq!Handlers : handlers'[h] = "saving" => handlers[h] = "saving"
  PROVE  QqRingInv'
<1> SUFFICES ASSUME ~strayHandler' PROVE QqRingInv'
  BY DEF QqRingInv
<1>1. ~strayHandler
  BY DEF QqCalm
<1>2. QqKnown' = QqKnown
  BY DEF QqKnown
<1>3. /\ Qq!Messages' = Qq!Messages /\ frames' = frames
      /\ \A f : QqIsMessage(f)' = QqIsMessage(f)
      /\ \A f : QqWaiting(f)' => QqWaiting(f)
  BY QqCalmKeeps DEF QqCalm
<1>4. \A h \in Qq!Handlers : handlers'[h] = "saving" => handlers[h] = "saving" /\ inHand'[h] = inHand[h]
  BY DEF QqCalm, QqInHands
<1>5. \A f \in DOMAIN frames' : QqIsMessage(f)' /\ QqWaiting(f)' =>
        \A x \in QqKnown' : x < frames'[f].msg + QqResendWindow
  BY <1>1, <1>2, <1>3 DEF QqInv, QqRingInv
<1>6. \A h \in Qq!Handlers : handlers'[h] = "saving" =>
        frames'[QqNumber(inHand'[h])].msg \in Qq!ToSet(seenMessages') \ Qq!ToSet(qqTexts')
  BY <1>1, <1>3, <1>4 DEF QqInv, QqRingInv
<1> QED BY <1>1, <1>2, <1>3, <1>5, <1>6 DEF QqInv, QqRingInv, QqNumber

(* Only the last fragment of a frame, behind all others, completes it.      *)
QqFragmentDoes(f) ==
  /\ \/ frameQueue' = frameQueue
     \/ frameQueue' = Append(frameQueue, QqFrameOf(f)) /\ sending' = Qq!None
  /\ \/ sending' = Qq!None /\ assembly' \in {assembly, Qq!None}
     \/ sending' = <<f, 2>> /\ frames[f].len = 2 /\ assembly' = <<<<f, 1>>>>
  /\ assemblyLen' \in 0..2
  /\ UNCHANGED <<frames, Qq!linkVars, qqStopping, handlers, inHand, inboundHandle, strayHandler,
                 qqStopper, seenMessages, qqTexts>>

LEMMA QqAssembles ==
  ASSUME NEW len, NEW offset, NEW fragment, Qq!Assemble(len, offset, fragment), len # 1,
         ~(len > 1 /\ offset # 0 /\ (assembly = Qq!None \/ assemblyLen # len \/ Len(assembly) # offset))
  PROVE  LET parts == Append(IF offset = 0 THEN Qq!None ELSE assembly, fragment)
         IN  IF Len(parts) < len
             THEN Qq!Put(parts, len) /\ UNCHANGED frameQueue
             ELSE Qq!QueueInboundFrame(parts) /\ Qq!Put(Qq!None, 0)
  BY Zenon DEF Qq!Assemble

LEMMA QqFragmentEffect ==
  ASSUME Qq!QqAssumption, QqInv, Qq!Fragment
  PROVE  \E f \in DOMAIN frames : /\ sending # Qq!None /\ sending[1] = f /\ frameQueue # Qq!NoFrames
                                  /\ QqFragmentDoes(f)
<1> USE QqConstants DEF QqInv
<1>1. sending # Qq!None /\ frameQueue # Qq!NoFrames
  BY DEF Qq!Fragment, QqLinkInv
<1>2. PICK f \in DOMAIN frames, part \in 1..2 :
        /\ sending = <<f, part>> /\ part <= frames[f].len
        /\ part = 2 => assembly \in {Qq!None, <<<<f, 1>>>>}
  BY <1>1 DEF QqFrameInv
<1>3. sending[1] = f /\ sending[2] = part /\ part \in {1, 2}
  BY <1>2
<1>4. frames \in Seq(QqFrameRecords) /\ Len(frames) <= QqMaxFrames /\ assemblyLen \in 0..2
  BY DEF Qq!TypeOK, QqFrameRecords, QqServerInv
<1>5. /\ frames[f].len \in {1, 2}
      /\ frames[f].len = 1 => <<<<f, 1>>>> = QqFrameOf(f)
      /\ frames[f].len = 2 => Append(<<<<f, 1>>>>, <<f, 2>>) = QqFrameOf(f)
      /\ Len(<<<<f, 1>>>>) = 1 /\ Len(QqFrameOf(f)) = frames[f].len
  <2>1. Len(QqFrameOf(f)) = frames[f].len
    <3>1. frames[f].len \in {1, 2}
      BY <1>4, QqFrameFacts
    <3> QED BY <3>1 DEF QqFrameOf
  <2> QED BY <1>4, <2>1, QqFrameFacts
<1>6. /\ Qq!Assemble(frames[f].len, part - 1, <<f, part>>)
      /\ sending' = IF part = frames[f].len THEN Qq!None ELSE <<f, part + 1>>
      /\ UNCHANGED <<frames, Qq!linkVars, qqStopping, handlers, inHand, inboundHandle, strayHandler,
                     qqStopper, seenMessages, qqTexts>>
  BY <1>1, <1>3 DEF Qq!Fragment, Qq!inboundVars, Qq!outVars
<1>7. ASSUME Qq!QueueInboundFrame(QqFrameOf(f)), sending' = Qq!None
      PROVE  \/ frameQueue' = frameQueue
             \/ frameQueue' = Append(frameQueue, QqFrameOf(f)) /\ sending' = Qq!None
  BY <1>7 DEF Qq!QueueInboundFrame
<1>8. CASE part = 1 /\ frames[f].len = 1
  <2>1. Qq!QueueInboundFrame(<<<<f, 1>>>>) /\ UNCHANGED <<assembly, assemblyLen>>
    BY <1>6, <1>8 DEF Qq!Assemble, Qq!assemblyVars
  <2>2. sending' = Qq!None
    BY <1>6, <1>8
  <2> QED BY <1>1, <1>3, <1>4, <1>5, <1>6, <1>7, <1>8, <2>1, <2>2 DEF QqFragmentDoes
<1>9. CASE part = 1 /\ frames[f].len = 2
  <2>1. Append(Qq!None, <<f, 1>>) = <<<<f, 1>>>>
    BY DEF Qq!None
  <2>2. Qq!Put(<<<<f, 1>>>>, 2) /\ UNCHANGED frameQueue
    <3>1. Qq!Assemble(2, 0, <<f, 1>>)
      <4>1. part - 1 = 0
        BY <1>9
      <4> QED BY <1>6, <1>9, <4>1
    <3>2. Append(IF 0 = 0 THEN Qq!None ELSE assembly, <<f, 1>>) = <<<<f, 1>>>> /\ Len(<<<<f, 1>>>>) < 2
      BY <1>5, <2>1
    <3>3. 2 # 1 /\ ~(0 # 0)
      OBVIOUS
    <3>4. LET parts == Append(IF 0 = 0 THEN Qq!None ELSE assembly, <<f, 1>>)
          IN  IF Len(parts) < 2
              THEN Qq!Put(parts, 2) /\ UNCHANGED frameQueue
              ELSE Qq!QueueInboundFrame(parts) /\ Qq!Put(Qq!None, 0)
      BY <3>1, <3>3, QqAssembles, Zenon
    <3> QED BY <3>2, <3>4
  <2>3. sending' = <<f, 2>>
    BY <1>6, <1>9
  <2> QED BY <1>1, <1>3, <1>6, <1>9, <2>2, <2>3 DEF QqFragmentDoes, Qq!Put
<1>10. CASE part = 2
  <2>1. frames[f].len = 2 /\ sending' = Qq!None
    BY <1>2, <1>5, <1>6, <1>10
  <2>2. CASE assembly = Qq!None \/ assemblyLen # 2 \/ Len(assembly) # 1
    <3>1. Qq!Put(Qq!None, 0) /\ UNCHANGED frameQueue
      BY <1>6, <1>10, <2>1, <2>2 DEF Qq!Assemble
    <3> QED BY <1>1, <1>3, <1>6, <2>1, <3>1 DEF QqFragmentDoes, Qq!Put
  <2>3. CASE ~(assembly = Qq!None \/ assemblyLen # 2 \/ Len(assembly) # 1)
    <3>1. assembly = <<<<f, 1>>>>
      BY <1>2, <1>10, <2>3
    <3>2. Append(assembly, <<f, 2>>) = QqFrameOf(f) /\ Len(QqFrameOf(f)) = 2
      BY <1>5, <2>1, <3>1
    <3>3. Qq!QueueInboundFrame(QqFrameOf(f)) /\ Qq!Put(Qq!None, 0)
      <4>1. Qq!Assemble(2, 1, <<f, 2>>)
        <5>1. part - 1 = 1
          BY <1>10
        <5> QED BY <1>6, <1>10, <2>1, <5>1
      <4>2. Append(IF 1 = 0 THEN Qq!None ELSE assembly, <<f, 2>>) = QqFrameOf(f)
        BY <3>2
      <4>3. ~(assembly = Qq!None \/ assemblyLen # 2 \/ Len(assembly) # 1)
        BY <2>3
      <4>4. ~(Len(Append(IF 1 = 0 THEN Qq!None ELSE assembly, <<f, 2>>)) < 2)
        BY <3>2, <4>2
      <4>5. 2 # 1
        OBVIOUS
      <4>6. LET parts == Append(IF 1 = 0 THEN Qq!None ELSE assembly, <<f, 2>>)
            IN  IF Len(parts) < 2
                THEN Qq!Put(parts, 2) /\ UNCHANGED frameQueue
                ELSE Qq!QueueInboundFrame(parts) /\ Qq!Put(Qq!None, 0)
        BY <4>1, <4>3, <4>5, QqAssembles, Zenon
      <4> QED BY <4>2, <4>4, <4>6
    <3> QED BY <1>1, <1>3, <1>6, <1>7, <2>1, <3>3 DEF QqFragmentDoes, Qq!Put
  <2> QED BY <2>2, <2>3
<1> QED BY <1>3, <1>5, <1>8, <1>9, <1>10

(* A text that arrives for the first time has not been published before.    *)
LEMMA QqFirstTime ==
  ASSUME Qq!QqAssumption, QqInv, ~strayHandler, NEW f \in DOMAIN frames, QqIsMessage(f), QqWaiting(f),
         NEW m, m = frames[f].msg, m \notin Qq!ToSet(seenMessages)
  PROVE  m \notin Qq!ToSet(qqTexts)
<1> SUFFICES ASSUME m \in Qq!ToSet(qqTexts) PROVE FALSE
  OBVIOUS
<1> USE QqConstants DEF QqInv
<1>1. seenMessages \in Seq(Nat) /\ m \in Nat
  <2>1. frames \in Seq(QqFrameRecords) /\ seenMessages \in Seq(1..QqMaxFrames)
    BY DEF Qq!TypeOK, QqFrameRecords
  <2>2. frames[f] \in QqFrameRecords
    BY <2>1
  <2>3. frames[f].msg \in 0..QqMaxFrames
    BY <2>2 DEF QqFrameRecords
  <2> QED BY <2>1, <2>3
<1>2. LeftBehind(m, seenMessages, QqSeenSize, QqResendWindow) /\ RingOrdered(seenMessages, QqResendWindow)
  BY DEF QqRingInv
<1>3. \A i \in DOMAIN seenMessages : seenMessages[i] \in Qq!ToSet(seenMessages)
  BY DEF Qq!ToSet
<1>4. \A x \in Qq!ToSet(seenMessages) : x < m + QqResendWindow
  BY DEF QqRingInv, QqKnown
<1>5. \A i \in DOMAIN seenMessages :
        seenMessages[i] # m /\ m < seenMessages[i] + QqResendWindow /\ seenMessages[i] < m + QqResendWindow
  BY <1>2, <1>3, <1>4 DEF LeftBehind
<1>6. Len(seenMessages) = QqSeenSize /\ \A i, j \in DOMAIN seenMessages : i < j => seenMessages[i] # seenMessages[j]
  BY <1>2 DEF LeftBehind, RingOrdered
<1>7. QqResendWindow \in Nat \ {0} /\ QqSeenSize \in Nat \ {0} /\ 2 * QqResendWindow <= QqSeenSize + 1
  OBVIOUS
<1> HIDE DEF QqInv
<1> QED BY <1>1, <1>5, <1>6, <1>7, FewAreNear

(* Handled, a message is recorded and waits to be published.                *)
LEMMA QqDispatch ==
  ASSUME Qq!QqAssumption, QqInv, QqCalm, ~strayHandler',
         NEW h \in Qq!Handlers, NEW f \in DOMAIN frames, QqIsMessage(f),
         handlers[h] = "busy", inHand[h] = QqFrameOf(f), inHand' = inHand,
         handlers' = [handlers EXCEPT ![h] = "saving"],
         \A k : QqWaiting(k)' => QqWaiting(k) /\ k # f,
         Qq!Dispatch(frames[f].msg), qqTexts' = qqTexts
  PROVE  QqRingInv'
<1> USE QqConstants DEF QqInv
<1> DEFINE m == frames[f].msg
<1>1. frames \in Seq(QqFrameRecords) /\ Len(frames) <= QqMaxFrames
  BY DEF Qq!TypeOK, QqFrameRecords, QqServerInv
<1>2. /\ ~strayHandler /\ QqRingInv
      /\ Qq!Messages' = Qq!Messages /\ frames' = frames
      /\ \A k : QqIsMessage(k)' = QqIsMessage(k)
  BY QqCalmKeeps DEF QqCalm
<1>3. QqNumber(inHand[h]) = f
  BY <1>1, QqFrameFacts
<1>4. QqWaiting(f)
  BY <1>3 DEF QqWaiting
<1>5. \A x \in QqKnown : x < m + QqResendWindow
  BY <1>2, <1>4 DEF QqRingInv
<1>6. m \notin Qq!ToSet(seenMessages)
  BY DEF Qq!Dispatch
<1>7. m \notin Qq!ToSet(qqTexts)
  BY <1>2, <1>4, <1>6, QqFirstTime
<1>8. m \in Qq!Messages /\ m \in Nat
  <2>1. frames[f].msg \in 0..QqMaxFrames
    BY <1>1, QqFrameFacts DEF QqFrameRecords
  <2>2. m \in Qq!Messages
    BY DEF Qq!Messages, QqIsMessage
  <2> QED BY <2>1, <2>2
<1>9. /\ RingOrdered(seenMessages', QqResendWindow) /\ m \in Qq!ToSet(seenMessages')
      /\ Qq!ToSet(seenMessages') \subseteq Qq!ToSet(seenMessages) \cup {m}
      /\ \A x \in Qq!ToSet(seenMessages) \ Qq!ToSet(seenMessages') :
            LeftBehind(x, seenMessages', QqSeenSize, QqResendWindow)
      /\ \A x \in Nat : LeftBehind(x, seenMessages, QqSeenSize, QqResendWindow) /\ x < m + QqResendWindow
                          => LeftBehind(x, seenMessages', QqSeenSize, QqResendWindow)
  <2>1. \A x \in Qq!ToSet(seenMessages) : x < m + QqResendWindow
    BY <1>5 DEF QqKnown
  <2>2. seenMessages' = LET ring == Append(seenMessages, m)
                        IN  IF Len(ring) > QqSeenSize THEN Tail(ring) ELSE ring
    BY DEF Qq!Dispatch
  <2>3. /\ seenMessages \in Seq(Nat) /\ Len(seenMessages) <= QqSeenSize
        /\ QqSeenSize \in Nat \ {0} /\ QqResendWindow \in Nat \ {0} /\ RingOrdered(seenMessages, QqResendWindow)
    BY <1>2 DEF Qq!TypeOK, QqRingInv
  <2> HIDE DEF QqInv, m
  <2> QED BY <1>6, <1>8, <2>1, <2>2, <2>3, QqRingMoves
<1>10. QqKnown' \subseteq QqKnown \cup {m}
  BY <1>9 DEF QqKnown
<1>11. QqKnown' \subseteq Qq!Messages'
  BY <1>2, <1>8, <1>10 DEF QqRingInv
<1>12. ASSUME NEW x \in Qq!ToSet(qqTexts) \ Qq!ToSet(seenMessages')
       PROVE  LeftBehind(x, seenMessages', QqSeenSize, QqResendWindow)
  <2>1. x \in QqKnown /\ x \in Nat
    <3>1. qqTexts \in Seq(1..QqMaxFrames)
      BY DEF Qq!TypeOK
    <3>2. PICK i \in DOMAIN qqTexts : x = qqTexts[i]
      BY <1>12 DEF Qq!ToSet
    <3>3. qqTexts[i] \in 1..QqMaxFrames
      BY <3>1, <3>2
    <3> QED BY <1>12, <3>2, <3>3 DEF QqKnown
  <2>2. x < m + QqResendWindow
    BY <1>5, <2>1
  <2>3. CASE x \in Qq!ToSet(seenMessages)
    BY <1>9, <1>12, <2>3
  <2>4. CASE x \notin Qq!ToSet(seenMessages)
    BY <1>2, <1>9, <1>12, <2>1, <2>2, <2>4 DEF QqRingInv
  <2> QED BY <2>3, <2>4
<1>13. ASSUME NEW k \in DOMAIN frames', QqIsMessage(k)', QqWaiting(k)', NEW x \in QqKnown'
       PROVE  x < frames'[k].msg + QqResendWindow
  <2>1. QqWaiting(k) /\ QqIsMessage(k) /\ k # f /\ k \in DOMAIN frames
    BY <1>2, <1>13
  <2>2. CASE x \in QqKnown
    BY <1>2, <2>1, <2>2 DEF QqRingInv
  <2>3. CASE x = m
    <3>1. f < k
      <4>1. CASE sending # Qq!None /\ sending[1] = k
        BY <1>3, <4>1 DEF QqOrderInv, QqInHands
      <4>2. CASE frameQueue # Qq!NoFrames /\ \E i \in DOMAIN frameQueue : QqNumber(frameQueue[i]) = k
        BY <1>3, <4>2 DEF QqOrderInv, QqInHands
      <4>3. CASE \E e \in Qq!Handlers : handlers[e] = "busy" /\ QqNumber(inHand[e]) = k
        <5>1. PICK e \in Qq!Handlers : handlers[e] = "busy" /\ QqNumber(inHand[e]) = k
          BY <4>3
        <5>2. e = h
          BY <1>2, <5>1 DEF QqLinkInv
        <5> QED BY <1>3, <2>1, <5>1, <5>2
      <4> QED BY <2>1, <4>1, <4>2, <4>3 DEF QqWaiting
    <3> QED BY <1>2, <2>1, <2>3, <3>1 DEF QqServerInv
  <2> QED BY <1>10, <2>2, <2>3
<1>14. ASSUME NEW e \in Qq!Handlers, handlers'[e] = "saving"
       PROVE  frames'[QqNumber(inHand'[e])].msg \in Qq!ToSet(seenMessages') \ Qq!ToSet(qqTexts')
  <2>1. handlers[h] # "none" /\ handlers[e] # "none"
    BY <1>14 DEF Qq!TypeOK
  <2>2. e = h
    BY <1>2, <2>1 DEF QqLinkInv
  <2> QED BY <1>2, <1>3, <1>7, <1>9, <2>2
<1> QED BY <1>2, <1>9, <1>11, <1>12, <1>13, <1>14 DEF QqRingInv, QqNumber

(* Published, it is in the ring.                                            *)
LEMMA QqPublish ==
  ASSUME Qq!QqAssumption, QqInv, QqCalm, ~strayHandler',
         NEW h \in Qq!Handlers, handlers[h] = "saving", handlers' = [handlers EXCEPT ![h] = "waiting"],
         qqTexts' = Append(qqTexts, frames[inHand[h][1][1]].msg), seenMessages' = seenMessages
  PROVE  QqRingInv' /\ qqTexts' \in Seq(1..QqMaxFrames)
<1> USE QqConstants DEF QqInv
<1> DEFINE m == frames[QqNumber(inHand[h])].msg
<1>1. /\ ~strayHandler /\ QqRingInv
      /\ Qq!Messages' = Qq!Messages /\ frames' = frames
      /\ \A k : QqIsMessage(k)' = QqIsMessage(k)
      /\ \A k : QqWaiting(k)' => QqWaiting(k)
  BY QqCalmKeeps DEF QqCalm
<1>2. m \in Qq!ToSet(seenMessages) \ Qq!ToSet(qqTexts)
  BY <1>1 DEF QqRingInv
<1>3. m \in 1..QqMaxFrames /\ qqTexts \in Seq(1..QqMaxFrames)
  <2>1. seenMessages \in Seq(1..QqMaxFrames) /\ qqTexts \in Seq(1..QqMaxFrames)
    BY DEF Qq!TypeOK
  <2>2. PICK i \in DOMAIN seenMessages : m = seenMessages[i]
    BY <1>2 DEF Qq!ToSet
  <2> HIDE DEF m
  <2>3. seenMessages[i] \in 1..QqMaxFrames
    BY <2>1, <2>2
  <2> QED BY <2>1, <2>2, <2>3
<1>4. qqTexts' = Append(qqTexts, m)
  BY DEF QqNumber
<1> HIDE DEF m
<1>5. /\ qqTexts' \in Seq(1..QqMaxFrames) /\ Qq!ToSet(qqTexts') = Qq!ToSet(qqTexts) \cup {m}
      /\ \A i, j \in DOMAIN qqTexts' : i # j => qqTexts'[i] # qqTexts'[j]
  <2>1. \A i, j \in DOMAIN qqTexts : i # j => qqTexts[i] # qqTexts[j]
    BY <1>1 DEF QqRingInv
  <2> HIDE DEF QqInv
  <2>2. m \notin Qq!ToSet(qqTexts)
    BY <1>2
  <2>3. /\ Append(qqTexts, m) \in Seq(1..QqMaxFrames) /\ Qq!ToSet(Append(qqTexts, m)) = Qq!ToSet(qqTexts) \cup {m}
        /\ (\A i, j \in DOMAIN qqTexts : i # j => qqTexts[i] # qqTexts[j]) /\ m \notin Qq!ToSet(qqTexts)
             => \A i, j \in DOMAIN Append(qqTexts, m) : i # j => Append(qqTexts, m)[i] # Append(qqTexts, m)[j]
    <3>1. PICK S : S = 1..QqMaxFrames
      OBVIOUS
    <3>2. PICK t \in Seq(S), y \in S : t = qqTexts /\ y = m
      BY <1>3, <3>1
    <3>3. /\ Append(t, y) \in Seq(S) /\ Qq!ToSet(Append(t, y)) = Qq!ToSet(t) \cup {y}
          /\ (\A i, j \in DOMAIN t : i # j => t[i] # t[j]) /\ y \notin Qq!ToSet(t)
               => \A i, j \in DOMAIN Append(t, y) : i # j => Append(t, y)[i] # Append(t, y)[j]
      BY QqAppendedElements
    <3> QED BY <3>1, <3>2, <3>3, Zenon
  <2>4. \A i, j \in DOMAIN Append(qqTexts, m) : i # j => Append(qqTexts, m)[i] # Append(qqTexts, m)[j]
    BY <2>1, <2>2, <2>3, Zenon
  <2> QED BY <1>4, <2>3, <2>4, Zenon
<1>6. QqKnown' = QqKnown
  BY <1>2, <1>5 DEF QqKnown
<1>7. \A x \in Qq!ToSet(qqTexts') \ Qq!ToSet(seenMessages') :
        LeftBehind(x, seenMessages', QqSeenSize, QqResendWindow)
  BY <1>1, <1>2, <1>5 DEF QqRingInv
<1>8. \A e \in Qq!Handlers : handlers'[e] # "saving"
  <2> SUFFICES ASSUME NEW e \in Qq!Handlers, handlers'[e] = "saving" PROVE FALSE
    OBVIOUS
  <2>1. handlers \in [Qq!Handlers -> {"none", "waiting", "busy", "saving"}]
    BY DEF Qq!TypeOK
  <2>2. e # h /\ handlers[e] = "saving"
    BY <2>1
  <2> QED BY <1>1, <2>2 DEF QqLinkInv
<1> QED BY <1>1, <1>5, <1>6, <1>7, <1>8 DEF QqRingInv, QqNumber

(* The message a task takes goes out of the queue, from its head.           *)
LEMMA QqQueueHead ==
  ASSUME NEW S, NEW q \in Seq(S), q # <<>>
  PROVE  /\ Tail(q) \in Seq(S) /\ Head(q) = q[1] /\ Head(q) \in S
         /\ 1 \in DOMAIN q
         /\ \A i \in DOMAIN Tail(q) : i + 1 \in DOMAIN q /\ Tail(q)[i] = q[i + 1] /\ i \in Nat
         /\ \A i \in DOMAIN Tail(q) : 1 < i + 1
<1>1. Tail(q) \in Seq(S) /\ Len(Tail(q)) = Len(q) - 1 /\ Len(q) \in Nat /\ Len(q) > 0
  BY HeadTailProperties
<1>2. Head(q) = q[1] /\ Head(q) \in S /\ 1 \in DOMAIN q
  BY <1>1
<1>3. \A i \in DOMAIN Tail(q) : i + 1 \in DOMAIN q /\ Tail(q)[i] = q[i + 1] /\ i \in Nat
  BY <1>1
<1>4. DOMAIN Tail(q) = 1..(Len(q) - 1)
  BY <1>1
<1> QED BY <1>1, <1>2, <1>3, <1>4

LEMMA QqTake == ASSUME Qq!QqAssumption, QqInv, NEW h \in Qq!Handlers, Qq!TakeFrame(h) PROVE QqInv'
<1> USE QqConstants DEF QqInv
<1>1. /\ handlers[h] = "waiting" /\ frameQueue # Qq!None /\ frameQueue # Qq!NoFrames
      /\ handlers' = [handlers EXCEPT ![h] = "busy"]
      /\ inHand' = [inHand EXCEPT ![h] = Head(frameQueue)]
      /\ frameQueue' = Tail(frameQueue)
      /\ UNCHANGED <<frames, sending, link, connections, wsTask, wsConnected, identifyPending,
                     shouldReconnect, qqStopping, assembly, assemblyLen, inboundHandle, strayHandler,
                     qqStopper, seenMessages, qqTexts>>
  BY DEF Qq!TakeFrame, Qq!serverSide, Qq!linkVars, Qq!assemblyVars, Qq!outVars
<1>2. frameQueue \in Seq(Seq(Qq!FragmentSet)) /\ frameQueue # <<>>
  BY <1>1 DEF Qq!TypeOK, Qq!None
<1>3. /\ Tail(frameQueue) \in Seq(Seq(Qq!FragmentSet)) /\ Head(frameQueue) = frameQueue[1]
      /\ Head(frameQueue) \in Seq(Qq!FragmentSet) /\ 1 \in DOMAIN frameQueue
      /\ \A i \in DOMAIN Tail(frameQueue) :
           i + 1 \in DOMAIN frameQueue /\ Tail(frameQueue)[i] = frameQueue[i + 1] /\ i \in Nat
      /\ \A i \in DOMAIN Tail(frameQueue) : 1 < i + 1
  BY <1>2, QqQueueHead
<1>4. frames \in Seq(QqFrameRecords) /\ Len(frames) <= QqMaxFrames
  BY DEF Qq!TypeOK, QqFrameRecords, QqServerInv
<1>5. \A i \in DOMAIN frameQueue : \E f \in DOMAIN frames : frameQueue[i] = QqFrameOf(f)
  BY <1>1 DEF QqFrameInv
<1>6. PICK f \in DOMAIN frames : Head(frameQueue) = QqFrameOf(f)
  BY <1>3, <1>5
<1>7. frameQueue' # Qq!NoFrames
  <2> SUFFICES ASSUME Tail(frameQueue) = Qq!NoFrames PROVE FALSE
    BY <1>1
  <2>1. 1 \in DOMAIN Qq!NoFrames /\ Qq!NoFrames[1] = Qq!None
    BY DEF Qq!NoFrames, Qq!None
  <2>2. Tail(frameQueue)[1] = Qq!None /\ 1 \in DOMAIN Tail(frameQueue)
    BY <2>1
  <2>3. PICK g \in DOMAIN frames : Qq!None = QqFrameOf(g)
    BY <1>3, <1>5, <2>2
  <2> QED BY <1>4, <2>3, QqFrameFacts
<1>8. /\ \A e \in Qq!Handlers \ {h} : handlers'[e] = handlers[e] /\ inHand'[e] = inHand[e]
      /\ handlers'[h] = "busy" /\ inHand'[h] = QqFrameOf(f)
  BY <1>1, <1>6 DEF Qq!TypeOK
<1>9. Qq!TypeOK'
  BY <1>1, <1>2, <1>3 DEF Qq!TypeOK
<1>10. QqServerInv' /\ Qq!Messages' = Qq!Messages /\ \A k : QqFrameOf(k)' = QqFrameOf(k) /\ QqIsMessage(k)' = QqIsMessage(k)
  BY <1>1 DEF QqServerInv, Qq!Messages, QqFrameOf, QqIsMessage
<1>11. \A e \in Qq!Handlers : handlers'[e] # "none" <=> handlers[e] # "none"
  BY <1>1, <1>8
<1>12. QqLinkInv'
  <2>1. Qq!AnyHandler' <=> Qq!AnyHandler
    BY <1>11 DEF Qq!AnyHandler
  <2> QED BY <1>1, <1>7, <1>11, <2>1 DEF QqLinkInv
<1>13. \A i \in DOMAIN frameQueue' : i + 1 \in DOMAIN frameQueue /\ frameQueue'[i] = frameQueue[i + 1] /\ 1 < i + 1 /\ i \in Nat
  BY <1>1, <1>3
<1>14. QqFrameInv'
  <2>1. \A i \in DOMAIN frameQueue' : \E k \in DOMAIN frames : frameQueue'[i] = QqFrameOf(k)
    BY <1>5, <1>13
  <2>2. \A e \in Qq!Handlers : QqInHands(e)' => \E k \in DOMAIN frames : inHand'[e] = QqFrameOf(k)
    <3> SUFFICES ASSUME NEW e \in Qq!Handlers, QqInHands(e)' PROVE \E k \in DOMAIN frames : inHand'[e] = QqFrameOf(k)
      OBVIOUS
    <3>1. CASE e = h
      BY <1>8, <3>1
    <3>2. CASE e # h
      <4>1. QqInHands(e)
        BY <1>8, <3>2 DEF QqInHands
      <4> QED BY <1>8, <3>2, <4>1 DEF QqFrameInv
    <3> QED BY <3>1, <3>2
  <2>3. \A e \in Qq!Handlers : handlers'[e] = "saving" => handlers[e] = "saving" /\ inHand'[e] = inHand[e]
    BY <1>8
  <2> QED BY <1>1, <1>10, <2>1, <2>2, <2>3 DEF QqFrameInv, QqNumber
<1>15. QqNumber(QqFrameOf(f)) = f /\ QqNumber(frameQueue[1]) = f
  BY <1>3, <1>4, <1>6, QqFrameFacts
<1>16. \A e \in Qq!Handlers : QqInHands(e)' => e = h \/ (QqInHands(e) /\ inHand'[e] = inHand[e])
  BY <1>8 DEF QqInHands
<1>17. QqOrderInv'
  <2>1. ASSUME NEW i \in DOMAIN frameQueue', NEW j \in DOMAIN frameQueue', i < j
        PROVE  QqNumber(frameQueue'[i]) < QqNumber(frameQueue'[j])
    <3>1. i + 1 < j + 1
      BY <1>13, <2>1
    <3> QED BY <1>1, <1>13, <2>1, <3>1 DEF QqOrderInv
  <2>2. ASSUME NEW e \in Qq!Handlers, NEW i \in DOMAIN frameQueue', QqInHands(e)'
        PROVE  QqNumber(inHand'[e]) < QqNumber(frameQueue'[i])
    <3>1. CASE e = h
      <4>1. QqNumber(frameQueue[1]) < QqNumber(frameQueue[i + 1])
        BY <1>1, <1>3, <1>13 DEF QqOrderInv
      <4> QED BY <1>8, <1>13, <1>15, <3>1, <4>1
    <3>2. CASE QqInHands(e) /\ inHand'[e] = inHand[e]
      BY <1>1, <1>13, <3>2 DEF QqOrderInv
    <3> QED BY <1>16, <2>2, <3>1, <3>2
  <2>3. ASSUME sending # Qq!None, NEW i \in DOMAIN frameQueue' PROVE QqNumber(frameQueue'[i]) < sending[1]
    BY <1>1, <1>13, <2>3 DEF QqOrderInv
  <2>4. ASSUME sending # Qq!None, NEW e \in Qq!Handlers, QqInHands(e)' PROVE QqNumber(inHand'[e]) < sending[1]
    <3>1. CASE e = h
      <4>1. QqNumber(frameQueue[1]) < sending[1]
        BY <1>1, <1>3, <2>4 DEF QqOrderInv
      <4> QED BY <1>8, <1>15, <3>1, <4>1
    <3>2. CASE QqInHands(e) /\ inHand'[e] = inHand[e]
      BY <2>4, <3>2 DEF QqOrderInv
    <3> QED BY <1>16, <2>4, <3>1, <3>2
  <2> QED BY <1>1, <2>1, <2>2, <2>3, <2>4 DEF QqOrderInv, QqNumber
<1>18. ASSUME NEW k, QqWaiting(k)' PROVE QqWaiting(k)
  <2>1. CASE sending' # Qq!None /\ sending'[1] = k
    BY <1>1, <2>1 DEF QqWaiting
  <2>2. CASE \E i \in DOMAIN frameQueue' : QqNumber(frameQueue'[i]) = k
    BY <1>1, <1>13, <2>2 DEF QqWaiting
  <2>3. ASSUME NEW e \in Qq!Handlers, handlers'[e] = "busy", QqNumber(inHand'[e]) = k PROVE QqWaiting(k)
    <3>1. CASE e = h
      BY <1>1, <1>3, <1>8, <1>15, <2>3, <3>1 DEF QqWaiting
    <3>2. CASE e # h
      BY <1>8, <2>3, <3>2 DEF QqWaiting
    <3> QED BY <3>1, <3>2
  <2> QED BY <1>18, <2>1, <2>2, <2>3 DEF QqWaiting, QqNumber
<1>19. QqRingInv'
  <2> SUFFICES ASSUME ~strayHandler PROVE QqRingInv'
    BY <1>1 DEF QqRingInv
  <2>1. QqKnown' = QqKnown
    BY <1>1 DEF QqKnown
  <2>2. \A e \in Qq!Handlers : handlers'[e] = "saving" => handlers[e] = "saving" /\ inHand'[e] = inHand[e]
    BY <1>8
  <2> QED BY <1>1, <1>10, <1>18, <2>1, <2>2 DEF QqRingInv, QqNumber
<1> QED BY <1>9, <1>10, <1>12, <1>14, <1>17, <1>19

(* Everything else only takes frames away.                                  *)
LEMMA QqLess ==
  ASSUME Qq!QqAssumption, QqInv, QqCalm, Qq!TypeOK', QqLinkInv', UNCHANGED <<seenMessages, qqTexts>>,
         \A h \in Qq!Handlers : handlers'[h] = "saving" => handlers[h] = "saving"
  PROVE  QqInv'
  BY QqCalmKeeps, QqCalmRing DEF QqInv

LEMMA QqFragment == ASSUME Qq!QqAssumption, QqInv, Qq!Fragment PROVE QqInv'
<1> USE QqConstants DEF QqInv
<1>1. PICK f \in DOMAIN frames : /\ sending # Qq!None /\ sending[1] = f /\ frameQueue # Qq!NoFrames
                                 /\ QqFragmentDoes(f)
  BY QqFragmentEffect
<1>2. frames \in Seq(QqFrameRecords) /\ Len(frames) <= QqMaxFrames
  BY DEF Qq!TypeOK, QqFrameRecords, QqServerInv
<1>3. /\ QqFrameOf(f) \in Seq(Qq!FragmentSet) /\ QqNumber(QqFrameOf(f)) = f /\ QqFrameOf(f) # Qq!None
      /\ <<<<f, 1>>>> \in Seq(Qq!FragmentSet) /\ <<f, 2>> \in Qq!FragmentSet /\ <<f, 2>> # Qq!None
      /\ \A a, b : <<a, b>>[1] = a
  <2>1. <<f, 2>> # Qq!None
    BY DEF Qq!None
  <2> QED BY <1>2, <2>1, QqFrameFacts
<1>4. UNCHANGED <<frames, link, connections, wsTask, wsConnected, identifyPending, shouldReconnect,
                  qqStopping, handlers, inHand, inboundHandle, strayHandler, qqStopper,
                  seenMessages, qqTexts>>
  BY <1>1 DEF QqFragmentDoes, Qq!linkVars
<1>5. frameQueue \in Seq(Seq(Qq!FragmentSet))
  BY <1>1 DEF Qq!TypeOK
<1>6. /\ \/ frameQueue' = frameQueue
         \/ frameQueue' = Append(frameQueue, QqFrameOf(f)) /\ sending' = Qq!None
      /\ \/ sending' = Qq!None /\ assembly' \in {assembly, Qq!None}
         \/ sending' = <<f, 2>> /\ frames[f].len = 2 /\ assembly' = <<<<f, 1>>>>
      /\ assemblyLen' \in 0..2
  BY <1>1 DEF QqFragmentDoes
<1> DEFINE n == Len(frameQueue)
<1>7. /\ frameQueue' \in Seq(Seq(Qq!FragmentSet)) /\ n \in Nat /\ DOMAIN frameQueue = 1..n
      /\ \A i \in DOMAIN frameQueue' : \/ i \in DOMAIN frameQueue /\ frameQueue'[i] = frameQueue[i]
                                       \/ i = n + 1 /\ frameQueue'[i] = QqFrameOf(f) /\ sending' = Qq!None
  <2>1. PICK S : S = Seq(Qq!FragmentSet)
    OBVIOUS
  <2>2. n \in Nat /\ DOMAIN frameQueue = 1..n
    BY <1>5
  <2>3. CASE frameQueue' = frameQueue
    BY <1>5, <2>2, <2>3
  <2>4. CASE frameQueue' = Append(frameQueue, QqFrameOf(f)) /\ sending' = Qq!None
    <3>1. PICK q \in Seq(S), x \in S : q = frameQueue /\ x = QqFrameOf(f)
      BY <1>3, <1>5, <2>1
    <3>2. /\ Append(q, x) \in Seq(S) /\ DOMAIN Append(q, x) = 1..(Len(q) + 1) /\ Append(q, x)[Len(q) + 1] = x
          /\ \A i \in 1..Len(q) : Append(q, x)[i] = q[i]
          /\ \A i \in 1..(Len(q) + 1) : i \in 1..Len(q) \/ i = Len(q) + 1
      OBVIOUS
    <3> QED BY <2>1, <2>2, <2>4, <3>1, <3>2, Zenon
  <2> QED BY <1>6, <2>2, <2>3, <2>4
<1> HIDE DEF n
<1>8. frameQueue' # Qq!NoFrames
  <2>1. CASE frameQueue' = frameQueue
    BY <1>1, <2>1
  <2>2. CASE frameQueue' = Append(frameQueue, QqFrameOf(f))
    <3>1. Append(frameQueue, QqFrameOf(f))[Len(frameQueue) + 1] = QqFrameOf(f) /\ Len(Append(frameQueue, QqFrameOf(f))) = Len(frameQueue) + 1
          /\ Len(frameQueue) \in Nat
      BY <1>3, <1>5
    <3>2. Len(Qq!NoFrames) = 1 /\ Qq!NoFrames[1] = Qq!None
      BY DEF Qq!NoFrames, Qq!None
    <3> QED BY <1>3, <2>2, <3>1, <3>2
  <2> QED BY <1>6, <2>1, <2>2
<1>9. Qq!TypeOK'
  <2>1. sending' = Qq!None \/ sending' \in Qq!FragmentSet
    BY <1>3, <1>6
  <2>2. assembly' \in Seq(Qq!FragmentSet)
    <3>1. Qq!None \in Seq(Qq!FragmentSet)
      BY DEF Qq!None
    <3> QED BY <1>3, <1>6, <3>1 DEF Qq!TypeOK
  <2> QED BY <1>4, <1>6, <1>7, <2>1, <2>2 DEF Qq!TypeOK
<1>10. /\ QqServerInv' /\ Qq!Messages' = Qq!Messages
       /\ \A k : QqFrameOf(k)' = QqFrameOf(k) /\ QqIsMessage(k)' = QqIsMessage(k)
       /\ \A h : QqInHands(h)' = QqInHands(h)
  BY <1>4 DEF QqServerInv, Qq!Messages, QqFrameOf, QqIsMessage, QqInHands
<1>11. QqLinkInv'
  <2>1. Qq!AnyHandler' <=> Qq!AnyHandler
    BY <1>4 DEF Qq!AnyHandler
  <2> QED BY <1>1, <1>4, <1>8, <2>1 DEF QqLinkInv
<1>12. QqFrameInv'
  <2>1. sending' # Qq!None =>
          \E k \in DOMAIN frames', part \in 1..2 :
            /\ sending' = <<k, part>> /\ part <= frames'[k].len
            /\ part = 2 => assembly' \in {Qq!None, <<<<k, 1>>>>}
    <3>1. CASE sending' = <<f, 2>> /\ frames[f].len = 2 /\ assembly' = <<<<f, 1>>>>
      <4>1. 2 \in 1..2 /\ 2 <= frames'[f].len /\ f \in DOMAIN frames'
        BY <1>4, <3>1
      <4> QED BY <3>1, <4>1
    <3> QED BY <1>6, <3>1
  <2>2. \A i \in DOMAIN frameQueue' : \E k \in DOMAIN frames : frameQueue'[i] = QqFrameOf(k)
    BY <1>1, <1>7 DEF QqFrameInv
  <2>3. \A h \in Qq!Handlers : QqInHands(h) => \E k \in DOMAIN frames : inHand[h] = QqFrameOf(k)
    BY DEF QqFrameInv
  <2> QED BY <1>4, <1>10, <2>1, <2>2, <2>3 DEF QqFrameInv, QqNumber
<1>13. QqOrderInv'
  <2>1. /\ \A i \in DOMAIN frameQueue : QqNumber(frameQueue[i]) < f
        /\ \A h \in Qq!Handlers : QqInHands(h) => QqNumber(inHand[h]) < f
        /\ \A i, j \in DOMAIN frameQueue : i < j => QqNumber(frameQueue[i]) < QqNumber(frameQueue[j])
        /\ \A h \in Qq!Handlers, i \in DOMAIN frameQueue :
              QqInHands(h) => QqNumber(inHand[h]) < QqNumber(frameQueue[i])
    BY <1>1 DEF QqOrderInv
  <2>2. ASSUME NEW i \in DOMAIN frameQueue', NEW j \in DOMAIN frameQueue', i < j
        PROVE  QqNumber(frameQueue'[i]) < QqNumber(frameQueue'[j])
    <3>1. i \in DOMAIN frameQueue /\ frameQueue'[i] = frameQueue[i]
      <4>1. j \in 1..n \/ j = n + 1
        BY <1>7
      <4>2. i # n + 1
        BY <1>7, <2>2, <4>1
      <4> QED BY <1>7, <4>2
    <3> QED BY <1>3, <1>7, <2>1, <2>2, <3>1
  <2>3. ASSUME NEW h \in Qq!Handlers, NEW i \in DOMAIN frameQueue', QqInHands(h)
        PROVE  QqNumber(inHand[h]) < QqNumber(frameQueue'[i])
    BY <1>3, <1>7, <2>1, <2>3
  <2>4. ASSUME sending' # Qq!None
        PROVE  sending'[1] = f /\ \A i \in DOMAIN frameQueue' : QqNumber(frameQueue'[i]) < f
    <3>1. sending' = <<f, 2>>
      BY <1>6, <2>4
    <3>2. sending'[1] = f
      BY <1>3, <3>1
    <3> QED BY <1>7, <2>1, <2>4, <3>2
  <2> QED BY <1>4, <1>10, <2>1, <2>2, <2>3, <2>4 DEF QqOrderInv, QqNumber
<1>14. ASSUME NEW k, QqWaiting(k)' PROVE QqWaiting(k)
  <2>1. QqWaiting(f)
    BY <1>1 DEF QqWaiting
  <2>2. CASE sending' # Qq!None /\ sending'[1] = k
    <3>1. sending' = <<f, 2>>
      BY <1>6, <2>2
    <3>2. k = f
      BY <1>3, <2>2, <3>1
    <3> QED BY <2>1, <3>2
  <2>3. ASSUME NEW i \in DOMAIN frameQueue', QqNumber(frameQueue'[i]) = k PROVE QqWaiting(k)
    <3>1. CASE i \in DOMAIN frameQueue /\ frameQueue'[i] = frameQueue[i]
      BY <1>1, <2>3, <3>1 DEF QqWaiting
    <3>2. CASE frameQueue'[i] = QqFrameOf(f)
      BY <1>3, <2>1, <2>3, <3>2
    <3> QED BY <1>7, <3>1, <3>2
  <2>4. CASE \E h \in Qq!Handlers : handlers'[h] = "busy" /\ QqNumber(inHand'[h]) = k
    BY <1>4, <2>4 DEF QqWaiting
  <2> QED BY <1>14, <2>2, <2>3, <2>4 DEF QqWaiting, QqNumber
<1>15. QqRingInv'
  <2> SUFFICES ASSUME ~strayHandler PROVE QqRingInv'
    BY <1>4 DEF QqRingInv
  <2>1. QqKnown' = QqKnown
    BY <1>4 DEF QqKnown
  <2> QED BY <1>4, <1>10, <1>14, <2>1 DEF QqRingInv, QqNumber
<1> QED BY <1>9, <1>10, <1>11, <1>12, <1>13, <1>15

LEMMA QqProcess == ASSUME Qq!QqAssumption, QqInv, NEW h \in Qq!Handlers, Qq!ProcessFrame(h) PROVE QqInv'
<1> USE QqConstants DEF QqInv
<1>1. /\ handlers[h] = "busy"
      /\ UNCHANGED <<frames, sending, link, connections, wsTask, qqStopping, assembly, assemblyLen,
                     frameQueue, inboundHandle, strayHandler, qqStopper>>
  BY DEF Qq!ProcessFrame, Qq!serverSide, Qq!assemblyVars
<1>2. PICK f \in DOMAIN frames : inHand[h] = QqFrameOf(f)
  BY <1>1 DEF QqFrameInv, QqInHands
<1>3. frames \in Seq(QqFrameRecords) /\ Len(frames) <= QqMaxFrames
  BY DEF Qq!TypeOK, QqFrameRecords, QqServerInv
<1>4. inHand[h][1][1] = f /\ QqNumber(inHand[h]) = f /\ Qq!Whole(inHand[h])
  BY <1>2, <1>3, QqFrameFacts DEF QqNumber
<1>5. \/ Qq!Done(h) /\ UNCHANGED <<seenMessages, qqTexts>>
      \/ /\ QqIsMessage(f) /\ Qq!Dispatch(frames[f].msg)
         /\ handlers' = [handlers EXCEPT ![h] = "saving"] /\ inHand' = inHand /\ qqTexts' = qqTexts
  BY <1>4 DEF Qq!ProcessFrame, QqIsMessage, Qq!outVars
<1>6. {wsConnected', identifyPending', shouldReconnect'} \subseteq BOOLEAN
  <2>1. wsConnected \in BOOLEAN /\ identifyPending \in BOOLEAN /\ shouldReconnect \in BOOLEAN
    BY DEF Qq!TypeOK
  <2>2. wsConnected' \in BOOLEAN /\ identifyPending' \in BOOLEAN /\ shouldReconnect' \in BOOLEAN
    BY <2>1 DEF Qq!ProcessFrame, Qq!outVars
  <2> QED BY <2>2, Zenon
<1>7. /\ handlers' \in [Qq!Handlers -> {"none", "waiting", "busy", "saving"}]
      /\ \A e \in Qq!Handlers \ {h} : handlers'[e] = handlers[e] /\ inHand'[e] = inHand[e]
      /\ handlers'[h] \in {"waiting", "saving"}
      /\ handlers'[h] = "saving" => inHand'[h] = inHand[h]
      /\ inHand' \in [Qq!Handlers -> Seq(Qq!FragmentSet)]
  <2>1. Qq!None \in Seq(Qq!FragmentSet)
    BY DEF Qq!None
  <2> QED BY <1>5, <2>1 DEF Qq!TypeOK, Qq!Done
<1>8. /\ seenMessages' \in Seq(1..QqMaxFrames) /\ Len(seenMessages') <= QqSeenSize
      /\ qqTexts' = qqTexts
  <2>1. CASE UNCHANGED <<seenMessages, qqTexts>>
    BY <2>1 DEF Qq!TypeOK
  <2>2. CASE QqIsMessage(f) /\ Qq!Dispatch(frames[f].msg) /\ qqTexts' = qqTexts
    <3>1. frames[f].msg \in Qq!Messages
      BY <2>2 DEF Qq!Messages, QqIsMessage
    <3>2. PICK n \in Nat : n <= Len(frames) /\ Qq!Messages = 1..n
      BY DEF QqServerInv
    <3>3. frames[f].msg \in 1..QqMaxFrames
      <4>1. Len(frames) \in Nat
        BY <1>3
      <4> QED BY <1>3, <3>1, <3>2, <4>1
    <3>4. PICK S : S = 1..QqMaxFrames
      OBVIOUS
    <3>5. seenMessages \in Seq(S) /\ frames[f].msg \in S /\ Len(seenMessages) <= QqSeenSize /\ QqSeenSize \in Nat \ {0}
      BY <3>3, <3>4 DEF Qq!TypeOK
    <3>6. seenMessages' \in Seq(S) /\ Len(seenMessages') <= QqSeenSize
      <4>1. seenMessages' = LET ring == Append(seenMessages, frames[f].msg)
                            IN  IF Len(ring) > QqSeenSize THEN Tail(ring) ELSE ring
        BY <2>2 DEF Qq!Dispatch
      <4> HIDE DEF QqInv
      <4> QED BY <3>5, <4>1, RingKeeps
    <3> QED BY <2>2, <3>4, <3>6
  <2> QED BY <1>5, <2>1, <2>2
<1>9. Qq!TypeOK'
  <2>1. {wsConnected', identifyPending', shouldReconnect', qqStopping', inboundHandle', strayHandler'}
          \subseteq BOOLEAN
    BY <1>1, <1>6 DEF Qq!TypeOK
  <2> QED BY <1>1, <1>7, <1>8, <2>1 DEF Qq!TypeOK
<1>10. QqLinkInv'
  <2>1. \A e \in Qq!Handlers : handlers'[e] # "none" <=> handlers[e] # "none"
    BY <1>1, <1>7
  <2>2. Qq!AnyHandler' <=> Qq!AnyHandler
    BY <2>1 DEF Qq!AnyHandler
  <2> QED BY <1>1, <2>1, <2>2 DEF QqLinkInv
<1>11. \A e \in Qq!Handlers : /\ QqInHands(e)' => QqInHands(e) /\ inHand'[e] = inHand[e]
                              /\ handlers'[e] = "busy" => handlers[e] = "busy" /\ e # h
  BY <1>1, <1>7 DEF QqInHands
<1>12. QqCalm
  <2>1. ASSUME NEW e \in Qq!Handlers, handlers'[e] = "saving"
        PROVE  handlers[e] = "saving" \/ QqIsMessage(QqNumber(inHand[e]))
    <3>1. CASE e # h
      BY <1>7, <2>1, <3>1
    <3>2. CASE e = h
      <4>1. handlers'[h] # "waiting"
        BY <2>1, <3>2
      <4>2. QqIsMessage(f)
        BY <1>5, <4>1 DEF Qq!Done, Qq!TypeOK
      <4> QED BY <1>4, <3>2, <4>2
    <3> QED BY <3>1, <3>2
  <2>2. \A e \in Qq!Handlers :
          /\ QqInHands(e)' => QqInHands(e) /\ inHand'[e] = inHand[e]
          /\ handlers'[e] = "busy" => handlers[e] = "busy"
          /\ handlers'[e] = "saving" => handlers[e] = "saving" \/ QqIsMessage(QqNumber(inHand[e]))
    <3> HIDE DEF QqInv
    <3> QED BY ONLY <1>11, <2>1
  <2>3. /\ frames' = frames /\ sending' = sending /\ assembly' = assembly /\ frameQueue' = frameQueue
        /\ strayHandler' = strayHandler
    BY <1>1
  <2> HIDE DEF QqInv
  <2> QED BY ONLY <2>2, <2>3 DEF QqCalm
<1>13. CASE Qq!Done(h) /\ UNCHANGED <<seenMessages, qqTexts>>
  <2>1. \A e \in Qq!Handlers : handlers'[e] = "saving" => handlers[e] = "saving"
    BY <1>7, <1>13 DEF Qq!Done, Qq!TypeOK
  <2> QED BY <1>9, <1>10, <1>12, <1>13, <2>1, QqLess
<1>14. CASE /\ QqIsMessage(f) /\ Qq!Dispatch(frames[f].msg)
            /\ handlers' = [handlers EXCEPT ![h] = "saving"] /\ inHand' = inHand /\ qqTexts' = qqTexts
  <2>1. QqServerInv' /\ QqFrameInv' /\ QqOrderInv'
    BY <1>12, QqCalmKeeps
  <2>2. CASE strayHandler
    BY <1>1, <1>9, <1>10, <2>1, <2>2 DEF QqRingInv
  <2>3. CASE ~strayHandler
    <3>1. ASSUME NEW k, QqWaiting(k)' PROVE QqWaiting(k) /\ k # f
      <4>1. QqWaiting(k)
        BY <1>12, <3>1, QqCalmKeeps
      <4>2. CASE sending' # Qq!None /\ sending'[1] = k
        <5>1. f < k
          BY <1>1, <1>4, <4>2 DEF QqOrderInv, QqInHands
        <5> QED BY <1>3, <4>1, <5>1, QqFrameFacts
      <4>3. CASE frameQueue' # Qq!NoFrames /\ \E i \in DOMAIN frameQueue' : QqNumber(frameQueue'[i]) = k
        <5>1. f < k
          BY <1>1, <1>4, <4>3 DEF QqOrderInv, QqInHands
        <5> QED BY <1>3, <4>1, <5>1, QqFrameFacts
      <4>4. CASE \E e \in Qq!Handlers : handlers'[e] = "busy" /\ QqNumber(inHand'[e]) = k
        <5>1. PICK e \in Qq!Handlers : handlers'[e] = "busy"
          BY <4>4
        <5>2. handlers[e] = "busy" /\ e # h
          BY <1>7, <5>1
        <5> QED BY <1>1, <2>3, <5>2 DEF QqLinkInv
      <4> QED BY <3>1, <4>1, <4>2, <4>3, <4>4 DEF QqWaiting, QqNumber
    <3>2. ~strayHandler'
      BY <1>1, <2>3
    <3>3. QqRingInv'
      <4> HIDE DEF QqInv
      <4> QED BY <1>1, <1>2, <1>12, <1>14, <3>1, <3>2, QqDispatch
    <3> QED BY <1>9, <1>10, <2>1, <3>3
  <2> QED BY <2>2, <2>3
<1> QED BY <1>5, <1>13, <1>14

LEMMA QqSave == ASSUME Qq!QqAssumption, QqInv, NEW h \in Qq!Handlers, Qq!SaveAndPublish(h) PROVE QqInv'
<1> USE QqConstants DEF QqInv
<1>1. /\ handlers[h] = "saving"
      /\ handlers' = [handlers EXCEPT ![h] = "waiting"] /\ inHand' = [inHand EXCEPT ![h] = Qq!None]
      /\ qqTexts' \in {qqTexts, Append(qqTexts, frames[inHand[h][1][1]].msg)}
      /\ UNCHANGED <<frames, sending, link, connections, wsTask, wsConnected, identifyPending,
                     shouldReconnect, qqStopping, assembly, assemblyLen, frameQueue, inboundHandle,
                     strayHandler, qqStopper, seenMessages>>
  BY DEF Qq!SaveAndPublish, Qq!Done, Qq!serverSide, Qq!linkVars, Qq!assemblyVars
<1>2. /\ \A e \in Qq!Handlers \ {h} : handlers'[e] = handlers[e] /\ inHand'[e] = inHand[e]
      /\ handlers'[h] = "waiting"
  BY <1>1 DEF Qq!TypeOK
<1>3. QqCalm
  BY <1>1, <1>2 DEF QqCalm, QqInHands
<1>4. QqLinkInv'
  <2>1. \A e \in Qq!Handlers : handlers'[e] # "none" <=> handlers[e] # "none"
    BY <1>1, <1>2
  <2>2. Qq!AnyHandler' <=> Qq!AnyHandler
    BY <2>1 DEF Qq!AnyHandler
  <2> QED BY <1>1, <2>1, <2>2 DEF QqLinkInv
<1>5. QqServerInv' /\ QqFrameInv' /\ QqOrderInv'
  BY <1>3, QqCalmKeeps
<1>6. ASSUME qqTexts' \in Seq(1..QqMaxFrames) PROVE Qq!TypeOK'
  <2>1. Qq!None \in Seq(Qq!FragmentSet)
    BY DEF Qq!None
  <2> QED BY <1>1, <1>6, <2>1 DEF Qq!TypeOK
<1>7. CASE qqTexts' = qqTexts
  <2>1. Qq!TypeOK'
    BY <1>6, <1>7 DEF Qq!TypeOK
  <2>2. \A e \in Qq!Handlers : handlers'[e] = "saving" => handlers[e] = "saving"
    BY <1>2
  <2> QED BY <1>1, <1>3, <1>4, <1>7, <2>1, <2>2, QqLess
<1>8. CASE qqTexts' = Append(qqTexts, frames[inHand[h][1][1]].msg)
  <2>1. qqTexts' \in Seq(1..QqMaxFrames)
    <3>1. PICK f \in DOMAIN frames : inHand[h] = QqFrameOf(f)
      BY <1>1 DEF QqFrameInv, QqInHands
    <3>2. frames \in Seq(QqFrameRecords) /\ Len(frames) <= QqMaxFrames /\ Len(frames) \in Nat
      BY DEF Qq!TypeOK, QqFrameRecords, QqServerInv
    <3>3. inHand[h][1][1] = f /\ QqNumber(inHand[h]) = f
      BY <3>1, <3>2, QqFrameFacts DEF QqNumber
    <3>4. frames[f].msg \in Qq!Messages
      BY <1>1, <3>3 DEF Qq!Messages, QqIsMessage, QqFrameInv
    <3>5. frames[f].msg \in 1..QqMaxFrames
      <4>1. PICK n \in Nat : n <= Len(frames) /\ Qq!Messages = 1..n
        BY DEF QqServerInv
      <4> QED BY <3>2, <3>4, <4>1
    <3>6. qqTexts \in Seq(1..QqMaxFrames)
      BY DEF Qq!TypeOK
    <3>7. \A S : qqTexts \in Seq(S) /\ frames[f].msg \in S => Append(qqTexts, frames[f].msg) \in Seq(S)
      BY AppendProperties
    <3> QED BY <1>8, <3>3, <3>5, <3>6, <3>7, Zenon
  <2>2. QqRingInv'
    <3>1. CASE strayHandler
      BY <1>1, <3>1 DEF QqRingInv
    <3>2. CASE ~strayHandler
      BY <1>1, <1>3, <1>8, <3>2, QqPublish
    <3> QED BY <3>1, <3>2
  <2> QED BY <1>4, <1>5, <1>6, <2>1, <2>2
<1> QED BY <1>1, <1>7, <1>8

LEMMA QqStep == ASSUME Qq!QqAssumption, QqInv, [Qq!Next]_(Qq!qqVars) PROVE QqInv'
<1>1. CASE Qq!ServerSends \/ Qq!Fragment
  BY <1>1, QqSends, QqFragment
<1>2. ASSUME NEW h \in Qq!Handlers, Qq!TakeFrame(h) \/ Qq!ProcessFrame(h) \/ Qq!SaveAndPublish(h) PROVE QqInv'
  BY <1>2, QqTake, QqProcess, QqSave
<1> USE QqConstants DEF QqInv, Qq!linkVars, Qq!serverSide, Qq!assemblyVars, Qq!inboundVars, Qq!outVars
<1>3. /\ wsConnected \in BOOLEAN /\ identifyPending \in BOOLEAN /\ shouldReconnect \in BOOLEAN
      /\ qqStopping \in BOOLEAN /\ inboundHandle \in BOOLEAN /\ strayHandler \in BOOLEAN
  BY DEF Qq!TypeOK
<1>4. DOMAIN Qq!None = {} /\ Qq!None # Qq!NoFrames /\ Qq!None \in Seq(Seq(Qq!FragmentSet)) /\ Qq!None \in Seq(Qq!FragmentSet)
  <2>1. Len(Qq!None) = 0 /\ Len(Qq!NoFrames) = 1 /\ DOMAIN Qq!None = {}
    BY DEF Qq!None, Qq!NoFrames
  <2>2. Qq!None \in Seq(Seq(Qq!FragmentSet)) /\ Qq!None \in Seq(Qq!FragmentSet)
    BY DEF Qq!None
  <2>3. Qq!None # Qq!NoFrames
    BY ONLY <2>1
  <2> QED BY ONLY <2>1, <2>2, <2>3
<1>5. ASSUME wsConnected' \in BOOLEAN, identifyPending' \in BOOLEAN, shouldReconnect' \in BOOLEAN,
             qqStopping' \in BOOLEAN, inboundHandle' \in BOOLEAN, strayHandler' \in BOOLEAN
      PROVE  {wsConnected', identifyPending', shouldReconnect', qqStopping', inboundHandle', strayHandler'}
               \subseteq BOOLEAN
  BY <1>5, Zenon
<1>6. CASE \/ Qq!ConnectedEvent \/ Qq!DisconnectedEvent \/ Qq!WsConnect \/ Qq!WsIdentify \/ Qq!WsClose \/ Qq!WsTaskEnds
           \/ Qq!StopBegins \/ Qq!StopTimesOut \/ Qq!StopSeesWsEnd \/ UNCHANGED Qq!qqVars
  <2>1. UNCHANGED <<frames, frameQueue, handlers, inHand, inboundHandle, strayHandler,
                    assembly, assemblyLen, seenMessages, qqTexts>>
    BY <1>6 DEF Qq!ConnectedEvent, Qq!DisconnectedEvent, Qq!WsConnect, Qq!WsIdentify, Qq!WsClose, Qq!WsTaskEnds,
                Qq!StopBegins, Qq!StopTimesOut, Qq!StopSeesWsEnd, Qq!qqVars
  <2>2. sending' = sending \/ sending' = Qq!None
    BY <1>6 DEF Qq!ConnectedEvent, Qq!DisconnectedEvent, Qq!WsConnect, Qq!WsIdentify, Qq!WsClose, Qq!WsTaskEnds,
                Qq!StopBegins, Qq!StopTimesOut, Qq!StopSeesWsEnd, Qq!qqVars
  <2>3. QqCalm /\ \A h \in Qq!Handlers : handlers'[h] = "saving" => handlers[h] = "saving"
    BY <2>1, <2>2 DEF QqCalm, QqInHands
  <2>4. Qq!AnyHandler' <=> Qq!AnyHandler
    BY <2>1 DEF Qq!AnyHandler
  <2>5. QqLinkInv'
    <3>1. CASE Qq!ConnectedEvent \/ Qq!DisconnectedEvent \/ Qq!WsConnect \/ Qq!WsIdentify
      BY <1>3, <2>1, <2>4, <3>1 DEF QqLinkInv, Qq!ConnectedEvent, Qq!DisconnectedEvent, Qq!WsConnect, Qq!WsIdentify
    <3>2. CASE Qq!WsClose \/ Qq!WsTaskEnds
      BY <1>3, <2>1, <2>4, <3>2 DEF QqLinkInv, Qq!WsClose, Qq!WsTaskEnds
    <3>3. CASE Qq!StopBegins \/ Qq!StopTimesOut \/ Qq!StopSeesWsEnd \/ UNCHANGED Qq!qqVars
      BY <1>3, <2>1, <2>4, <3>3 DEF QqLinkInv, Qq!StopBegins, Qq!StopTimesOut, Qq!StopSeesWsEnd, Qq!qqVars
    <3> QED BY <1>6, <3>1, <3>2, <3>3
  <2>6. /\ wsConnected' \in BOOLEAN /\ identifyPending' \in BOOLEAN /\ shouldReconnect' \in BOOLEAN
        /\ qqStopping' \in BOOLEAN /\ link' \in {"none", "opening", "up"} /\ connections' \in 0..QqMaxConnections
        /\ wsTask' \in {"none", "fetch", "serve"} /\ qqStopper' \in {"none", "ws", "inbound"}
    <3>1. link \in {"none", "opening", "up"} /\ connections \in 0..QqMaxConnections
          /\ wsTask \in {"none", "fetch", "serve"} /\ qqStopper \in {"none", "ws", "inbound"}
      BY DEF Qq!TypeOK
    <3>2. QqMaxConnections \in Nat
      OBVIOUS
    <3> HIDE DEF QqInv
    <3>3. CASE Qq!ConnectedEvent \/ Qq!DisconnectedEvent
      BY ONLY <1>3, <3>1, <3>3 DEF Qq!ConnectedEvent, Qq!DisconnectedEvent
    <3>4. CASE Qq!WsConnect
      <4>1. connections < QqMaxConnections /\ connections' = connections + 1
        BY ONLY <3>4 DEF Qq!WsConnect
      <4>2. connections' \in 0..QqMaxConnections
        BY ONLY <3>1, <3>2, <4>1
      <4>3. /\ wsTask' = "serve" /\ link' = "opening" /\ wsConnected' = FALSE /\ identifyPending' = FALSE
            /\ shouldReconnect' = FALSE /\ UNCHANGED <<qqStopping, qqStopper>>
        BY ONLY <3>4 DEF Qq!WsConnect
      <4> QED BY ONLY <1>3, <3>1, <4>2, <4>3
    <3>5. CASE Qq!WsIdentify \/ Qq!WsClose
      BY ONLY <1>3, <3>1, <3>5 DEF Qq!WsIdentify, Qq!WsClose
    <3>6. CASE Qq!WsTaskEnds
      BY ONLY <1>3, <3>1, <3>6 DEF Qq!WsTaskEnds
    <3>7. CASE Qq!StopBegins \/ Qq!StopTimesOut \/ Qq!StopSeesWsEnd \/ UNCHANGED Qq!qqVars
      BY ONLY <1>3, <3>1, <3>7 DEF Qq!StopBegins, Qq!StopTimesOut, Qq!StopSeesWsEnd, Qq!qqVars
    <3> QED BY <1>6, <3>3, <3>4, <3>5, <3>6, <3>7
  <2>7. Qq!TypeOK'
    BY <1>3, <1>5, <2>1, <2>2, <2>6 DEF Qq!TypeOK
  <2> QED BY <2>1, <2>3, <2>5, <2>7, QqLess
<1>7. ASSUME NEW h \in Qq!Handlers, Qq!InboundTaskEnds(h) PROVE QqInv'
  <2>1. /\ handlers[h] = "waiting" /\ handlers' = [handlers EXCEPT ![h] = "none"] /\ inboundHandle' = FALSE
        /\ UNCHANGED <<frames, sending, link, connections, wsTask, wsConnected, identifyPending, shouldReconnect,
                       qqStopping, assembly, assemblyLen, frameQueue, inHand, strayHandler, qqStopper,
                       seenMessages, qqTexts>>
    BY <1>7 DEF Qq!InboundTaskEnds
  <2>2. \A e \in Qq!Handlers : handlers'[e] = handlers[e] \/ (e = h /\ handlers'[e] = "none")
    BY <2>1 DEF Qq!TypeOK
  <2>3. QqCalm /\ \A e \in Qq!Handlers : handlers'[e] = "saving" => handlers[e] = "saving"
    BY <2>1, <2>2 DEF QqCalm, QqInHands
  <2>4. QqLinkInv'
    <3>1. ASSUME ~strayHandler PROVE ~Qq!AnyHandler'
      <4>1. \A e \in Qq!Handlers : e # h => handlers[e] = "none"
        BY <2>1, <3>1 DEF QqLinkInv
      <4>2. handlers'[h] = "none"
        BY <2>1 DEF Qq!TypeOK
      <4> QED BY <2>2, <4>1, <4>2 DEF Qq!AnyHandler
    <3>2. ~strayHandler => \A d, e \in Qq!Handlers : handlers'[d] # "none" /\ handlers'[e] # "none" => d = e
      BY <2>2 DEF QqLinkInv
    <3> QED BY <2>1, <3>1, <3>2 DEF QqLinkInv
  <2>5. Qq!TypeOK'
    <3>1. {wsConnected', identifyPending', shouldReconnect', qqStopping', inboundHandle', strayHandler'}
            \subseteq BOOLEAN
      BY <1>3, <1>5, <2>1
    <3>2. handlers' \in [Qq!Handlers -> {"none", "waiting", "busy", "saving"}]
      BY <2>1 DEF Qq!TypeOK
    <3> QED BY <2>1, <3>1, <3>2 DEF Qq!TypeOK
  <2> QED BY <2>1, <2>3, <2>4, <2>5, QqLess
<1>8. CASE Qq!GatewayStart
  <2>1. /\ qqStopper = "none" /\ wsTask = "none" /\ qqStopping' = FALSE
        /\ frameQueue' = IF frameQueue = Qq!NoFrames THEN Qq!None ELSE frameQueue
        /\ inboundHandle' = TRUE /\ wsTask' = "fetch" /\ strayHandler' = (strayHandler \/ Qq!AnyHandler)
        /\ UNCHANGED <<frames, sending, link, connections, wsConnected, identifyPending, shouldReconnect,
                       assembly, assemblyLen, inHand, qqStopper, seenMessages, qqTexts>>
    BY <1>8 DEF Qq!GatewayStart
  <2>2. PICK h \in Qq!Handlers : handlers[h] = "none" /\ handlers' = [handlers EXCEPT ![h] = "waiting"]
    BY <1>8 DEF Qq!GatewayStart
  <2>3. \A e \in Qq!Handlers : handlers'[e] = handlers[e] \/ (e = h /\ handlers'[e] = "waiting")
    BY <2>2 DEF Qq!TypeOK
  <2>4. QqCalm /\ \A e \in Qq!Handlers : handlers'[e] = "saving" => handlers[e] = "saving"
    BY <2>1, <2>3 DEF QqCalm, QqInHands
  <2>5. frameQueue' # Qq!NoFrames
    BY <1>4, <2>1
  <2>6. QqLinkInv'
    <3>1. ~strayHandler' => \A e \in Qq!Handlers : handlers[e] = "none"
      BY <2>1 DEF Qq!AnyHandler
    <3>2. ~strayHandler' => \A d, e \in Qq!Handlers : handlers'[d] # "none" /\ handlers'[e] # "none" => d = e
      BY <2>3, <3>1
    <3> QED BY <2>1, <2>5, <3>2 DEF QqLinkInv
  <2>7. Qq!TypeOK'
    <3>1. strayHandler' \in BOOLEAN
      BY <1>3, <2>1 DEF Qq!AnyHandler
    <3>2. frameQueue' \in Seq(Seq(Qq!FragmentSet))
      BY <1>4, <2>1 DEF Qq!TypeOK
    <3>3. {wsConnected', identifyPending', shouldReconnect', qqStopping', inboundHandle', strayHandler'}
            \subseteq BOOLEAN
      BY <1>3, <1>5, <2>1, <3>1
    <3> QED BY <2>1, <2>2, <3>2, <3>3 DEF Qq!TypeOK
  <2> QED BY <2>1, <2>4, <2>6, <2>7, QqLess
<1>9. CASE Qq!StopIdle \/ Qq!StopDeletesQueue
  <2>1. /\ assembly' = Qq!None /\ assemblyLen' = 0 /\ link' = "none" /\ sending' = Qq!None /\ wsTask' = "none"
        /\ inboundHandle' = FALSE /\ wsConnected' = FALSE /\ identifyPending' = FALSE
        /\ shouldReconnect' = FALSE /\ qqStopping' = FALSE
        /\ UNCHANGED <<frames, connections, handlers, inHand, seenMessages, qqTexts>>
    BY <1>9 DEF Qq!StopIdle, Qq!StopDeletesQueue, Qq!ResetRuntimeState, Qq!Put
  <2>2. \/ strayHandler' = (strayHandler \/ Qq!AnyHandler) /\ frameQueue' = frameQueue /\ qqStopper' = qqStopper
        \/ strayHandler' = strayHandler /\ ~inboundHandle /\ frameQueue' = Qq!NoFrames /\ qqStopper' = "none"
    BY <1>9 DEF Qq!StopIdle, Qq!StopDeletesQueue
  <2>3. QqCalm /\ \A e \in Qq!Handlers : handlers'[e] = "saving" => handlers[e] = "saving"
    <3>1. strayHandler => strayHandler'
      BY ONLY <2>2, Zenon
    <3> QED BY <2>1, <2>2, <3>1 DEF QqCalm, QqInHands
  <2>4. Qq!AnyHandler' <=> Qq!AnyHandler
    BY <2>1 DEF Qq!AnyHandler
  <2>5. ~strayHandler' => ~strayHandler /\ ~Qq!AnyHandler
    BY <2>2 DEF QqLinkInv
  <2>6. QqLinkInv'
    BY <2>1, <2>4, <2>5 DEF QqLinkInv
  <2>7. Qq!TypeOK'
    <3>1. strayHandler' \in BOOLEAN
      BY <1>3, <2>2 DEF Qq!AnyHandler
    <3>2. {wsConnected', identifyPending', shouldReconnect', qqStopping', inboundHandle', strayHandler'}
            \subseteq BOOLEAN
      BY <1>5, <2>1, <3>1
    <3>3. frameQueue' = Qq!NoFrames \/ frameQueue' \in Seq(Seq(Qq!FragmentSet))
      BY <2>2 DEF Qq!TypeOK
    <3>4. qqStopper' \in {"none", "ws", "inbound"}
      BY <2>2 DEF Qq!TypeOK
    <3>5. assembly' \in Seq(Qq!FragmentSet) /\ assemblyLen' \in 0..2
      BY <1>4, <2>1
    <3> QED BY <2>1, <3>2, <3>3, <3>4, <3>5 DEF Qq!TypeOK
  <2> QED BY <2>1, <2>3, <2>6, <2>7, QqLess
<1> QED BY <1>1, <1>2, <1>6, <1>7, <1>8, <1>9 DEF Qq!Next

LEMMA QqSound ==
  ASSUME Qq!QqAssumption, QqInv
  PROVE  Qq!TypeOK /\ Qq!FramesWhole /\ Qq!TextsOnce /\ Qq!QueueOutlivesTasks
<1> USE DEF QqInv
<1>1. frames \in Seq(QqFrameRecords) /\ Len(frames) <= QqMaxFrames
  BY DEF Qq!TypeOK, QqFrameRecords, QqServerInv
<1>2. \A f \in DOMAIN frames : Qq!Whole(QqFrameOf(f))
  BY <1>1, QqFrameFacts
<1>3. Qq!FramesWhole
  BY <1>2 DEF Qq!FramesWhole, QqFrameInv, QqInHands
<1>4. Qq!TextsOnce /\ Qq!QueueOutlivesTasks
  BY DEF Qq!TextsOnce, Qq!QueueOutlivesTasks, QqRingInv, QqLinkInv
<1> QED BY <1>3, <1>4

-----------------------------------------------------------------------------
(***************************************************************************)
(* Receiving on Feishu.                                                    *)
(***************************************************************************)

LEMMA FsRingMoves ==
  ASSUME NEW w \in Nat \ {0}, NEW size \in Nat \ {0}, NEW ring \in Seq(Nat), Len(ring) <= size,
         NEW m \in Nat, RingOrdered(ring, w), m \notin Fs!ToSet(ring),
         \A x \in Fs!ToSet(ring) : x < m + w
  PROVE  LET r == Append(ring, m)
             kept == IF Len(r) > size THEN Tail(r) ELSE r
         IN  /\ RingOrdered(kept, w) /\ m \in Fs!ToSet(kept)
             /\ Fs!ToSet(kept) \subseteq Fs!ToSet(ring) \cup {m}
             /\ \A x \in Fs!ToSet(ring) \ Fs!ToSet(kept) : LeftBehind(x, kept, size, w)
             /\ \A x \in Nat : LeftBehind(x, ring, size, w) /\ x < m + w => LeftBehind(x, kept, size, w)
<1>1. \A s : Fs!ToSet(s) = ToSet(s)
  BY DEF Fs!ToSet, ToSet
<1> QED BY <1>1, RingMoves

LEMMA FsAppendedElements ==
  ASSUME NEW S, NEW s \in Seq(S), NEW x \in S
  PROVE  /\ Append(s, x) \in Seq(S) /\ Fs!ToSet(Append(s, x)) = Fs!ToSet(s) \cup {x}
         /\ (\A i, j \in DOMAIN s : i # j => s[i] # s[j]) /\ x \notin Fs!ToSet(s)
              => \A i, j \in DOMAIN Append(s, x) : i # j => Append(s, x)[i] # Append(s, x)[j]
<1>1. \A q : Fs!ToSet(q) = ToSet(q)
  BY DEF Fs!ToSet, ToSet
<1> QED BY <1>1, AppendedElements

FsFrames == Fs!Ids \cup {Fs!Control}
FsWholeFrame(m, len) == [i \in 1..len |-> <<m, i>>]

(* What the callback has is a whole frame, and a buffer that a fragment     *)
(* continues holds the first fragment of the same frame.                    *)
FsFrameInv ==
  /\ Len(fsMessages) <= FsMaxMessages
  /\ fsSending # Fs!None =>
       \E m \in FsFrames, len \in Fs!FrameLens, part \in Fs!FrameLens :
         /\ fsSending = <<m, part, len>> /\ part <= len
         /\ part = 2 => rxBuf \in {Fs!None, <<<<m, 1>>>>}
  /\ fsCall # Fs!None =>
       \E m \in FsFrames, len \in Fs!FrameLens :
         \/ fsCall = <<"complete", FsWholeFrame(m, len), len>>
         \/ fsCall = <<"handled", FsWholeFrame(m, len), len>> /\ m \in fsHandled

(* While a task may use the queue it is there.                              *)
FsQueueInv ==
  /\ fsSending # Fs!None => fsLink
  /\ fsLink \/ fsCall # Fs!None => fsWsTask = "serve"
  /\ fsWsTask # "none" \/ fsDownloader # "none" \/ fsManager = "starting" => fsJobs # Fs!NoQueue
  /\ fsManager = "starting" => fsWsTask = "none"

(* What was recorded or published in this boot.                             *)
FsKnown == Fs!ToSet(fsSeen) \cup Fs!ToSet(fsTexts)

(* What is known was sent, and what was published and has left the ring is  *)
(* not much younger than what pushed it out.                                *)
FsRingInv ==
  /\ FsKnown \subseteq 1..Len(fsMessages)
  /\ RingOrdered(fsSeen, FsResendWindow)
  /\ \A x \in Fs!ToSet(fsTexts) \ Fs!ToSet(fsSeen) : LeftBehind(x, fsSeen, FsSeenSize, FsResendWindow)
  /\ Fs!TextsOnce

(* A message on its way was sent and is not much older than what is known,  *)
(* nor than the one that is handled before it.                              *)
FsToHandle(m) == \E len \in Fs!FrameLens : fsCall = <<"complete", FsWholeFrame(m, len), len>>
FsOnItsWay(m) == \E part, len \in Fs!FrameLens : fsSending = <<m, part, len>>

FsWayInv ==
  \A m \in Fs!Ids :
    /\ FsToHandle(m) \/ FsOnItsWay(m) =>
         m <= Len(fsMessages) /\ \A x \in FsKnown : x < m + FsResendWindow
    /\ FsOnItsWay(m) => \A k \in Fs!Ids : FsToHandle(k) => k < m + FsResendWindow

FsInv == Fs!TypeOK /\ FsFrameInv /\ FsQueueInv /\ Fs!AckedIsHandled /\ FsRingInv /\ FsWayInv

LEMMA FsConstants ==
  ASSUME Fs!FeishuAssumption
  PROVE  /\ FsMaxMessages \in Nat \ {0} /\ FsSeenSize \in Nat \ {0} /\ FsResendWindow \in Nat \ {0}
         /\ 2 * FsResendWindow <= FsSeenSize + 1
         /\ FsMaxResets \in Nat /\ FsJobQueueLen \in Nat /\ Fs!Ids \subseteq Nat /\ FsFrames \subseteq Nat
         /\ Fs!Control \notin Fs!Ids /\ FsFrames = 0..FsMaxMessages
  BY DEF Fs!FeishuAssumption, Fs!Ids, FsFrames, Fs!Control

LEMMA FsNoJobIsZero == \A q \in Seq(Fs!Ids) : q # Fs!NoQueue
<1> SUFFICES ASSUME NEW q \in Seq(Fs!Ids), q = Fs!NoQueue PROVE FALSE
  OBVIOUS
<1>1. Len(q) = 1 /\ q[1] = 0
  BY DEF Fs!NoQueue
<1>2. q[1] \in Fs!Ids
  BY <1>1
<1> QED BY <1>1, <1>2 DEF Fs!Ids

LEMMA FsFrameFacts ==
  ASSUME NEW m \in FsFrames, NEW len \in Fs!FrameLens
  PROVE  /\ FsWholeFrame(m, len) \in Seq(Fs!FragmentSet) /\ Fs!Called(FsWholeFrame(m, len)) = m
         /\ FsWholeFrame(m, len) # Fs!None
         /\ len = 1 => <<<<m, 1>>>> = FsWholeFrame(m, len)
         /\ len = 2 => Append(<<<<m, 1>>>>, <<m, 2>>) = FsWholeFrame(m, len)
         /\ <<<<m, 1>>>> \in Seq(Fs!FragmentSet)
<1>1. <<m, 1>> \in Fs!FragmentSet /\ <<m, 2>> \in Fs!FragmentSet
  BY DEF Fs!FragmentSet, FsFrames, Fs!FrameLens
<1>2. <<<<m, 1>>>> \in Seq(Fs!FragmentSet) /\ <<<<m, 1>>, <<m, 2>>>> \in Seq(Fs!FragmentSet)
  BY <1>1
<1>3. CASE len = 1
  <2>1. FsWholeFrame(m, len) = <<<<m, 1>>>>
    BY <1>3 DEF FsWholeFrame
  <2> QED BY <1>2, <1>3, <2>1 DEF Fs!Called, Fs!None
<1>4. CASE len = 2
  <2>1. FsWholeFrame(m, len) = <<<<m, 1>>, <<m, 2>>>>
    BY <1>4 DEF FsWholeFrame
  <2>2. Append(<<<<m, 1>>>>, <<m, 2>>) = <<<<m, 1>>, <<m, 2>>>>
    BY <1>1, <1>2, AppendToOne
  <2>3. <<<<m, 1>>, <<m, 2>>>>[1][1] = m /\ <<<<m, 1>>, <<m, 2>>>> # <<>>
    OBVIOUS
  <2>4. Fs!Called(FsWholeFrame(m, len)) = m /\ FsWholeFrame(m, len) # Fs!None
    BY <2>1, <2>3 DEF Fs!Called, Fs!None
  <2>5. FsWholeFrame(m, len) \in Seq(Fs!FragmentSet)
    BY <1>2, <2>1
  <2> QED BY <1>2, <1>4, <2>1, <2>2, <2>4, <2>5
<1> QED BY <1>3, <1>4 DEF Fs!FrameLens

LEMMA FsStart == ASSUME Fs!FeishuAssumption, Fs!Init PROVE FsInv
<1> USE DEF Fs!Init
<1>1. <<>> \in Seq(Fs!Ids) /\ <<>> \in Seq(Fs!Kinds) /\ <<>> \in Seq(Fs!FragmentSet) /\ Len(<<>>) = 0
      /\ Fs!ToSet(<<>>) = {}
  BY DEF Fs!ToSet
<1>2. 0 <= FsSeenSize /\ FsMaxResets \in 0..FsMaxResets /\ 0 <= FsMaxMessages
  BY FsConstants
<1>3. Fs!TypeOK
  <2>1. {fsLink, fsStopping} \subseteq BOOLEAN
    BY Zenon
  <2> QED BY <1>1, <1>2, <2>1 DEF Fs!TypeOK, Fs!None
<1>4. FsRingInv /\ FsWayInv
  BY <1>1 DEF FsRingInv, FsWayInv, FsKnown, RingOrdered, Fs!TextsOnce, FsToHandle, FsOnItsWay, Fs!None
<1> QED BY <1>1, <1>2, <1>3, <1>4 DEF FsInv, FsFrameInv, FsQueueInv, Fs!AckedIsHandled, Fs!None

(* A new message, one sent again, or a frame without any.                   *)
LEMMA FsSends == ASSUME Fs!FeishuAssumption, FsInv, Fs!ServerSends PROVE FsInv'
<1> USE FsConstants DEF FsInv
<1>1. /\ fsSending = Fs!None /\ fsLink
      /\ UNCHANGED <<fsAcked, fsLink, fsWsTask, rxBuf, fsCall, fsSeen, fsTexts, fsHandled, fsJobs,
                     fsDownloader, fsStopping, fsManager, resetsLeft>>
  BY DEF Fs!ServerSends, Fs!outVars
<1>2. fsMessages \in Seq(Fs!Kinds) /\ Len(fsMessages) \in Nat /\ Len(fsMessages) <= FsMaxMessages
  BY DEF Fs!TypeOK, FsFrameInv
<1>3. PICK len \in Fs!FrameLens, m \in FsFrames :
        /\ fsSending' = <<m, 1, len>>
        /\ fsMessages' \in Seq(Fs!Kinds) /\ Len(fsMessages') <= FsMaxMessages
        /\ Len(fsMessages) <= Len(fsMessages') /\ Len(fsMessages') \in Nat
        /\ m \in Fs!Ids => m <= Len(fsMessages') /\ \A x \in 1..Len(fsMessages) : x < m + FsResendWindow
  <2>1. ASSUME NEW len \in Fs!FrameLens, NEW kind \in Fs!Kinds, Fs!NewMessage <= FsMaxMessages,
               fsMessages' = Append(fsMessages, kind), fsSending' = <<Fs!NewMessage, 1, len>>
        PROVE  \E m \in FsFrames :
                 /\ fsSending' = <<m, 1, len>>
                 /\ fsMessages' \in Seq(Fs!Kinds) /\ Len(fsMessages') <= FsMaxMessages
                 /\ Len(fsMessages) <= Len(fsMessages') /\ Len(fsMessages') \in Nat
                 /\ m \in Fs!Ids => m <= Len(fsMessages') /\ \A x \in 1..Len(fsMessages) : x < m + FsResendWindow
    <3>1. fsMessages' \in Seq(Fs!Kinds) /\ Len(fsMessages') = Len(fsMessages) + 1
      BY <1>2, <2>1
    <3>2. Fs!NewMessage = Len(fsMessages) + 1 /\ Fs!NewMessage \in FsFrames
      BY <1>2, <2>1 DEF Fs!NewMessage, FsFrames, Fs!Ids
    <3>3. \A x \in 1..Len(fsMessages) : x < Fs!NewMessage + FsResendWindow
      BY <1>2, <3>2
    <3> QED BY <1>2, <2>1, <3>1, <3>2, <3>3
  <2>2. ASSUME NEW len \in Fs!FrameLens, NEW m \in Fs!Sendable \cup {Fs!Control},
               fsSending' = <<m, 1, len>>, fsMessages' = fsMessages
        PROVE  /\ m \in FsFrames
               /\ m \in Fs!Ids => m <= Len(fsMessages) /\ \A x \in 1..Len(fsMessages) : x < m + FsResendWindow
    <3>1. CASE m \in Fs!Sendable
      <4>1. m \in 1..Len(fsMessages) /\ m + FsResendWindow > Len(fsMessages)
        BY <1>2, <3>1 DEF Fs!Sendable
      <4>2. m \in Nat /\ m <= Len(fsMessages) /\ m \in 1..FsMaxMessages
        BY <1>2, <4>1
      <4>3. \A x \in 1..Len(fsMessages) : x < m + FsResendWindow
        BY <1>2, <4>1, <4>2
      <4> QED BY <4>2, <4>3 DEF FsFrames, Fs!Ids
    <3>2. CASE m = Fs!Control
      BY <3>2 DEF FsFrames
    <3> QED BY <3>1, <3>2
  <2> QED BY <1>2, <2>1, <2>2 DEF Fs!ServerSends
<1>4. Fs!TypeOK'
  <2>1. fsSending' \in FsFrames \X Fs!FrameLens \X Fs!FrameLens
    BY <1>3 DEF Fs!FrameLens
  <2> QED BY <1>1, <1>3, <2>1 DEF Fs!TypeOK, FsFrames
<1>5. FsFrameInv'
  <2>1. \E k \in FsFrames, l \in Fs!FrameLens, part \in Fs!FrameLens :
          /\ fsSending' = <<k, part, l>> /\ part <= l
          /\ part = 2 => rxBuf' \in {Fs!None, <<<<k, 1>>>>}
    <3>1. 1 \in Fs!FrameLens /\ 1 <= len /\ 1 # 2
      BY <1>3 DEF Fs!FrameLens
    <3> QED BY <1>3, <3>1
  <2> QED BY <1>1, <1>3, <2>1 DEF FsFrameInv
<1>6. FsQueueInv'
  BY <1>1 DEF FsQueueInv
<1>7. FsKnown' = FsKnown /\ FsKnown \subseteq 1..Len(fsMessages)
  BY <1>1 DEF FsKnown, FsRingInv
<1>8. FsRingInv'
  <2>1. 1..Len(fsMessages) \subseteq 1..Len(fsMessages')
    BY <1>2, <1>3
  <2> QED BY <1>1, <1>7, <2>1 DEF FsRingInv, Fs!TextsOnce
<1>9. FsWayInv'
  <2> SUFFICES ASSUME NEW k \in Fs!Ids
               PROVE /\ FsToHandle(k)' \/ FsOnItsWay(k)' =>
                          k <= Len(fsMessages') /\ \A x \in FsKnown : x < k + FsResendWindow
                     /\ FsOnItsWay(k)' => \A j \in Fs!Ids : FsToHandle(j)' => j < k + FsResendWindow
    BY <1>7 DEF FsWayInv
  <2>1. \A j : FsToHandle(j)' <=> FsToHandle(j)
    BY <1>1 DEF FsToHandle
  <2>2. FsOnItsWay(k)' => k = m
    BY <1>3 DEF FsOnItsWay
  <2>3. ASSUME NEW j \in Fs!Ids, FsToHandle(j)
        PROVE j \in Nat /\ j \in 1..Len(fsMessages) /\ j <= Len(fsMessages') /\ \A x \in FsKnown : x < j + FsResendWindow
    BY <1>2, <1>3, <2>3 DEF FsWayInv, Fs!Ids
  <2>4. CASE FsToHandle(k)
    BY <1>3, <1>7, <2>1, <2>2, <2>3, <2>4
  <2>5. CASE ~FsToHandle(k)
    BY <1>3, <1>7, <2>1, <2>2, <2>3, <2>5
  <2> QED BY <2>4, <2>5
<1> QED BY <1>1, <1>4, <1>5, <1>6, <1>8, <1>9 DEF Fs!AckedIsHandled

(* The last fragment of a frame completes it, if none before it was lost.   *)
LEMMA FsFragment == ASSUME Fs!FeishuAssumption, FsInv, Fs!Fragment PROVE FsInv'
<1> USE FsConstants DEF FsInv
<1>1. /\ fsSending # Fs!None /\ fsCall = Fs!None
      /\ UNCHANGED <<fsMessages, fsAcked, fsLink, fsWsTask, fsSeen, fsTexts, fsHandled, fsJobs,
                     fsDownloader, fsStopping, fsManager, resetsLeft>>
  BY DEF Fs!Fragment, Fs!outVars, Fs!serverVars
<1>2. PICK m \in FsFrames, len \in Fs!FrameLens, part \in Fs!FrameLens :
        /\ fsSending = <<m, part, len>> /\ part <= len
        /\ part = 2 => rxBuf \in {Fs!None, <<<<m, 1>>>>}
  BY <1>1 DEF FsFrameInv
<1>3. fsSending[1] = m /\ fsSending[2] = part /\ fsSending[3] = len
  BY <1>2
<1>4. PICK buf \in {Fs!None, Fs!Filled(part, <<m, part>>)} :
        IF part = len /\ buf # Fs!None
        THEN fsCall' = <<"complete", buf, len>> /\ rxBuf' = Fs!None
        ELSE rxBuf' = buf /\ UNCHANGED fsCall
  BY <1>3 DEF Fs!Fragment
<1>5. fsSending' = IF part = len THEN Fs!None ELSE <<m, part + 1, len>>
  <2>1. fsSending' = IF part = len THEN Fs!None ELSE [fsSending EXCEPT ![2] = @ + 1]
    BY <1>3 DEF Fs!Fragment
  <2>2. [<<m, part, len>> EXCEPT ![2] = @ + 1] = <<m, part + 1, len>>
    BY DEF Fs!FrameLens
  <2> QED BY <1>2, <2>1, <2>2
<1>6. /\ part = len => buf \in {Fs!None, FsWholeFrame(m, len)}
      /\ part # len => buf \in {Fs!None, <<<<m, 1>>>>} /\ part = 1 /\ len = 2
  <2>1. CASE part = 1
    <3>1. Fs!Filled(part, <<m, part>>) = <<<<m, 1>>>>
      BY <2>1 DEF Fs!Filled
    <3> QED BY <1>4, <2>1, <3>1, FsFrameFacts DEF Fs!FrameLens
  <2>2. CASE part = 2
    <3>1. Fs!Filled(part, <<m, part>>) \in {Fs!None, Append(<<<<m, 1>>>>, <<m, 2>>)}
      <4>1. CASE rxBuf = Fs!None
        BY <2>2, <4>1 DEF Fs!Filled
      <4>2. CASE rxBuf # Fs!None
        <5>1. rxBuf = <<<<m, 1>>>> /\ <<m, part>> = <<m, 2>> /\ part # 1
          BY <1>2, <2>2, <4>2
        <5> QED BY <4>2, <5>1 DEF Fs!Filled
      <4> QED BY <4>1, <4>2
    <3>2. len = 2
      BY <1>2, <2>2 DEF Fs!FrameLens
    <3> QED BY <1>4, <2>2, <3>1, <3>2, FsFrameFacts
  <2> QED BY <2>1, <2>2 DEF Fs!FrameLens
<1>7. \/ /\ fsCall' = <<"complete", FsWholeFrame(m, len), len>> /\ rxBuf' = Fs!None /\ fsSending' = Fs!None
      \/ /\ fsCall' = Fs!None /\ rxBuf' \in {Fs!None, <<<<m, 1>>>>}
         /\ fsSending' = Fs!None \/ (fsSending' = <<m, 2, len>> /\ len = 2)
  <2>1. CASE part = len
    BY <1>1, <1>4, <1>5, <1>6, <2>1
  <2>2. CASE part # len
    <3>1. part = 1 /\ part + 1 = 2 /\ len = 2
      BY <1>6, <2>2
    <3> QED BY <1>1, <1>4, <1>5, <1>6, <2>2, <3>1
  <2> QED BY <2>1, <2>2
<1> HIDE DEF Fs!Fragment
<1>8. Fs!TypeOK'
  <2>1. fsSending' = Fs!None \/ fsSending' \in FsFrames \X Fs!FrameLens \X Fs!FrameLens
    BY <1>7 DEF Fs!FrameLens
  <2>2. rxBuf' \in Seq(Fs!FragmentSet)
    <3>1. <<>> \in Seq(Fs!FragmentSet)
      OBVIOUS
    <3> QED BY <1>7, <3>1, FsFrameFacts DEF Fs!None
  <2>3. fsCall' = Fs!None \/ fsCall' \in {"complete", "handled"} \X Seq(Fs!FragmentSet) \X Fs!FrameLens
    <3>1. FsWholeFrame(m, len) \in Seq(Fs!FragmentSet)
      BY FsFrameFacts
    <3>2. <<"complete", FsWholeFrame(m, len), len>> \in {"complete", "handled"} \X Seq(Fs!FragmentSet) \X Fs!FrameLens
      BY <3>1
    <3> QED BY <1>7, <3>2
  <2> QED BY <1>1, <2>1, <2>2, <2>3 DEF Fs!TypeOK, FsFrames
<1>9. FsFrameInv'
  <2>1. fsSending' # Fs!None =>
          \E k \in FsFrames, l \in Fs!FrameLens, p \in Fs!FrameLens :
            /\ fsSending' = <<k, p, l>> /\ p <= l
            /\ p = 2 => rxBuf' \in {Fs!None, <<<<k, 1>>>>}
    <3> SUFFICES ASSUME fsSending' # Fs!None
                 PROVE \E k \in FsFrames, l \in Fs!FrameLens, p \in Fs!FrameLens :
                         /\ fsSending' = <<k, p, l>> /\ p <= l
                         /\ p = 2 => rxBuf' \in {Fs!None, <<<<k, 1>>>>}
      OBVIOUS
    <3>1. fsSending' = <<m, 2, len>> /\ len = 2 /\ rxBuf' \in {Fs!None, <<<<m, 1>>>>} /\ 2 \in Fs!FrameLens /\ 2 <= len
      BY <1>7 DEF Fs!FrameLens
    <3> QED BY <3>1
  <2>2. fsCall' # Fs!None =>
          \E k \in FsFrames, l \in Fs!FrameLens : fsCall' = <<"complete", FsWholeFrame(k, l), l>>
    BY <1>7
  <2> QED BY <1>1, <2>1, <2>2 DEF FsFrameInv
<1>10. FsQueueInv'
  BY <1>1, <1>7 DEF FsQueueInv
<1>11. FsRingInv' /\ FsKnown' = FsKnown
  BY <1>1 DEF FsRingInv, FsKnown, Fs!TextsOnce
<1>12. FsWayInv'
  <2>1. FsOnItsWay(m)
    BY <1>2 DEF FsOnItsWay
  <2>2. \A k \in Fs!Ids : FsOnItsWay(k)' => k = m /\ fsCall' = Fs!None
    BY <1>7 DEF FsOnItsWay, Fs!None
  <2>3. \A k \in Fs!Ids : FsToHandle(k)' => k = m
    <3> SUFFICES ASSUME NEW k \in Fs!Ids, FsToHandle(k)' PROVE k = m
      OBVIOUS
    <3>1. PICK l \in Fs!FrameLens : fsCall' = <<"complete", FsWholeFrame(k, l), l>>
      BY DEF FsToHandle
    <3>2. FsWholeFrame(k, l) = FsWholeFrame(m, len) /\ k \in FsFrames
      BY <1>7, <3>1 DEF Fs!None, FsFrames
    <3> QED BY <3>2, FsFrameFacts
  <2>4. \A k : ~(fsCall' = Fs!None /\ FsToHandle(k)')
    <3>1. \A a, b, c : <<a, b, c>> # Fs!None
      BY DEF Fs!None
    <3> QED BY <3>1 DEF FsToHandle
  <2> QED BY <1>1, <1>11, <2>1, <2>2, <2>3, <2>4 DEF FsWayInv
<1> QED BY <1>1, <1>8, <1>9, <1>10, <1>11, <1>12 DEF Fs!AckedIsHandled

(* A message handled for the first time has not been published before: all  *)
(* that the ring is full of would be close to it.                           *)
LEMMA FsFirstTime ==
  ASSUME Fs!FeishuAssumption, FsInv, NEW m \in Fs!Ids, FsToHandle(m), m \notin Fs!ToSet(fsSeen)
  PROVE  m \notin Fs!ToSet(fsTexts)
<1> SUFFICES ASSUME m \in Fs!ToSet(fsTexts) PROVE FALSE
  OBVIOUS
<1> USE FsConstants DEF FsInv
<1>1. fsSeen \in Seq(Nat)
  BY DEF Fs!TypeOK
<1>2. LeftBehind(m, fsSeen, FsSeenSize, FsResendWindow) /\ RingOrdered(fsSeen, FsResendWindow)
  BY DEF FsRingInv
<1>3. \A i \in DOMAIN fsSeen : fsSeen[i] \in Fs!ToSet(fsSeen)
  BY DEF Fs!ToSet
<1>4. \A x \in Fs!ToSet(fsSeen) : x < m + FsResendWindow
  BY DEF FsWayInv, FsKnown
<1>5. \A i \in DOMAIN fsSeen : fsSeen[i] # m /\ m < fsSeen[i] + FsResendWindow /\ fsSeen[i] < m + FsResendWindow
  BY <1>2, <1>3, <1>4 DEF LeftBehind
<1>6. Len(fsSeen) = FsSeenSize /\ \A i, j \in DOMAIN fsSeen : i < j => fsSeen[i] # fsSeen[j]
  BY <1>2 DEF LeftBehind, RingOrdered
<1>7. m \in Nat /\ FsResendWindow \in Nat \ {0} /\ FsSeenSize \in Nat \ {0} /\ 2 * FsResendWindow <= FsSeenSize + 1
  OBVIOUS
<1> QED BY <1>1, <1>5, <1>6, <1>7, FewAreNear

(* Recorded, it stays in the ring until it is much older than all in it.    *)
LEMMA FsRecords ==
  ASSUME Fs!FeishuAssumption, FsInv, NEW m \in Fs!Ids, FsToHandle(m), m \notin Fs!ToSet(fsSeen),
         fsSeen' = Fs!Recorded(m), fsTexts' \in {fsTexts, Append(fsTexts, m)}, fsMessages' = fsMessages
  PROVE  /\ fsSeen' \in Seq(Fs!Ids) /\ Len(fsSeen') <= FsSeenSize /\ fsTexts' \in Seq(Fs!Ids)
         /\ FsRingInv' /\ FsKnown' \subseteq FsKnown \cup {m}
<1> USE FsConstants DEF FsInv
<1>1. /\ fsSeen \in Seq(Fs!Ids) /\ fsSeen \in Seq(Nat) /\ Len(fsSeen) <= FsSeenSize /\ fsTexts \in Seq(Fs!Ids)
      /\ FsSeenSize \in Nat \ {0} /\ FsResendWindow \in Nat \ {0} /\ m \in Nat
      /\ RingOrdered(fsSeen, FsResendWindow)
  BY DEF Fs!TypeOK, FsRingInv
<1>2. fsSeen' \in Seq(Fs!Ids) /\ Len(fsSeen') <= FsSeenSize
  BY <1>1, RingKeeps DEF Fs!Recorded
<1>3. \A x \in FsKnown : x < m + FsResendWindow
  BY DEF FsWayInv
<1>4. /\ RingOrdered(fsSeen', FsResendWindow) /\ m \in Fs!ToSet(fsSeen')
      /\ Fs!ToSet(fsSeen') \subseteq Fs!ToSet(fsSeen) \cup {m}
      /\ \A x \in Fs!ToSet(fsSeen) \ Fs!ToSet(fsSeen') : LeftBehind(x, fsSeen', FsSeenSize, FsResendWindow)
      /\ \A x \in Nat : LeftBehind(x, fsSeen, FsSeenSize, FsResendWindow) /\ x < m + FsResendWindow
                          => LeftBehind(x, fsSeen', FsSeenSize, FsResendWindow)
  <2>1. \A x \in Fs!ToSet(fsSeen) : x < m + FsResendWindow
    BY <1>3 DEF FsKnown
  <2> HIDE DEF FsInv
  <2> QED BY <1>1, <2>1, FsRingMoves DEF Fs!Recorded
<1>5. m \notin Fs!ToSet(fsTexts)
  BY FsFirstTime
<1>6. fsTexts' \in Seq(Fs!Ids) /\ Fs!ToSet(fsTexts') \subseteq Fs!ToSet(fsTexts) \cup {m} /\ Fs!TextsOnce'
  <2>1. \A i, j \in DOMAIN fsTexts : i # j => fsTexts[i] # fsTexts[j]
    BY DEF FsRingInv, Fs!TextsOnce
  <2>2. CASE fsTexts' = fsTexts
    BY <1>1, <2>1, <2>2 DEF Fs!TextsOnce
  <2>3. CASE fsTexts' = Append(fsTexts, m)
    <3>1. PICK S : S = Fs!Ids
      OBVIOUS
    <3>2. fsTexts \in Seq(S) /\ m \in S
      BY <1>1, <3>1
    <3>3. /\ Append(fsTexts, m) \in Seq(S) /\ Fs!ToSet(Append(fsTexts, m)) = Fs!ToSet(fsTexts) \cup {m}
          /\ \A i, j \in DOMAIN Append(fsTexts, m) : i # j => Append(fsTexts, m)[i] # Append(fsTexts, m)[j]
      BY ONLY <1>5, <2>1, <3>2, FsAppendedElements
    <3> QED BY <2>3, <3>1, <3>3 DEF Fs!TextsOnce
  <2> QED BY <2>2, <2>3
<1>7. FsKnown' \subseteq FsKnown \cup {m}
  BY <1>4, <1>6 DEF FsKnown
<1>8. FsKnown' \subseteq 1..Len(fsMessages')
  <2>1. m \in 1..Len(fsMessages)
    <3>1. m \in Nat \ {0} /\ m <= Len(fsMessages) /\ Len(fsMessages) \in Nat
      <4>1. m \in Nat \ {0}
        BY DEF Fs!Ids
      <4>2. Len(fsMessages) \in Nat
        BY DEF Fs!TypeOK
      <4> QED BY <4>1, <4>2 DEF FsWayInv
    <3> QED BY <3>1
  <2> QED BY <1>7, <2>1 DEF FsRingInv
<1>9. ASSUME NEW x \in Fs!ToSet(fsTexts') \ Fs!ToSet(fsSeen')
      PROVE LeftBehind(x, fsSeen', FsSeenSize, FsResendWindow)
  <2>1. x \in Fs!ToSet(fsTexts) /\ x \in FsKnown
    BY <1>4, <1>6, <1>9 DEF FsKnown
  <2>2. x \in Nat /\ x < m + FsResendWindow
    BY <1>3, <2>1 DEF FsRingInv
  <2>3. CASE x \in Fs!ToSet(fsSeen)
    BY <1>4, <1>9, <2>3
  <2>4. CASE x \notin Fs!ToSet(fsSeen)
    BY <1>4, <2>1, <2>2, <2>4 DEF FsRingInv
  <2> QED BY <2>3, <2>4
<1> QED BY <1>2, <1>4, <1>6, <1>7, <1>8, <1>9 DEF FsRingInv

LEMMA FsQueues ==
  ASSUME FsInv, NEW m \in Fs!Ids, Fs!QueueAttachment(m) \/ UNCHANGED fsJobs
  PROVE  fsJobs' \in Seq(Fs!Ids) \cup {Fs!NoQueue} /\ (fsJobs # Fs!NoQueue => fsJobs' # Fs!NoQueue)
<1>1. fsJobs \in Seq(Fs!Ids) \cup {Fs!NoQueue}
  BY DEF FsInv, Fs!TypeOK
<1>2. CASE fsJobs' = fsJobs
  BY <1>1, <1>2
<1>3. CASE fsJobs # Fs!NoQueue /\ fsJobs' = Append(fsJobs, m)
  <2>1. fsJobs' \in Seq(Fs!Ids)
    BY <1>1, <1>3
  <2> QED BY <2>1, FsNoJobIsZero
<1> QED BY <1>2, <1>3 DEF Fs!QueueAttachment

LEMMA FsHandle == ASSUME Fs!FeishuAssumption, FsInv, Fs!HandleFrame PROVE FsInv'
<1> USE FsConstants DEF FsInv
<1>1. /\ fsCall # Fs!None /\ fsCall[1] = "complete" /\ Fs!Called(fsCall[2]) # Fs!Control
      /\ Fs!HandleMessage(Fs!Called(fsCall[2])) /\ fsHandled' = fsHandled \cup {Fs!Called(fsCall[2])}
      /\ fsCall' = [fsCall EXCEPT ![1] = "handled"]
      /\ UNCHANGED <<fsMessages, fsAcked, fsSending, fsLink, fsWsTask, rxBuf, fsDownloader, fsStopping,
                     fsManager, resetsLeft>>
  BY DEF Fs!HandleFrame, Fs!linkVars, Fs!serverVars
<1>2. PICK m \in FsFrames, len \in Fs!FrameLens : fsCall = <<"complete", FsWholeFrame(m, len), len>>
  <2>1. \A a, b, c : <<a, b, c>>[1] = a
    OBVIOUS
  <2> QED BY <1>1, <2>1 DEF FsFrameInv
<1>3. m \in Fs!Ids /\ Fs!Called(fsCall[2]) = m
  <2>1. fsCall[2] = FsWholeFrame(m, len)
    BY <1>2
  <2> QED BY <1>1, <2>1, FsFrameFacts DEF FsFrames
<1>4. fsCall' = <<"handled", FsWholeFrame(m, len), len>>
  <2>1. \A b, c : [<<"complete", b, c>> EXCEPT ![1] = "handled"] = <<"handled", b, c>>
    OBVIOUS
  <2> QED BY <1>1, <1>2, <2>1
<1>5. FsToHandle(m)
  BY <1>2 DEF FsToHandle
<1>6. /\ fsSeen' \in Seq(Fs!Ids) /\ Len(fsSeen') <= FsSeenSize /\ fsTexts' \in Seq(Fs!Ids)
      /\ FsRingInv' /\ FsKnown' \subseteq FsKnown \cup {m}
  <2>1. CASE m \in Fs!ToSet(fsSeen)
    <3>1. UNCHANGED <<fsSeen, fsTexts>>
      BY <1>1, <1>3, <2>1 DEF Fs!HandleMessage
    <3> QED BY <1>1, <3>1 DEF Fs!TypeOK, FsRingInv, FsKnown, Fs!TextsOnce
  <2>2. CASE m \notin Fs!ToSet(fsSeen)
    <3>1. fsSeen' = Fs!Recorded(m) /\ fsTexts' \in {fsTexts, Append(fsTexts, m)}
      BY <1>1, <1>3, <2>2 DEF Fs!HandleMessage
    <3> QED BY <1>1, <1>3, <1>5, <2>2, <3>1, FsRecords
  <2> QED BY <2>1, <2>2
<1>7. fsJobs' \in Seq(Fs!Ids) \cup {Fs!NoQueue} /\ (fsJobs # Fs!NoQueue => fsJobs' # Fs!NoQueue)
  <2>1. Fs!QueueAttachment(m) \/ UNCHANGED fsJobs
    BY <1>1, <1>3 DEF Fs!HandleMessage
  <2> QED BY <1>3, <2>1, FsQueues
<1>8. Fs!TypeOK'
  <2>1. fsCall' \in {"complete", "handled"} \X Seq(Fs!FragmentSet) \X Fs!FrameLens
    <3>1. FsWholeFrame(m, len) \in Seq(Fs!FragmentSet)
      BY FsFrameFacts
    <3> QED BY <1>4, <3>1
  <2> QED BY <1>1, <1>3, <1>6, <1>7, <2>1 DEF Fs!TypeOK
<1>9. FsFrameInv' /\ Fs!AckedIsHandled'
  <2>1. m \in fsHandled' /\ fsHandled \subseteq fsHandled'
    BY <1>1, <1>3
  <2> QED BY <1>1, <1>4, <2>1 DEF FsFrameInv, Fs!AckedIsHandled
<1>10. FsQueueInv'
  BY <1>1, <1>7 DEF FsQueueInv
<1>11. FsWayInv'
  <2>1. \A k \in Fs!Ids : FsOnItsWay(k)' <=> FsOnItsWay(k)
    BY <1>1 DEF FsOnItsWay
  <2>2. \A k \in Fs!Ids : ~FsToHandle(k)'
    <3>1. \A a, b, c, d : <<"handled", a, b>> # <<"complete", c, d>>
      OBVIOUS
    <3> QED BY <1>4, <3>1 DEF FsToHandle
  <2> QED BY <1>1, <1>3, <1>5, <1>6, <2>1, <2>2 DEF FsWayInv
<1> QED BY <1>6, <1>8, <1>9, <1>10, <1>11

(* What takes a frame away, or breaks the link, brings nothing new.         *)
FsLess ==
  /\ fsSending' = fsSending \/ fsSending' = Fs!None
  /\ fsCall' = fsCall \/ fsCall' = Fs!None
  /\ rxBuf' = rxBuf \/ rxBuf' = Fs!None
  /\ \/ fsSeen' = fsSeen /\ fsTexts' = fsTexts
     \/ fsSeen' = <<>> /\ fsTexts' = <<>>
  /\ fsMessages' = fsMessages /\ fsHandled' = fsHandled
  /\ fsLink' \in BOOLEAN /\ fsWsTask' \in {"none", "config", "serve"} /\ fsStopping' \in BOOLEAN
  /\ fsJobs' \in Seq(Fs!Ids) \cup {Fs!NoQueue} /\ fsAcked' \subseteq Fs!Ids
  /\ fsDownloader' \in {"none", "waiting", "downloading", "saved", "failed"}
  /\ fsManager' \in {"none", "starting", "closing", "waiting"} /\ resetsLeft' \in 0..FsMaxResets

LEMMA FsLessKeeps ==
  ASSUME Fs!FeishuAssumption, FsInv, FsQueueInv', Fs!AckedIsHandled', FsLess
  PROVE  FsInv'
<1> USE FsConstants DEF FsInv, FsLess
<1>1. /\ <<>> \in Seq(Fs!Ids) /\ <<>> \in Seq(Fs!FragmentSet) /\ Len(<<>>) = 0 /\ Fs!ToSet(<<>>) = {}
      /\ 0 <= FsSeenSize
  BY DEF Fs!ToSet
<1>2. Fs!TypeOK'
  <2>1. {fsLink', fsStopping'} \subseteq BOOLEAN
    BY Zenon
  <2>2. rxBuf' \in Seq(Fs!FragmentSet)
    BY <1>1 DEF Fs!TypeOK, Fs!None
  <2> QED BY <1>1, <2>1, <2>2 DEF Fs!TypeOK
<1>3. FsFrameInv'
  BY DEF FsFrameInv
<1>4. FsRingInv' /\ FsKnown' \subseteq FsKnown
  <2>1. CASE fsSeen' = fsSeen /\ fsTexts' = fsTexts
    BY <2>1 DEF FsRingInv, FsKnown, Fs!TextsOnce
  <2>2. CASE fsSeen' = <<>> /\ fsTexts' = <<>>
    BY <1>1, <2>2 DEF FsRingInv, FsKnown, Fs!TextsOnce, RingOrdered
  <2> QED BY <2>1, <2>2
<1>5. FsWayInv'
  <2>1. \A k \in Fs!Ids : (FsOnItsWay(k)' => FsOnItsWay(k)) /\ (FsToHandle(k)' => FsToHandle(k))
    <3>1. \A a, b, c : <<a, b, c>> # Fs!None
      BY DEF Fs!None
    <3> QED BY <3>1 DEF FsOnItsWay, FsToHandle
  <2> QED BY <1>4, <2>1 DEF FsWayInv
<1> QED BY <1>2, <1>3, <1>4, <1>5

LEMMA FsTaken == ASSUME NEW S, NEW q \in Seq(S), q # <<>> PROVE Tail(q) \in Seq(S)
  BY HeadTailProperties

LEMMA FsStep == ASSUME Fs!FeishuAssumption, FsInv, [Fs!Next]_(Fs!fsVars) PROVE FsInv'
<1>1. CASE Fs!ServerSends \/ Fs!Fragment \/ Fs!HandleFrame
  BY <1>1, FsSends, FsFragment, FsHandle
<1> USE DEF Fs!serverVars, Fs!linkVars, Fs!outVars
<1>2. Fs!TypeOK /\ FsQueueInv /\ Fs!AckedIsHandled /\ fsAcked \subseteq Fs!Ids /\ resetsLeft \in 0..FsMaxResets
      /\ fsJobs \in Seq(Fs!Ids) \cup {Fs!NoQueue} /\ fsLink \in BOOLEAN /\ fsStopping \in BOOLEAN
      /\ fsWsTask \in {"none", "config", "serve"}
      /\ fsDownloader \in {"none", "waiting", "downloading", "saved", "failed"}
      /\ fsManager \in {"none", "starting", "closing", "waiting"}
  BY DEF FsInv, Fs!TypeOK
<1> FsMaxResets \in Nat
  BY FsConstants
<1>3. CASE Fs!AckFrame
  <2>1. PICK m \in FsFrames, len \in Fs!FrameLens : fsCall = <<"handled", FsWholeFrame(m, len), len>> /\ m \in fsHandled
    <3>1. \A a, b, c : <<a, b, c>>[1] = a
      OBVIOUS
    <3> QED BY <1>3, <3>1 DEF FsInv, FsFrameInv, Fs!AckFrame
  <2>2. Fs!Called(fsCall[2]) = m /\ fsHandled \subseteq Fs!Ids
    <3>1. fsCall[2] = FsWholeFrame(m, len)
      BY <2>1
    <3> QED BY <3>1, FsFrameFacts DEF FsInv, Fs!TypeOK
  <2>3. fsAcked' \subseteq Fs!Ids /\ Fs!AckedIsHandled'
    BY <1>2, <1>3, <2>1, <2>2 DEF Fs!AckFrame, Fs!AckedIsHandled
  <2>4. FsQueueInv'
    BY <1>2, <1>3 DEF FsQueueInv, Fs!AckFrame
  <2>5. FsLess
    BY <1>2, <1>3, <2>3, <2>4 DEF FsLess, Fs!AckFrame
  <2> QED BY <2>3, <2>4, <2>5, FsLessKeeps
<1>4. CASE Fs!DropFrame \/ Fs!Connected \/ Fs!Disconnected \/ Fs!WsStartsClient \/ Fs!WsDestroysClient \/ Fs!WsTaskEnds
  <2>1. FsQueueInv' /\ Fs!AckedIsHandled'
    BY <1>2, <1>4 DEF FsQueueInv, Fs!AckedIsHandled, Fs!DropFrame, Fs!Connected, Fs!Disconnected, Fs!WsStartsClient,
                      Fs!WsDestroysClient, Fs!WsTaskEnds
  <2>2. FsLess
    BY <1>2, <1>4, <2>1 DEF FsLess, Fs!DropFrame, Fs!Connected, Fs!Disconnected, Fs!WsStartsClient, Fs!WsDestroysClient, Fs!WsTaskEnds
  <2> QED BY <2>1, <2>2, FsLessKeeps
<1>5. CASE Fs!TakeJob
  <2>1. fsJobs' \in Seq(Fs!Ids)
    BY <1>2, <1>5, FsTaken DEF Fs!TakeJob
  <2>2. FsQueueInv' /\ Fs!AckedIsHandled'
    BY <1>2, <1>5, <2>1, FsNoJobIsZero DEF FsQueueInv, Fs!AckedIsHandled, Fs!TakeJob
  <2>3. FsLess
    BY <1>2, <1>5, <2>1, <2>2 DEF FsLess, Fs!TakeJob
  <2> QED BY <2>1, <2>2, <2>3, FsLessKeeps
<1>6. CASE Fs!DownloadAttachment \/ Fs!SaveMetadata \/ Fs!PublishAttachment \/ Fs!AttachmentTaskEnds
  <2>1. FsQueueInv' /\ Fs!AckedIsHandled'
    BY <1>2, <1>6 DEF FsQueueInv, Fs!AckedIsHandled, Fs!DownloadAttachment, Fs!SaveMetadata, Fs!PublishAttachment,
                      Fs!AttachmentTaskEnds
  <2>2. FsLess
    BY <1>2, <1>6, <2>1 DEF FsLess, Fs!DownloadAttachment, Fs!SaveMetadata, Fs!PublishAttachment, Fs!AttachmentTaskEnds
  <2> QED BY <2>1, <2>2, FsLessKeeps
<1>7. CASE Fs!StartBegins \/ Fs!StartEnds
  <2>1. <<>> \in Seq(Fs!Ids) /\ <<>> # Fs!NoQueue
    <3>1. <<>> \in Seq(Fs!Ids)
      OBVIOUS
    <3> QED BY <3>1, FsNoJobIsZero
  <2>2. FsQueueInv' /\ Fs!AckedIsHandled'
    BY <1>2, <1>7, <2>1 DEF FsQueueInv, Fs!AckedIsHandled, Fs!StartBegins, Fs!StartEnds
  <2>3. FsLess
    BY <1>2, <1>7, <2>1, <2>2 DEF FsLess, Fs!StartBegins, Fs!StartEnds
  <2> QED BY <2>1, <2>2, <2>3, FsLessKeeps
<1>8. CASE Fs!StopBegins \/ Fs!StopClosesClient \/ Fs!StopTimesOut \/ Fs!StopDeletesQueue
  <2>1. FsQueueInv' /\ Fs!AckedIsHandled'
    BY <1>2, <1>8 DEF FsQueueInv, Fs!AckedIsHandled, Fs!StopBegins, Fs!StopClosesClient, Fs!StopTimesOut, Fs!StopDeletesQueue
  <2>2. FsLess
    BY <1>2, <1>8, <2>1 DEF FsLess, Fs!StopBegins, Fs!StopClosesClient, Fs!StopTimesOut, Fs!StopDeletesQueue
  <2> QED BY <2>1, <2>2, FsLessKeeps
<1>9. CASE Fs!DeviceResets
  <2>1. FsQueueInv' /\ Fs!AckedIsHandled'
    BY <1>2, <1>9 DEF FsQueueInv, Fs!AckedIsHandled, Fs!DeviceResets
  <2>2. resetsLeft' \in 0..FsMaxResets
    BY <1>2, <1>9 DEF Fs!DeviceResets
  <2>3. FsLess
    BY <1>2, <1>9, <2>1, <2>2 DEF FsLess, Fs!DeviceResets
  <2> QED BY <2>1, <2>2, <2>3, FsLessKeeps
<1>10. CASE UNCHANGED Fs!fsVars
  <2>1. FsQueueInv' /\ Fs!AckedIsHandled'
    BY <1>2, <1>10 DEF FsQueueInv, Fs!AckedIsHandled, Fs!fsVars
  <2>2. FsLess
    BY <1>2, <1>10, <2>1 DEF FsLess, Fs!fsVars
  <2> QED BY <2>1, <2>2, FsLessKeeps
<1> QED BY <1>1, <1>3, <1>4, <1>5, <1>6, <1>7, <1>8, <1>9, <1>10 DEF Fs!Next

LEMMA FsSound ==
  ASSUME Fs!FeishuAssumption, FsInv
  PROVE  Fs!TypeOK /\ Fs!FramesWhole /\ Fs!AckedIsHandled /\ Fs!TextsOnce /\ Fs!QueueOutlivesTasks
<1>1. Fs!FramesWhole
  <2> SUFFICES ASSUME fsCall # Fs!None
               PROVE \E m \in Fs!Ids \cup {Fs!Control} : fsCall[2] = [i \in 1..fsCall[3] |-> <<m, i>>]
    BY DEF Fs!FramesWhole
  <2>1. PICK m \in FsFrames, len \in Fs!FrameLens : fsCall[2] = FsWholeFrame(m, len) /\ fsCall[3] = len
    BY DEF FsInv, FsFrameInv
  <2> QED BY <2>1 DEF FsFrames, FsWholeFrame
<1> QED BY <1>1 DEF FsInv, FsRingInv, FsQueueInv, Fs!QueueOutlivesTasks

-----------------------------------------------------------------------------
(***************************************************************************)
(* Receiving on Telegram.                                                  *)
(***************************************************************************)

(* The same lemmas on the operators as the platforms' modules have them.    *)
LEMMA TgFiniteSets == \A S : (Tg!IsFiniteSet(S) <=> IsFiniteSet(S)) /\ Tg!Cardinality(S) = Cardinality(S)
  BY DEF Tg!IsFiniteSet, IsFiniteSet, Tg!Cardinality, Cardinality

LEMMA TgLargerOne == ASSUME NEW a \in Nat, NEW b \in Nat
                     PROVE Tg!Max({a, b}) = IF a >= b THEN a ELSE b
  BY LargerOne DEF Tg!Max, Max

TgPositive == Nat \ {0}

(* The types the proofs need; how many updates there are does not matter.  *)
TgTypes ==
  /\ updates \in [Bots -> Seq(Tg!UpdateKinds)]
  /\ forgotten \in [Bots -> Nat] /\ handledUpdates \in [Bots -> SUBSET Nat]
  /\ botToken \in Bots \cup {NoBot} /\ polled \in Bots \cup {NoBot}
  /\ nextUpdateId \in Nat /\ textsOut \in Seq(Nat) /\ polledBatch \in Seq(TgPositive)
  /\ pollTask \in {"none", "idle", "polling", "handling"}
  /\ tokenMixed \in BOOLEAN

(* A poll is for a bot, and a batch holds consecutive updates of it, the    *)
(* first of them the next one the device looks at.                          *)
TgBatchInv ==
  /\ pollTask # "none" => botToken # NoBot
  /\ pollTask \in {"polling", "handling"} => polled \in Bots
  /\ pollTask = "handling" <=> polledBatch # <<>>
  /\ \A i \in DOMAIN polledBatch : polledBatch[i] = Head(polledBatch) + i - 1

(* Everything below the offset has been looked at, and so has what comes    *)
(* before the batch in hand.                                                *)
TgOffsetInv ==
  ~tokenMixed =>
    /\ \A b \in Bots : 1..forgotten[b] \subseteq handledUpdates[b]
    /\ nextUpdateId > 0 => 1..(nextUpdateId - 1) \subseteq handledUpdates[botToken]
    /\ nextUpdateId > 0 => botToken # NoBot
    /\ pollTask \in {"polling", "handling"} => polled = botToken
    /\ pollTask = "polling" => nextUpdateId <= forgotten[polled] + 1
    /\ pollTask = "handling" =>
         /\ nextUpdateId <= Head(polledBatch)
         /\ 1..(Head(polledBatch) - 1) \subseteq handledUpdates[polled]

TgTextsInv ==
  ~tokenMixed =>
    /\ \A i \in DOMAIN textsOut : textsOut[i] < nextUpdateId
    /\ \A i, j \in DOMAIN textsOut : i < j => textsOut[i] < textsOut[j]

TgPollInv == TgTypes /\ TgBatchInv /\ TgOffsetInv /\ TgTextsInv

TgPollVars == <<updates, forgotten, botToken, nextUpdateId, textsOut, pollTask, polled,
              polledBatch, handledUpdates, tokenMixed>>

(* The actions that are not about polling.                                  *)
LEMMA TgPollStutters == ASSUME TgPollInv, UNCHANGED TgPollVars PROVE TgPollInv'
  BY DEF TgPollVars, TgPollInv, TgTypes, TgBatchInv, TgOffsetInv, TgTextsInv

LEMMA TgArriveStep == ASSUME TgPollInv, NEW b \in Bots, Tg!Arrive(b) PROVE TgPollInv'
<1> USE DEF TgPollInv, Tg!Arrive, Tg!serverVars, Tg!offsetVars, Tg!jobVars
<1>1. PICK kind \in Tg!UpdateKinds : updates' = [updates EXCEPT ![b] = Append(@, kind)]
  BY Zenon
<1>2. updates' \in [Bots -> Seq(Tg!UpdateKinds)]
  <2>. HIDE DEF Tg!Arrive
  <2>. QED BY <1>1 DEF TgTypes
<1> QED BY <1>2 DEF TgTypes, TgBatchInv, TgOffsetInv, TgTextsInv

(* The poll confirms what is below the offset, all of it looked at.         *)
LEMMA TgPollStep == ASSUME Tg!TelegramAssumption, TgPollInv, Tg!Poll PROVE TgPollInv'
<1> USE DEF TgPollInv, Tg!Poll, Tg!serverVars, Tg!offsetVars, Tg!jobVars
<1> DEFINE upTo == IF nextUpdateId > 0 THEN Tg!Max({forgotten[botToken], nextUpdateId - 1})
                   ELSE forgotten[botToken]
<1>1. botToken \in Bots /\ forgotten[botToken] \in Nat /\ nextUpdateId \in Nat
  BY DEF TgTypes, TgBatchInv
<1>2. /\ upTo \in Nat /\ upTo >= nextUpdateId - 1
      /\ upTo = forgotten[botToken] \/ (nextUpdateId > 0 /\ upTo = nextUpdateId - 1)
  <2>1. nextUpdateId > 0 => nextUpdateId - 1 \in Nat
    BY <1>1
  <2> QED BY <1>1, <2>1, TgLargerOne
<1> HIDE DEF upTo
<1>3. forgotten' = [forgotten EXCEPT ![botToken] = upTo]
  BY DEF upTo, TgTypes
<1>4. TgTypes'
  BY <1>1, <1>2, <1>3 DEF TgTypes
<1>5. TgBatchInv'
  BY <1>1 DEF TgBatchInv
<1>6. TgOffsetInv'
  <2> SUFFICES ASSUME ~tokenMixed PROVE TgOffsetInv'
    BY DEF TgOffsetInv
  <2>1. \A b \in Bots : 1..forgotten'[b] \subseteq handledUpdates[b]
    BY <1>1, <1>2, <1>3 DEF TgOffsetInv, TgTypes
  <2> QED BY <1>1, <1>2, <1>3, <2>1 DEF TgOffsetInv, TgTypes
<1>7. TgTextsInv'
  BY DEF TgTextsInv
<1> QED BY <1>4, <1>5, <1>6, <1>7

(* The answer holds what the server has not forgotten, or a part of it.     *)
LEMMA TgAnswerStep == ASSUME TgPollInv, Tg!Answer PROVE TgPollInv'
<1> USE DEF TgPollInv, Tg!Answer, Tg!serverVars, Tg!offsetVars, Tg!jobVars
<1>1. polled \in Bots /\ forgotten[polled] \in Nat /\ Len(updates[polled]) \in Nat
  BY DEF TgTypes, TgBatchInv
<1>2. PICK n \in forgotten[polled]..Len(updates[polled]) :
        polledBatch' = [i \in 1..(n - forgotten[polled]) |-> forgotten[polled] + i]
  OBVIOUS
<1> DEFINE f == forgotten[polled]
           k == n - f
<1>3. f \in Nat /\ k \in Nat
  BY <1>1, <1>2
<1>4. polledBatch' = [i \in 1..k |-> f + i] /\ f = forgotten[polled]
  BY <1>2
<1> HIDE DEF f, k
<1>5. /\ polledBatch' \in Seq(TgPositive) /\ DOMAIN polledBatch' = 1..k
      /\ polledBatch' # <<>> <=> k > 0
      /\ \A i \in 1..k : polledBatch'[i] = f + i
      /\ k > 0 => Head(polledBatch') = f + 1
  <2>1. \A i \in 1..k : f + i \in TgPositive
    BY <1>3 DEF TgPositive
  <2>2. polledBatch' \in Seq(TgPositive)
    <3>1. polledBatch' \in [1..k -> TgPositive]
      BY <1>4, <2>1
    <3>2. Seq(TgPositive) = UNION {[1..m -> TgPositive] : m \in Nat}
      BY SeqDef, Zenon
    <3> QED BY <1>3, <3>1, <3>2, Zenon
  <2>3. Len(polledBatch') = k
    BY <1>3, <1>4
  <2> QED BY <1>3, <1>4, <2>2, <2>3
<1>6. TgTypes'
  BY <1>5 DEF TgTypes
<1>7. TgBatchInv'
  <2>1. ASSUME NEW i \in DOMAIN polledBatch' PROVE polledBatch'[i] = Head(polledBatch') + i - 1
    <3>1. i \in 1..k /\ k > 0
      <4>1. i \in 1..k
        BY <1>5, <2>1
      <4> QED BY <1>3, <4>1
    <3>2. polledBatch'[i] = f + i /\ Head(polledBatch') = f + 1
      BY <1>5, <3>1
    <3> QED BY <1>3, <3>1, <3>2
  <2> QED BY <1>1, <1>3, <1>5, <2>1 DEF TgBatchInv
<1>8. TgOffsetInv'
  BY <1>1, <1>3, <1>4, <1>5 DEF TgOffsetInv, TgTypes
<1>9. TgTextsInv'
  BY DEF TgTextsInv
<1> QED BY <1>6, <1>7, <1>8, <1>9

(* An update raises the offset to the place behind it, or leaves it.        *)
LEMMA TgHandleStep == ASSUME TgPollInv, Tg!HandleUpdate PROVE TgPollInv'
<1> USE DEF TgPollInv, Tg!HandleUpdate, Tg!serverVars
<1> DEFINE id == Head(polledBatch)
           new == updates[polled][id] # "other" /\ id \notin Tg!ToSet(seenUpdates)
<1>1. /\ polledBatch \in Seq(TgPositive) /\ polledBatch # <<>> /\ polled \in Bots
      /\ id \in TgPositive /\ id \in Nat /\ nextUpdateId \in Nat
  BY DEF TgTypes, TgBatchInv, TgPositive
<1> DEFINE rest == Tail(polledBatch)
<1>2. /\ rest \in Seq(TgPositive)
      /\ \A i \in DOMAIN rest : i \in Nat /\ rest[i] = id + i /\ Head(rest) = id + 1
      /\ rest # <<>> => Head(rest) = id + 1
  <2>1. \A i \in DOMAIN rest :
          i \in Nat /\ i + 1 \in DOMAIN polledBatch /\ rest[i] = polledBatch[i + 1]
    BY <1>1
  <2>2. \A i \in DOMAIN rest : i \in Nat /\ rest[i] = id + i
    BY <1>1, <2>1 DEF TgBatchInv
  <2>3. rest \in Seq(TgPositive)
    BY <1>1
  <2> HIDE DEF rest, id
  <2>4. /\ rest # <<>> => 1 \in DOMAIN rest /\ Head(rest) = rest[1]
        /\ \A i \in DOMAIN rest : rest # <<>>
    BY <2>3
  <2> QED BY <2>2, <2>3, <2>4
<1>3. /\ nextUpdateId' \in Nat
      /\ nextUpdateId' = nextUpdateId \/ (nextUpdateId' = id + 1 /\ nextUpdateId <= id)
      /\ new /\ nextUpdateId <= id => nextUpdateId' = id + 1
  BY <1>1 DEF Tg!NextUpdateId
<1>4. textsOut' = textsOut \/ (new /\ textsOut' = Append(textsOut, id))
  OBVIOUS
<1>5. /\ polledBatch' = rest /\ UNCHANGED <<updates, forgotten, botToken, polled, tokenMixed>>
      /\ handledUpdates' = [handledUpdates EXCEPT ![polled] = @ \cup {id}]
      /\ pollTask = "handling"
      /\ pollTask' = IF polledBatch' = <<>> THEN "idle" ELSE "handling"
  OBVIOUS
<1> HIDE DEF id, new, rest, Tg!HandleUpdate
<1>6. TgTypes'
  <2>1. textsOut' \in Seq(Nat)
    <3>1. textsOut \in Seq(Nat)
      BY DEF TgTypes
    <3>2. Append(textsOut, id) \in Seq(Nat)
      BY <1>1, <3>1, AppendProperties
    <3> QED BY <1>4, <3>1, <3>2
  <2>2. handledUpdates' \in [Bots -> SUBSET Nat]
    BY <1>1, <1>5 DEF TgTypes
  <2> QED BY <1>2, <1>3, <1>5, <2>1, <2>2 DEF TgTypes
<1>7. TgBatchInv'
  <2>1. \A i \in DOMAIN rest : rest[i] = Head(rest) + i - 1
    BY <1>1, <1>2
  <2> QED BY <1>1, <1>5, <2>1 DEF TgBatchInv
<1>8. TgOffsetInv'
  <2> SUFFICES ASSUME ~tokenMixed PROVE TgOffsetInv'
    BY <1>5 DEF TgOffsetInv
  <2>1. \A b \in Bots : handledUpdates[b] \subseteq handledUpdates'[b]
    BY <1>5 DEF TgTypes
  <2>2. /\ nextUpdateId <= id /\ 1..(id - 1) \subseteq handledUpdates[polled]
        /\ polled = botToken
    BY <1>5, <1>1 DEF TgOffsetInv, id
  <2>3. 1..id \subseteq handledUpdates'[polled]
    <3>1. id \in handledUpdates'[polled]
      BY <1>1, <1>5 DEF TgTypes
    <3> QED BY <1>1, <2>1, <2>2, <3>1
  <2>4. nextUpdateId' > 0 => 1..(nextUpdateId' - 1) \subseteq handledUpdates'[botToken']
    <3>1. nextUpdateId' <= id + 1
      BY <1>1, <1>3, <2>2
    <3>2. 1..(nextUpdateId' - 1) \subseteq 1..id
      <4>1. id \in Nat /\ nextUpdateId' \in Nat
        BY <1>1, <1>3
      <4> QED BY <3>1, <4>1, RangesGrow
    <3> QED BY <1>5, <2>2, <2>3, <3>2
  <2>5. \A b \in Bots : 1..forgotten'[b] \subseteq handledUpdates'[b]
    BY <1>5, <2>1 DEF TgOffsetInv
  <2>6. pollTask' = "handling" =>
          nextUpdateId' <= Head(polledBatch') /\ 1..(Head(polledBatch') - 1) \subseteq handledUpdates'[polled']
    BY <1>1, <1>2, <1>3, <1>5, <2>2, <2>3
  <2> QED BY <1>1, <1>5, <2>2, <2>4, <2>5, <2>6 DEF TgOffsetInv, TgBatchInv, TgTypes
<1>9. TgTextsInv'
  <2> SUFFICES ASSUME ~tokenMixed PROVE TgTextsInv'
    BY <1>5 DEF TgTextsInv
  <2>1. nextUpdateId <= id /\ textsOut \in Seq(Nat)
    BY <1>5 DEF TgOffsetInv, id, TgTypes
  <2>2. CASE textsOut' = textsOut
    BY <1>1, <1>3, <2>1, <2>2 DEF TgTextsInv
  <2>3. CASE new /\ textsOut' = Append(textsOut, id)
    <3>1. nextUpdateId' = id + 1
      BY <1>3, <2>1, <2>3
    <3>2. DOMAIN textsOut' = 1..(Len(textsOut) + 1) /\ DOMAIN textsOut = 1..Len(textsOut)
      BY <1>1, <2>1, <2>3
    <3>3. \A i \in DOMAIN textsOut : textsOut'[i] = textsOut[i] /\ textsOut[i] \in Nat /\ textsOut[i] < id
      BY <1>1, <2>1, <2>3 DEF TgTextsInv
    <3>4. textsOut'[Len(textsOut) + 1] = id
      BY <1>1, <2>1, <2>3
    <3>5. \A i \in DOMAIN textsOut' : i \in DOMAIN textsOut \/ i = Len(textsOut) + 1
      BY <2>1, <3>2
    <3>6. \A i \in DOMAIN textsOut' : textsOut'[i] < nextUpdateId'
      <4>1. \A i \in DOMAIN textsOut : textsOut'[i] < id + 1
        BY <1>1, <3>3
      <4> QED BY <1>1, <3>1, <3>4, <3>5, <4>1
    <3>7. ASSUME NEW i \in DOMAIN textsOut', NEW j \in DOMAIN textsOut', i < j
          PROVE textsOut'[i] < textsOut'[j]
      <4>1. i \in DOMAIN textsOut
        BY <2>1, <3>2, <3>7
      <4>2. CASE j \in DOMAIN textsOut
        BY <3>3, <3>7, <4>1, <4>2 DEF TgTextsInv
      <4>3. CASE j = Len(textsOut) + 1
        BY <3>3, <3>4, <4>1, <4>3
      <4> QED BY <3>5, <4>2, <4>3
    <3> QED BY <3>6, <3>7 DEF TgTextsInv
  <2> QED BY <1>4, <2>2, <2>3
<1> QED BY <1>6, <1>7, <1>8, <1>9

LEMMA TgSetTokenStep == ASSUME TgPollInv, NEW b \in Bots, Tg!TelegramAssumption, Tg!SetToken(b) PROVE TgPollInv'
<1> USE DEF TgPollInv, Tg!SetToken, Tg!serverVars, Tg!jobVars
<1>1. TgTypes'
  BY DEF TgTypes
<1>2. TgBatchInv'
  BY DEF TgBatchInv, Tg!TelegramAssumption
<1>3. TgOffsetInv'
  <2> SUFFICES ASSUME ~tokenMixed' PROVE TgOffsetInv'
    BY DEF TgOffsetInv
  <2>1. ~tokenMixed /\ pollTask \notin {"polling", "handling"}
    BY DEF TgTypes
  <2> QED BY <2>1 DEF TgOffsetInv
<1>4. TgTextsInv'
  BY DEF TgTextsInv
<1> QED BY <1>1, <1>2, <1>3, <1>4

LEMMA TgResetStep == ASSUME TgPollInv, Tg!DeviceResets PROVE TgPollInv'
<1> USE DEF TgPollInv, Tg!DeviceResets, Tg!serverVars
<1>1. TgTypes'
  BY DEF TgTypes
<1>2. TgBatchInv'
  BY DEF TgBatchInv
<1>3. TgOffsetInv'
  BY DEF TgOffsetInv
<1>4. TgTextsInv'
  BY DEF TgTextsInv
<1> QED BY <1>1, <1>2, <1>3, <1>4

LEMMA TgEndAndStart == ASSUME TgPollInv, Tg!PollTaskEnds \/ Tg!GatewayStart PROVE TgPollInv'
<1> USE DEF TgPollInv, Tg!PollTaskEnds, Tg!GatewayStart, Tg!serverVars, Tg!offsetVars
<1>1. TgTypes'
  BY DEF TgTypes
<1>2. TgBatchInv'
  BY DEF TgBatchInv
<1>3. TgOffsetInv'
  BY DEF TgOffsetInv
<1>4. TgTextsInv'
  BY DEF TgTextsInv
<1> QED BY <1>1, <1>2, <1>3, <1>4

LEMMA TgPollStart == ASSUME Tg!TelegramAssumption, Tg!Init PROVE TgPollInv
<1> USE DEF Tg!Init
<1>1. TgTypes
  <2>1. <<>> \in Seq(Tg!UpdateKinds) /\ <<>> \in Seq(Nat) /\ <<>> \in Seq(TgPositive)
    OBVIOUS
  <2>2. 0 \in Nat /\ {} \in SUBSET Nat
    OBVIOUS
  <2> QED BY <2>1, <2>2 DEF TgTypes
<1>2. TgBatchInv /\ TgTextsInv
  BY DEF TgBatchInv, TgTextsInv
<1>3. \A b \in Bots : 1..forgotten[b] \subseteq handledUpdates[b]
  <2>1. 1..0 = {}
    OBVIOUS
  <2> QED BY <2>1
<1>4. TgOffsetInv
  BY <1>3 DEF TgOffsetInv
<1> QED BY <1>1, <1>2, <1>4 DEF TgPollInv

LEMMA TgPollingStep == ASSUME Tg!TelegramAssumption, TgPollInv, [Tg!Next]_(Tg!tgVars) PROVE TgPollInv'
<1>1. ASSUME NEW b \in Bots, Tg!Arrive(b) \/ Tg!SetToken(b) PROVE TgPollInv'
  BY <1>1, TgArriveStep, TgSetTokenStep
<1>2. CASE Tg!Poll \/ Tg!Answer \/ Tg!HandleUpdate
  BY <1>2, TgPollStep, TgAnswerStep, TgHandleStep
<1>3. CASE Tg!PollTaskEnds \/ Tg!GatewayStart \/ Tg!DeviceResets
  BY <1>3, TgEndAndStart, TgResetStep
<1>4. ASSUME NEW d \in Tg!Downloaders,
             Tg!TakeJob(d) \/ Tg!GetFilePath(d) \/ Tg!SaveAttachment(d) \/ Tg!AttachmentTaskEnds(d)
      PROVE TgPollInv'
  <2>1. UNCHANGED TgPollVars
    BY <1>4 DEF Tg!TakeJob, Tg!GetFilePath, Tg!SaveAttachment, Tg!AttachmentTaskEnds, TgPollVars,
                Tg!serverVars, Tg!offsetVars, Tg!jobVars
  <2> QED BY <2>1, TgPollStutters
<1>5. CASE Tg!StopBegins \/ Tg!StopTimesOut \/ Tg!StopSeesPollEnd \/ Tg!StopDeletesQueue
  <2>1. UNCHANGED TgPollVars
    BY <1>5 DEF Tg!StopBegins, Tg!StopTimesOut, Tg!StopSeesPollEnd, Tg!StopDeletesQueue, TgPollVars,
                Tg!serverVars, Tg!offsetVars, Tg!jobVars
  <2> QED BY <2>1, TgPollStutters
<1>6. CASE UNCHANGED Tg!tgVars
  <2>1. UNCHANGED TgPollVars
    BY <1>6 DEF Tg!tgVars, TgPollVars, Tg!serverVars, Tg!offsetVars, Tg!jobVars
  <2> QED BY <2>1, TgPollStutters
<1> QED BY <1>1, <1>2, <1>3, <1>4, <1>5, <1>6 DEF Tg!Next

-----------------------------------------------------------------------------
(* With no task left over by a stop, the handle says whether the one task    *)
(* is there, and the queue goes only when the handle is clear.               *)
TgJobTypes ==
  /\ jobQueue \in Seq(TgPositive) \cup {Tg!NoQueue}
  /\ downloaders \in [Tg!Downloaders -> {"none", "waiting", "asking", "saving"}]
  /\ attachHandle \in BOOLEAN /\ outlived \in BOOLEAN

TgOneDownloader ==
  ~outlived =>
    /\ \A d, e \in Tg!Downloaders : downloaders[d] # "none" /\ downloaders[e] # "none" => d = e
    /\ Tg!AnyDownloader => attachHandle /\ jobQueue # Tg!NoQueue

TgQueueInv == TgJobTypes /\ TgOneDownloader

(* What is taken from the queue or added to it does not make it vanish.      *)
LEMMA TgQueueChanges ==
  ASSUME NEW q \in Seq(TgPositive)
  PROVE /\ q # Tg!NoQueue
        /\ \A id \in TgPositive : Append(q, id) \in Seq(TgPositive) /\ Append(q, id) # Tg!NoQueue
        /\ q # <<>> => Tail(q) \in Seq(TgPositive) /\ Tail(q) # Tg!NoQueue
<1>1. \A s \in Seq(TgPositive) : s # Tg!NoQueue
  <2> SUFFICES ASSUME NEW s \in Seq(TgPositive), s = Tg!NoQueue PROVE FALSE
    OBVIOUS
  <2>1. Len(s) = 1 /\ s[1] = 0
    BY DEF Tg!NoQueue
  <2>2. s[1] \in TgPositive
    <3>1. 1 \in 1..Len(s)
      BY <2>1
    <3> QED BY ONLY s \in Seq(TgPositive), <3>1, ElementOfSeq
  <2> QED BY <2>1, <2>2 DEF TgPositive
<1> QED BY <1>1

LEMMA TgQueueStart == ASSUME Tg!Init PROVE TgQueueInv
  BY DEF Tg!Init, TgQueueInv, TgJobTypes, TgOneDownloader, Tg!AnyDownloader, Tg!Downloaders

LEMMA TgQueueStep == ASSUME TgQueueInv, TgPollInv, [Tg!Next]_(Tg!tgVars) PROVE TgQueueInv'
<1> USE DEF TgQueueInv, TgJobTypes, TgOneDownloader, Tg!AnyDownloader
<1>1. CASE UNCHANGED Tg!jobVars
  BY <1>1 DEF Tg!jobVars
<1>2. CASE Tg!HandleUpdate
  <2>1. Head(polledBatch) \in TgPositive
    BY <1>2 DEF Tg!HandleUpdate, TgPollInv, TgTypes, TgBatchInv
  <2>2. UNCHANGED <<downloaders, attachHandle, outlived>>
    BY <1>2 DEF Tg!HandleUpdate
  <2>3. \/ jobQueue' = jobQueue
        \/ jobQueue # Tg!NoQueue /\ jobQueue' = Append(jobQueue, Head(polledBatch))
    BY <1>2 DEF Tg!HandleUpdate, Tg!QueueAttachment
  <2>4. /\ jobQueue' \in Seq(TgPositive) \cup {Tg!NoQueue}
        /\ jobQueue # Tg!NoQueue => jobQueue' # Tg!NoQueue
    BY <2>1, <2>3, TgQueueChanges
  <2> QED BY <2>2, <2>4
<1>3. ASSUME NEW d \in Tg!Downloaders, Tg!TakeJob(d) PROVE TgQueueInv'
  <2>1. jobQueue' \in Seq(TgPositive) /\ jobQueue' # Tg!NoQueue
    BY <1>3, TgQueueChanges DEF Tg!TakeJob
  <2> QED BY <1>3, <2>1 DEF Tg!TakeJob
<1>4. ASSUME NEW d \in Tg!Downloaders, Tg!GetFilePath(d) \/ Tg!SaveAttachment(d) PROVE TgQueueInv'
  BY <1>4 DEF Tg!GetFilePath, Tg!SaveAttachment
<1>5. ASSUME NEW d \in Tg!Downloaders, Tg!AttachmentTaskEnds(d) PROVE TgQueueInv'
  BY <1>5 DEF Tg!AttachmentTaskEnds
<1>6. CASE Tg!GatewayStart
  <2>1. jobQueue' \in Seq(TgPositive) \cup {Tg!NoQueue} /\ jobQueue' # Tg!NoQueue
    <3>1. <<>> \in Seq(TgPositive)
      OBVIOUS
    <3> QED BY <1>6, <3>1, TgQueueChanges DEF Tg!GatewayStart
  <2> QED BY <1>6, <2>1 DEF Tg!GatewayStart
<1>7. CASE Tg!StopDeletesQueue
  BY <1>7 DEF Tg!StopDeletesQueue
<1>8. CASE Tg!DeviceResets
  BY <1>8 DEF Tg!DeviceResets
<1>9. ASSUME NEW b \in Bots, Tg!Arrive(b) \/ Tg!SetToken(b) PROVE UNCHANGED Tg!jobVars
  BY <1>9 DEF Tg!Arrive, Tg!SetToken, Tg!jobVars
<1>10. ASSUME Tg!Poll \/ Tg!Answer \/ Tg!PollTaskEnds \/ Tg!StopBegins \/ Tg!StopTimesOut \/ Tg!StopSeesPollEnd
       PROVE UNCHANGED Tg!jobVars
  BY <1>10 DEF Tg!Poll, Tg!Answer, Tg!PollTaskEnds, Tg!StopBegins, Tg!StopTimesOut, Tg!StopSeesPollEnd, Tg!jobVars
<1>11. UNCHANGED Tg!tgVars => UNCHANGED Tg!jobVars
  BY DEF Tg!tgVars
<1> QED BY <1>1, <1>2, <1>3, <1>4, <1>5, <1>6, <1>7, <1>8, <1>9, <1>10, <1>11 DEF Tg!Next

-----------------------------------------------------------------------------
(* Numbers stay within the bounds of the model.                             *)
TgSizes ==
  /\ \A b \in Bots :
       Len(updates[b]) <= TgMaxUpdates /\ forgotten[b] <= TgMaxUpdates /\ handledUpdates[b] \subseteq Tg!Ids
  /\ tokensLeft \in 0..TgMaxTokens /\ nextUpdateId <= TgMaxUpdates + 1
  /\ seenUpdates \in Seq(Tg!Ids) /\ Len(seenUpdates) <= TgRingSize
  /\ polledBatch \in Seq(Tg!Ids) /\ textsOut \in Seq(Tg!Ids) /\ jobQueue \in Seq(Tg!Ids) \cup {Tg!NoQueue}
  /\ tgStopper \in {"none", "poll", "attachment"} /\ tgStopping \in BOOLEAN

TgInv == TgPollInv /\ TgQueueInv /\ TgSizes

LEMMA TgTypesHold == ASSUME Tg!TelegramAssumption, TgInv PROVE Tg!TypeOK
<1> USE DEF TgInv, TgPollInv, TgQueueInv, TgSizes, TgTypes, TgBatchInv, TgJobTypes, Tg!TelegramAssumption
<1>1. forgotten \in [Bots -> 0..TgMaxUpdates]
  OBVIOUS
<1>2. handledUpdates \in [Bots -> SUBSET Tg!Ids]
  OBVIOUS
<1>3. nextUpdateId \in 0..(TgMaxUpdates + 1)
  OBVIOUS
<1>4. {tgStopping, attachHandle, tokenMixed, outlived} \subseteq BOOLEAN
  BY Zenon
<1> QED BY <1>1, <1>2, <1>3, <1>4 DEF Tg!TypeOK

LEMMA TgSizesStart == ASSUME Tg!TelegramAssumption, Tg!Init PROVE TgSizes
<1> USE DEF Tg!Init, Tg!TelegramAssumption
<1>1. <<>> \in Seq(Tg!Ids) /\ Len(<<>>) = 0
  OBVIOUS
<1>2. 0 <= TgMaxUpdates /\ 0 <= TgMaxUpdates + 1 /\ TgMaxTokens \in 0..TgMaxTokens /\ 0 <= TgRingSize
  OBVIOUS
<1> QED BY <1>1, <1>2 DEF TgSizes

(* A bot that had all the updates would leave no room for another.          *)
LEMMA TgRoomForUpdate ==
  ASSUME Tg!TelegramAssumption, NEW b \in Bots, Len(updates[b]) \in Nat,
         Cardinality(Tg!AllUpdates) < TgMaxUpdates
  PROVE  Len(updates[b]) < TgMaxUpdates
<1> SUFFICES ASSUME Len(updates[b]) >= TgMaxUpdates PROVE FALSE
  BY DEF Tg!TelegramAssumption
<1> DEFINE f == [i \in 1..TgMaxUpdates |-> <<b, i>>]
<1>1. TgMaxUpdates \in Nat /\ IsFiniteSet(Bots)
  BY TgFiniteSets DEF Tg!TelegramAssumption
<1>2. IsFiniteSet(1..TgMaxUpdates) /\ Cardinality(1..TgMaxUpdates) = TgMaxUpdates
  BY <1>1, CountTo
<1>3. IsFiniteSet(Tg!AllUpdates)
  <2>1. IsFiniteSet(Bots \X (1..TgMaxUpdates))
    BY <1>1, <1>2, FS_Product
  <2>2. Tg!AllUpdates \in SUBSET (Bots \X (1..TgMaxUpdates))
    BY DEF Tg!AllUpdates
  <2> QED BY <2>1, <2>2, FS_Subset
<1>4. f \in [1..TgMaxUpdates -> Tg!AllUpdates]
  <2> SUFFICES ASSUME NEW i \in 1..TgMaxUpdates PROVE <<b, i>> \in Tg!AllUpdates
    OBVIOUS
  <2>1. i <= Len(updates[b])
    BY <1>1
  <2> QED BY <2>1 DEF Tg!AllUpdates
<1>5. Cardinality(Tg!AllUpdates) < Cardinality(1..TgMaxUpdates)
  BY <1>2
<1>6. \E x, y \in 1..TgMaxUpdates : x # y /\ f[x] = f[y]
  <2> HIDE DEF f
  <2> QED BY <1>2, <1>3, <1>4, <1>5, FS_PigeonHole
<1> QED BY <1>6

LEMMA TgSizesArrive ==
  ASSUME Tg!TelegramAssumption, TgInv, NEW b \in Bots, Tg!Arrive(b) PROVE TgSizes'
<1> USE DEF TgInv, TgSizes, Tg!Arrive, Tg!offsetVars, Tg!jobVars
<1>1. PICK kind \in Tg!UpdateKinds : updates' = [updates EXCEPT ![b] = Append(@, kind)]
  BY Zenon
<1>2. updates \in [Bots -> Seq(Tg!UpdateKinds)] /\ TgMaxUpdates \in Nat
  BY DEF TgPollInv, TgTypes, Tg!TelegramAssumption
<1>3. Len(updates[b]) \in Nat /\ Len(updates[b]) < TgMaxUpdates
  <2>1. Len(updates[b]) \in Nat
    BY <1>2
  <2>2. Cardinality(Tg!AllUpdates) < TgMaxUpdates
    BY TgFiniteSets
  <2> QED BY <2>1, <2>2, TgRoomForUpdate
<1>4. \A c \in Bots : Len(updates'[c]) <= TgMaxUpdates
  <2> SUFFICES ASSUME NEW c \in Bots PROVE Len(updates'[c]) <= TgMaxUpdates
    OBVIOUS
  <2>1. CASE c = b
    <3>1. updates'[b] = Append(updates[b], kind) /\ updates[b] \in Seq(Tg!UpdateKinds)
      BY <1>1, <1>2
    <3>2. Len(updates'[b]) = Len(updates[b]) + 1
      BY <3>1
    <3> QED BY <1>2, <1>3, <2>1, <3>2
  <2>2. CASE c # b
    BY <1>1, <1>2, <2>2
  <2> QED BY <2>1, <2>2
<1> QED BY <1>4

LEMMA TgSizesPoll == ASSUME Tg!TelegramAssumption, TgInv, Tg!Poll PROVE TgSizes'
<1> USE DEF TgInv, TgSizes, Tg!Poll, Tg!offsetVars, Tg!jobVars
<1>1. /\ botToken \in Bots /\ forgotten \in [Bots -> Nat] /\ nextUpdateId \in Nat
      /\ TgMaxUpdates \in Nat /\ forgotten[botToken] <= TgMaxUpdates /\ nextUpdateId <= TgMaxUpdates + 1
  BY DEF TgPollInv, TgTypes, TgBatchInv, Tg!TelegramAssumption
<1> DEFINE upTo == IF nextUpdateId > 0 THEN Tg!Max({forgotten[botToken], nextUpdateId - 1})
                   ELSE forgotten[botToken]
<1>2. upTo <= TgMaxUpdates
  <2> HIDE DEF TgInv, TgSizes, Tg!Poll
  <2>1. /\ forgotten[botToken] \in Nat /\ nextUpdateId \in Nat /\ TgMaxUpdates \in Nat
        /\ forgotten[botToken] <= TgMaxUpdates /\ nextUpdateId <= TgMaxUpdates + 1
    BY <1>1
  <2>2. CASE nextUpdateId > 0
    <3>1. nextUpdateId - 1 \in Nat /\ nextUpdateId - 1 <= TgMaxUpdates
      BY <2>1, <2>2
    <3>2. Tg!Max({forgotten[botToken], nextUpdateId - 1}) <= TgMaxUpdates
      BY <2>1, <3>1, TgLargerOne
    <3> QED BY <2>2, <3>2
  <2> QED BY <2>1, <2>2
<1> HIDE DEF upTo
<1>3. forgotten' = [forgotten EXCEPT ![botToken] = upTo]
  BY <1>1 DEF upTo
<1>4. \A b \in Bots : forgotten'[b] <= TgMaxUpdates
  BY <1>1, <1>2, <1>3
<1> QED BY <1>4

LEMMA TgSizesAnswer == ASSUME Tg!TelegramAssumption, TgInv, Tg!Answer PROVE TgSizes'
<1> USE DEF TgInv, TgSizes, Tg!Answer, Tg!serverVars, Tg!offsetVars, Tg!jobVars
<1>1. /\ polled \in Bots /\ forgotten[polled] \in Nat /\ Len(updates[polled]) \in Nat
      /\ TgMaxUpdates \in Nat /\ Len(updates[polled]) <= TgMaxUpdates
  BY DEF TgPollInv, TgTypes, TgBatchInv, Tg!TelegramAssumption
<1>2. PICK n \in forgotten[polled]..Len(updates[polled]) :
        polledBatch' = [i \in 1..(n - forgotten[polled]) |-> forgotten[polled] + i]
  OBVIOUS
<1> DEFINE f == forgotten[polled]
           k == n - f
<1>3. f \in Nat /\ k \in Nat /\ f + k <= TgMaxUpdates
  <2> HIDE DEF TgInv, TgSizes, Tg!Answer
  <2>1. n \in Nat /\ forgotten[polled] <= n /\ n <= TgMaxUpdates
    BY <1>1, <1>2
  <2> QED BY <1>1, <2>1
<1>4. polledBatch' = [i \in 1..k |-> f + i]
  BY <1>2
<1> HIDE DEF f, k
<1>5. polledBatch' \in Seq(Tg!Ids)
  BY <1>1, <1>3, <1>4, NewBatch DEF Tg!Ids
<1> QED BY <1>5

LEMMA TgSizesHandle == ASSUME Tg!TelegramAssumption, TgInv, Tg!HandleUpdate PROVE TgSizes'
<1> USE DEF TgInv, TgSizes, Tg!HandleUpdate, Tg!serverVars
<1> DEFINE id == Head(polledBatch)
<1>1. /\ polledBatch \in Seq(Tg!Ids) /\ polledBatch # <<>> /\ id \in Tg!Ids
      /\ polled \in Bots /\ nextUpdateId \in Nat /\ handledUpdates \in [Bots -> SUBSET Nat]
      /\ TgMaxUpdates \in Nat /\ TgRingSize \in Nat \ {0}
  <2>1. /\ polledBatch \in Seq(Tg!Ids) /\ polledBatch # <<>> /\ polled \in Bots
        /\ nextUpdateId \in Nat /\ handledUpdates \in [Bots -> SUBSET Nat]
    BY DEF TgPollInv, TgTypes, TgBatchInv
  <2>2. id \in Tg!Ids
    BY <2>1, HeadTailProperties
  <2> QED BY <2>1, <2>2 DEF Tg!TelegramAssumption
<1>2. seenUpdates' \in {seenUpdates, Tg!Recorded(id)}
  OBVIOUS
<1>3. nextUpdateId' \in {nextUpdateId, Tg!NextUpdateId(id)}
  OBVIOUS
<1>4. textsOut' \in {textsOut, Append(textsOut, id)}
  OBVIOUS
<1>5. jobQueue' = jobQueue \/ (jobQueue # Tg!NoQueue /\ jobQueue' = Append(jobQueue, id))
  BY DEF Tg!QueueAttachment
<1>6. /\ polledBatch' = Tail(polledBatch)
      /\ handledUpdates' = [handledUpdates EXCEPT ![polled] = @ \cup {id}]
      /\ UNCHANGED <<updates, forgotten, tokensLeft, tgStopper, tgStopping>>
  OBVIOUS
<1> HIDE DEF Tg!HandleUpdate, id
<1>7. seenUpdates' \in Seq(Tg!Ids) /\ Len(seenUpdates') <= TgRingSize
  BY <1>1, <1>2, RingKeeps DEF Tg!Recorded
<1>8. nextUpdateId' <= TgMaxUpdates + 1
  BY <1>1, <1>3 DEF Tg!NextUpdateId, Tg!Ids
<1>9. textsOut' \in Seq(Tg!Ids) /\ jobQueue' \in Seq(Tg!Ids) \cup {Tg!NoQueue} /\ polledBatch' \in Seq(Tg!Ids)
  <2>1. textsOut' \in Seq(Tg!Ids)
    <3>1. textsOut \in Seq(Tg!Ids) /\ Append(textsOut, id) \in Seq(Tg!Ids)
      BY <1>1, AppendProperties
    <3> QED BY <1>4, <3>1
  <2>2. jobQueue' \in Seq(Tg!Ids) \cup {Tg!NoQueue}
    <3>1. jobQueue # Tg!NoQueue => Append(jobQueue, id) \in Seq(Tg!Ids)
      BY <1>1, AppendProperties
    <3> QED BY <1>5, <3>1
  <2>3. polledBatch' \in Seq(Tg!Ids)
    BY <1>1, <1>6, HeadTailProperties
  <2> QED BY <2>1, <2>2, <2>3
<1>10. \A b \in Bots : handledUpdates'[b] \subseteq Tg!Ids
  BY <1>1, <1>6
<1> QED BY <1>6, <1>7, <1>8, <1>9, <1>10

LEMMA TgSizesQuiet ==
  ASSUME Tg!TelegramAssumption, TgInv,
         \/ \E d \in Tg!Downloaders :
              Tg!GetFilePath(d) \/ Tg!SaveAttachment(d) \/ Tg!AttachmentTaskEnds(d)
         \/ Tg!PollTaskEnds \/ Tg!StopBegins \/ Tg!StopTimesOut \/ Tg!StopSeesPollEnd \/ UNCHANGED Tg!tgVars
  PROVE  TgSizes'
  BY DEF TgInv, TgSizes, Tg!GetFilePath, Tg!SaveAttachment, Tg!AttachmentTaskEnds, Tg!PollTaskEnds,
         Tg!StopBegins, Tg!StopTimesOut, Tg!StopSeesPollEnd, Tg!tgVars, Tg!serverVars, Tg!offsetVars, Tg!jobVars

LEMMA TgSizesStep == ASSUME Tg!TelegramAssumption, TgInv, [Tg!Next]_(Tg!tgVars) PROVE TgSizes'
<1> <<>> \in Seq(Tg!Ids) /\ Len(<<>>) = 0
  OBVIOUS
<1>1. ASSUME NEW b \in Bots, Tg!Arrive(b) PROVE TgSizes'
  BY <1>1, TgSizesArrive
<1>2. ASSUME NEW b \in Bots, Tg!SetToken(b) PROVE TgSizes'
  <2>1. tokensLeft' \in 0..TgMaxTokens /\ 0 <= TgMaxUpdates + 1 /\ 0 <= TgRingSize
    BY <1>2 DEF TgInv, TgSizes, Tg!SetToken, Tg!TelegramAssumption
  <2> QED BY <1>2, <2>1 DEF TgInv, TgSizes, Tg!SetToken, Tg!serverVars, Tg!jobVars
<1>3. CASE Tg!Poll \/ Tg!Answer \/ Tg!HandleUpdate
  BY <1>3, TgSizesPoll, TgSizesAnswer, TgSizesHandle
<1>4. ASSUME NEW d \in Tg!Downloaders, Tg!TakeJob(d) PROVE TgSizes'
  <2>1. jobQueue' \in Seq(Tg!Ids)
    BY <1>4, HeadTailProperties DEF TgInv, TgSizes, Tg!TakeJob
  <2> QED BY <1>4, <2>1 DEF TgInv, TgSizes, Tg!TakeJob, Tg!serverVars, Tg!offsetVars
<1>5. CASE Tg!GatewayStart
  BY <1>5 DEF TgInv, TgSizes, Tg!GatewayStart, Tg!serverVars, Tg!offsetVars
<1>6. CASE Tg!StopDeletesQueue
  BY <1>6 DEF TgInv, TgSizes, Tg!StopDeletesQueue, Tg!serverVars, Tg!offsetVars
<1>7. CASE Tg!DeviceResets
  <2>1. tokensLeft' \in 0..TgMaxTokens /\ 0 <= TgMaxUpdates + 1 /\ 0 <= TgRingSize
    BY <1>7 DEF TgInv, TgSizes, Tg!DeviceResets, Tg!TelegramAssumption
  <2> QED BY <1>7, <2>1 DEF TgInv, TgSizes, Tg!DeviceResets, Tg!serverVars
<1> QED BY <1>1, <1>2, <1>3, <1>4, <1>5, <1>6, <1>7, TgSizesQuiet DEF Tg!Next

LEMMA TgStart == ASSUME Tg!TelegramAssumption, Tg!Init PROVE TgInv
  BY TgPollStart, TgQueueStart, TgSizesStart DEF TgInv

LEMMA TgStep == ASSUME Tg!TelegramAssumption, TgInv, [Tg!Next]_(Tg!tgVars) PROVE TgInv'
  BY TgPollingStep, TgQueueStep, TgSizesStep DEF TgInv

LEMMA TgSound ==
  ASSUME Tg!TelegramAssumption, TgInv
  PROVE  Tg!TypeOK /\ Tg!ForgottenIsHandled /\ Tg!TextsOnceInOrder /\ Tg!QueueOutlivesTasks
  BY TgTypesHold DEF TgInv, TgPollInv, TgOffsetInv, TgTextsInv, TgQueueInv, TgOneDownloader,
     Tg!ForgottenIsHandled, Tg!TextsOnceInOrder, Tg!QueueOutlivesTasks

-----------------------------------------------------------------------------
(***************************************************************************)
(* Receiving on WeChat.                                                    *)
(***************************************************************************)

LEMMA WxLargerOne == ASSUME NEW a \in Nat, NEW b \in Nat
                     PROVE Wx!Max({a, b}) = IF a >= b THEN a ELSE b
  BY LargerOne DEF Wx!Max, Max

(* What comes before the batch in hand has been looked at, and so has, when *)
(* there is none, what comes before the cursor.  A text published came      *)
(* before all of that.                                                      *)
WxBatchInv ==
  /\ Len(wxMessages) <= WxMaxMessages
  /\ Consecutive(wxBatch)
  /\ wxBatch # <<>> =>
       /\ syncBuf = wxBatch[1] + Len(wxBatch) - 1
       /\ 1..(wxBatch[1] - 1) \subseteq wxHandled
       /\ \A i \in DOMAIN wxTexts : wxTexts[i] < wxBatch[1]
  /\ wxBatch = <<>> =>
       /\ 1..syncBuf \subseteq wxHandled
       /\ \A i \in DOMAIN wxTexts : wxTexts[i] <= syncBuf
  /\ wxPollTask = "asking" => syncBuf <= wxForgotten

WxInv ==
  Wx!TypeOK /\ WxBatchInv /\ Wx!ForgottenIsHandled /\ Wx!TextsOnceInOrder /\ Wx!StateOutlivesTask

LEMMA WxStart == ASSUME Wx!WechatAssumption, Wx!Init PROVE WxInv
<1> USE DEF Wx!WechatAssumption, Wx!Init
<1>1. Wx!TypeOK
  <2>1. <<>> \in Seq(Wx!Ids) /\ <<>> \in Seq(Wx!Kinds) /\ Len(<<>>) = 0
    OBVIOUS
  <2>2. 0 \in 0..WxMaxMessages /\ WxMaxLives \in 0..WxMaxLives /\ 0 <= WxSeenSize
    OBVIOUS
  <2>3. {stateHeld, wxConfigured, wxStopping, wxStopper} \subseteq BOOLEAN
    OBVIOUS
  <2> QED BY <2>1, <2>2, <2>3 DEF Wx!TypeOK
<1>2. 1..0 = {}
  OBVIOUS
<1>3. WxBatchInv
  BY <1>2 DEF WxBatchInv, Consecutive
<1> QED BY <1>1, <1>2, <1>3 DEF WxInv, Wx!ForgottenIsHandled, Wx!TextsOnceInOrder, Wx!StateOutlivesTask

LEMMA WxArrive == ASSUME Wx!WechatAssumption, WxInv, Wx!Arrive PROVE WxInv'
<1> USE DEF Wx!Arrive, Wx!stateVars, Wx!pollVars
<1>1. wxMessages' \in Seq(Wx!Kinds) /\ Len(wxMessages') <= WxMaxMessages
  BY DEF Wx!WechatAssumption, WxInv, Wx!TypeOK
<1> QED BY <1>1 DEF WxInv, Wx!TypeOK, WxBatchInv, Wx!ForgottenIsHandled, Wx!TextsOnceInOrder, Wx!StateOutlivesTask

LEMMA WxPoll == ASSUME Wx!WechatAssumption, WxInv, Wx!Poll PROVE WxInv'
<1> USE DEF Wx!Poll, Wx!stateVars
<1>1. wxForgotten \in 0..WxMaxMessages /\ syncBuf \in 0..WxMaxMessages /\ wxBatch = <<>>
  BY DEF WxInv, Wx!TypeOK
<1>2. wxForgotten' = IF wxForgotten >= syncBuf THEN wxForgotten ELSE syncBuf
  BY <1>1, WxLargerOne
<1>3. Wx!TypeOK'
  BY <1>1, <1>2 DEF WxInv, Wx!TypeOK
<1>4. WxBatchInv'
  BY <1>1, <1>2 DEF WxInv, WxBatchInv
<1>5. Wx!ForgottenIsHandled'
  BY <1>1, <1>2 DEF WxInv, WxBatchInv, Wx!ForgottenIsHandled
<1>6. Wx!TextsOnceInOrder' /\ Wx!StateOutlivesTask'
  BY DEF WxInv, Wx!TextsOnceInOrder, Wx!StateOutlivesTask
<1> QED BY <1>3, <1>4, <1>5, <1>6 DEF WxInv

LEMMA WxAnswer == ASSUME Wx!WechatAssumption, WxInv, Wx!Answer PROVE WxInv'
<1> USE DEF Wx!Answer, Wx!serverVars
<1>1. CASE wxPollTask' = "idle" /\ UNCHANGED <<wxBatch, syncBuf>>
  BY <1>1 DEF WxInv, Wx!TypeOK, WxBatchInv, Wx!ForgottenIsHandled, Wx!TextsOnceInOrder, Wx!StateOutlivesTask
<1>2. ASSUME NEW n \in wxForgotten..Len(wxMessages),
             wxBatch' = [i \in 1..(n - wxForgotten) |-> wxForgotten + i], syncBuf' = n,
             wxPollTask' = IF n = wxForgotten THEN "idle" ELSE "handling"
      PROVE WxInv'
  <2>1. /\ wxForgotten \in Nat /\ syncBuf \in Nat /\ WxMaxMessages \in Nat /\ n \in Nat
        /\ wxForgotten <= n /\ n <= WxMaxMessages /\ n - wxForgotten \in Nat
        /\ wxForgotten + (n - wxForgotten) = n
    <3>1. /\ wxForgotten \in Nat /\ syncBuf \in Nat /\ WxMaxMessages \in Nat
          /\ Len(wxMessages) \in Nat /\ Len(wxMessages) <= WxMaxMessages
      BY DEF WxInv, Wx!TypeOK, WxBatchInv, Wx!WechatAssumption
    <3> QED BY <1>2, <3>1
  <2>2. /\ wxBatch' \in Seq(Wx!Ids) /\ Len(wxBatch') = n - wxForgotten /\ Consecutive(wxBatch')
        /\ wxBatch' # <<>> <=> n - wxForgotten > 0
        /\ n - wxForgotten > 0 => wxBatch'[1] = wxForgotten + 1
    <3>1. PICK f, k : f = wxForgotten /\ k = n - wxForgotten
      OBVIOUS
    <3>2. f \in Nat /\ k \in Nat /\ WxMaxMessages \in Nat /\ f + k <= WxMaxMessages
      BY <2>1, <3>1
    <3>3. LET batch == [i \in 1..k |-> f + i]
          IN  /\ batch \in Seq(1..WxMaxMessages) /\ Len(batch) = k /\ Consecutive(batch)
              /\ batch # <<>> <=> k > 0
              /\ k > 0 => batch[1] = f + 1
      BY ONLY <3>2, NewBatch
    <3> QED BY <1>2, <3>1, <3>3 DEF Wx!Ids
  <2>3. Wx!TypeOK'
    BY <1>2, <2>1, <2>2 DEF WxInv, Wx!TypeOK
  <2>4. WxBatchInv'
    <3>1. syncBuf <= wxForgotten /\ wxBatch = <<>> /\ 1..wxForgotten \subseteq wxHandled
      BY DEF WxInv, Wx!TypeOK, WxBatchInv, Wx!ForgottenIsHandled
    <3>2. \A i \in DOMAIN wxTexts : wxTexts[i] \in Nat /\ wxTexts[i] <= wxForgotten
      <4>1. wxTexts \in Seq(1..WxMaxMessages) /\ \A i \in DOMAIN wxTexts : wxTexts[i] <= syncBuf
        BY <3>1 DEF WxInv, Wx!TypeOK, WxBatchInv, Wx!Ids
      <4>2. \A i \in DOMAIN wxTexts : wxTexts[i] \in Nat
        BY <2>1, <4>1, NumbersOf
      <4> QED BY <2>1, <3>1, <4>1, <4>2
    <3>3. wxBatch' # <<>> => /\ syncBuf' = wxBatch'[1] + Len(wxBatch') - 1
                             /\ 1..(wxBatch'[1] - 1) \subseteq wxHandled
                             /\ \A i \in DOMAIN wxTexts : wxTexts[i] < wxBatch'[1]
      <4> SUFFICES ASSUME wxBatch' # <<>>
                   PROVE /\ syncBuf' = wxBatch'[1] + Len(wxBatch') - 1
                         /\ 1..(wxBatch'[1] - 1) \subseteq wxHandled
                         /\ \A i \in DOMAIN wxTexts : wxTexts[i] < wxBatch'[1]
        OBVIOUS
      <4>1. wxBatch'[1] = wxForgotten + 1 /\ Len(wxBatch') = n - wxForgotten /\ syncBuf' = n
        BY <1>2, <2>2
      <4> QED BY <2>1, <3>1, <3>2, <4>1
    <3>4. wxBatch' = <<>> => 1..syncBuf' \subseteq wxHandled /\ \A i \in DOMAIN wxTexts : wxTexts[i] <= syncBuf'
      BY <1>2, <2>1, <2>2, <3>1, <3>2
    <3> QED BY <1>2, <2>1, <2>2, <3>3, <3>4 DEF WxInv, WxBatchInv
  <2> QED BY <1>2, <2>3, <2>4 DEF WxInv, Wx!ForgottenIsHandled, Wx!TextsOnceInOrder, Wx!StateOutlivesTask
<1> QED BY <1>1, <1>2

(* The next message is the head of what is left.                            *)
LEMMA WxNext ==
  ASSUME Wx!WechatAssumption, WxInv, wxPollTask \in {"handling", "publishing"}, Wx!NextMessage,
         UNCHANGED <<Wx!serverVars, stateHeld, wxConfigured, syncBuf, wxStopping, wxStopper, livesLeft>>,
         \/ wxTexts' = wxTexts
         \/ wxTexts' = Append(wxTexts, Head(wxBatch)),
         wxSeen' = wxSeen
  PROVE  WxInv'
<1> USE DEF Wx!NextMessage, Wx!serverVars
<1>1. WxMaxMessages \in Nat /\ wxBatch \in Seq(1..WxMaxMessages) /\ wxBatch # <<>> /\ Consecutive(wxBatch)
  BY DEF WxInv, Wx!TypeOK, WxBatchInv, Wx!Ids, Wx!WechatAssumption
<1>2. PICK m \in 1..WxMaxMessages : m = Head(wxBatch) /\ m = wxBatch[1]
  BY <1>1, RestOfBatch
<1>3. /\ wxBatch' \in Seq(Wx!Ids) /\ Consecutive(wxBatch') /\ Len(wxBatch') = Len(wxBatch) - 1
      /\ wxBatch' # <<>> <=> Len(wxBatch) > 1
      /\ wxBatch' # <<>> => wxBatch'[1] = m + 1
      /\ Len(wxBatch) \in Nat /\ Len(wxBatch) > 0
  <2>1. Len(wxBatch) \in Nat /\ Len(wxBatch) > 0
    BY <1>1
  <2> QED BY <1>1, <1>2, <2>1, RestOfBatch DEF Wx!Ids
<1>4. /\ syncBuf = m + Len(wxBatch) - 1 /\ 1..(m - 1) \subseteq wxHandled
      /\ \A i \in DOMAIN wxTexts : wxTexts[i] < m
  BY <1>1, <1>2 DEF WxInv, WxBatchInv
<1>5. /\ wxTexts' \in Seq(Wx!Ids) /\ wxTexts \in Seq(Wx!Ids)
      /\ \A i \in DOMAIN wxTexts' : wxTexts'[i] <= m
      /\ Wx!TextsOnceInOrder'
  <2>1. wxTexts \in Seq(Wx!Ids) /\ \A i, j \in DOMAIN wxTexts : i < j => wxTexts[i] < wxTexts[j]
    BY DEF WxInv, Wx!TypeOK, Wx!TextsOnceInOrder
  <2>2. CASE wxTexts' = wxTexts
    <3>1. \A i \in DOMAIN wxTexts : wxTexts[i] \in Nat
      BY <1>1, <2>1, NumbersOf DEF Wx!Ids
    <3>2. \A i \in DOMAIN wxTexts : wxTexts[i] <= m
      BY <1>2, <1>4, <3>1
    <3> QED BY <2>1, <2>2, <3>2 DEF Wx!TextsOnceInOrder
  <2>3. CASE wxTexts' = Append(wxTexts, m)
    <3>1. wxTexts \in Seq(1..WxMaxMessages)
      BY <2>1 DEF Wx!Ids
    <3>2. /\ Append(wxTexts, m) \in Seq(1..WxMaxMessages)
          /\ \A i \in DOMAIN Append(wxTexts, m) : Append(wxTexts, m)[i] <= m
          /\ \A i, j \in DOMAIN Append(wxTexts, m) : i < j => Append(wxTexts, m)[i] < Append(wxTexts, m)[j]
      BY <1>1, <1>4, <2>1, <3>1, GrowingText
    <3> QED BY <2>1, <2>3, <3>2 DEF Wx!TextsOnceInOrder, Wx!Ids
  <2> QED BY <1>2, <2>1, <2>2, <2>3
<1>6. wxHandled' = wxHandled \cup {m} /\ wxHandled' \subseteq Wx!Ids /\ 1..m \subseteq wxHandled'
  <2>1. wxHandled \subseteq Wx!Ids
    BY DEF WxInv, Wx!TypeOK
  <2>2. wxHandled' = wxHandled \cup {m}
    BY <1>2
  <2>3. \A x \in 1..m : x \in 1..(m - 1) \/ x = m
    BY <1>2
  <2> QED BY <1>2, <1>4, <2>1, <2>2, <2>3 DEF Wx!Ids
<1>7. Wx!TypeOK'
  BY <1>1, <1>3, <1>5, <1>6 DEF WxInv, Wx!TypeOK
<1>8. WxBatchInv'
  <2>1. CASE wxBatch' = <<>>
    <3>1. syncBuf = m
      BY <1>2, <1>3, <1>4, <2>1
    <3> QED BY <1>3, <1>5, <1>6, <2>1, <3>1 DEF WxInv, WxBatchInv
  <2>2. CASE wxBatch' # <<>>
    <3>1. /\ syncBuf' = wxBatch'[1] + Len(wxBatch') - 1 /\ wxBatch'[1] - 1 = m
      <4>1. wxBatch'[1] = m + 1 /\ syncBuf' = syncBuf
        BY <1>3, <2>2
      <4>2. /\ Len(wxBatch') = Len(wxBatch) - 1 /\ Len(wxBatch) \in Nat /\ m \in Nat
            /\ syncBuf = m + Len(wxBatch) - 1
        BY <1>2, <1>3, <1>4
      <4>3. syncBuf' = m + 1 + (Len(wxBatch) - 1) - 1
        <5> HIDE DEF Wx!NextMessage, Wx!serverVars
        <5> QED BY <4>1, <4>2, SMT
      <4> HIDE DEF Wx!NextMessage, Wx!serverVars
      <4> QED BY <4>1, <4>2, <4>3
    <3>2. \A i \in DOMAIN wxTexts' : wxTexts'[i] \in Nat
      BY <1>1, <1>5, NumbersOf DEF Wx!Ids
    <3>3. \A i \in DOMAIN wxTexts' : wxTexts'[i] < wxBatch'[1]
      BY <1>2, <1>3, <1>5, <2>2, <3>2
    <3> QED BY <1>3, <1>6, <2>2, <3>1, <3>3 DEF WxInv, WxBatchInv
  <2> QED BY <2>1, <2>2
<1> QED BY <1>5, <1>6, <1>7, <1>8 DEF WxInv, Wx!ForgottenIsHandled, Wx!StateOutlivesTask

LEMMA WxBegin == ASSUME Wx!WechatAssumption, WxInv, Wx!BeginMessage PROVE WxInv'
<1>1. CASE Head(wxBatch) \in Wx!ToSet(wxSeen)
  BY <1>1, WxNext DEF Wx!BeginMessage
<1>2. CASE Head(wxBatch) \notin Wx!ToSet(wxSeen)
  <2> USE <1>2 DEF Wx!BeginMessage, Wx!serverVars
  <2>1. wxBatch \in Seq(Wx!Ids) /\ wxBatch # <<>> /\ Head(wxBatch) \in Wx!Ids
    BY DEF WxInv, Wx!TypeOK
  <2>2. wxSeen' = Wx!Recorded(Head(wxBatch))
    OBVIOUS
  <2>3. wxSeen' \in Seq(Wx!Ids) /\ Len(wxSeen') <= WxSeenSize
    BY <2>1, <2>2, RingKeeps DEF Wx!Recorded, WxInv, Wx!TypeOK, Wx!WechatAssumption
  <2> QED BY <2>1, <2>3 DEF WxInv, Wx!TypeOK, WxBatchInv, Wx!ForgottenIsHandled, Wx!TextsOnceInOrder, Wx!StateOutlivesTask
<1> QED BY <1>1, <1>2

LEMMA WxPublish == ASSUME Wx!WechatAssumption, WxInv, Wx!PublishText PROVE WxInv'
  BY WxNext DEF Wx!PublishText

(* A lost state takes the texts with it.                                    *)
LEMMA WxLost ==
  ASSUME Wx!WechatAssumption, WxInv, Wx!StateLost, wxPollTask' = "none", wxBatch' = <<>>,
         UNCHANGED <<Wx!serverVars, wxHandled>>
  PROVE  WxInv'
<1> USE DEF Wx!StateLost, Wx!serverVars
<1>1. <<>> \in Seq(Wx!Ids) /\ Len(<<>>) = 0 /\ 1..0 = {}
  OBVIOUS
<1>2. Wx!TypeOK'
  <2>1. livesLeft' \in 0..WxMaxLives /\ 0 \in 0..WxMaxMessages /\ 0 <= WxSeenSize
    BY DEF WxInv, Wx!TypeOK, Wx!WechatAssumption
  <2>2. {stateHeld', wxConfigured', wxStopping', wxStopper'} \subseteq BOOLEAN
    OBVIOUS
  <2> QED BY <1>1, <2>1, <2>2 DEF WxInv, Wx!TypeOK
<1>3. WxBatchInv'
  BY <1>1 DEF WxInv, WxBatchInv, Consecutive
<1> QED BY <1>2, <1>3 DEF WxInv, Wx!ForgottenIsHandled, Wx!TextsOnceInOrder, Wx!StateOutlivesTask

LEMMA WxQuietStep ==
  ASSUME Wx!WechatAssumption, WxInv,
         \/ Wx!DownloadMedia \/ Wx!SaveMedia \/ Wx!PollTaskEnds \/ Wx!SetClientConfig \/ Wx!GatewayStart
         \/ Wx!StopBegins \/ Wx!StopTimesOut \/ UNCHANGED Wx!wxVars
  PROVE  WxInv'
<1> USE DEF Wx!DownloadMedia, Wx!SaveMedia, Wx!PollTaskEnds, Wx!SetClientConfig, Wx!GatewayStart, Wx!StopBegins,
            Wx!StopTimesOut, Wx!wxVars, Wx!serverVars, Wx!stateVars, Wx!pollVars
<1>1. Wx!TypeOK'
  BY DEF WxInv, Wx!TypeOK
<1>2. WxBatchInv'
  BY DEF WxInv, WxBatchInv
<1> QED BY <1>1, <1>2 DEF WxInv, Wx!TypeOK, Wx!ForgottenIsHandled, Wx!TextsOnceInOrder, Wx!StateOutlivesTask

LEMMA WxStep == ASSUME Wx!WechatAssumption, WxInv, [Wx!Next]_(Wx!wxVars) PROVE WxInv'
<1>1. CASE Wx!Arrive
  BY <1>1, WxArrive
<1>2. CASE Wx!Poll
  BY <1>2, WxPoll
<1>3. CASE Wx!Answer
  BY <1>3, WxAnswer
<1>4. CASE Wx!BeginMessage \/ Wx!PublishText
  BY <1>4, WxBegin, WxPublish
<1>5. CASE Wx!StopFreesState
  BY <1>5, WxLost DEF Wx!StopFreesState, WxInv, Wx!TypeOK, Wx!pollVars
<1>6. CASE Wx!DeviceResets
  BY <1>6, WxLost DEF Wx!DeviceResets
<1>7. CASE \/ Wx!DownloadMedia \/ Wx!SaveMedia \/ Wx!PollTaskEnds \/ Wx!SetClientConfig \/ Wx!GatewayStart
           \/ Wx!StopBegins \/ Wx!StopTimesOut \/ UNCHANGED Wx!wxVars
  BY <1>7, WxQuietStep
<1> QED BY <1>1, <1>2, <1>3, <1>4, <1>5, <1>6, <1>7 DEF Wx!Next

(* What is promised follows from the invariant.                     *)
LEMMA WxSound ==
  ASSUME WxInv
  PROVE  Wx!TypeOK /\ Wx!ForgottenIsHandled /\ Wx!TextsOnceInOrder /\ Wx!StateOutlivesTask
  BY DEF WxInv

-----------------------------------------------------------------------------
(* What holds of each platform on its own.                                  *)

(* On Telegram, what the server has forgotten has been looked at, through    *)
(* lost answers, resets, stops and new tokens (unless a token was set during *)
(* a poll), a text is published once and in the server's order, and the      *)
(* attachment queue stays as long as a task receives from it, unless a start *)
(* followed a stop that had given up waiting for that task (cap_im_tg.c:627, *)
(* 631, 1112 and 1226).                                                      *)
THEOREM TelegramReceives ==
  Tg!Spec =>
    [](Tg!TypeOK /\ Tg!ForgottenIsHandled /\ Tg!TextsOnceInOrder /\ Tg!QueueOutlivesTasks)
<1>1. Tg!Init => TgInv
  BY InboundAssumption, TgStart
<1>2. TgInv /\ [Tg!Next]_(Tg!tgVars) => TgInv'
  BY InboundAssumption, TgStep
<1>3. TgInv => Tg!TypeOK /\ Tg!ForgottenIsHandled /\ Tg!TextsOnceInOrder /\ Tg!QueueOutlivesTasks
  BY InboundAssumption, TgSound
<1> QED BY <1>1, <1>2, <1>3, PTL DEF Tg!Spec

(* On QQ, a frame that is handled is one the server sent, whole, through any *)
(* breaks of the connection; as long as no handler has outlived a stop, a    *)
(* text is published once and the frame queue stays while a task receives    *)
(* from it (cap_im_qq.c:240, 973 and 1782).                                  *)
THEOREM QqReceives ==
  Qq!Spec =>
    [](Qq!TypeOK /\ Qq!FramesWhole /\ Qq!TextsOnce /\ Qq!QueueOutlivesTasks)
<1>1. Qq!Init => QqInv
  BY InboundAssumption, QqStart
<1>2. QqInv /\ [Qq!Next]_(Qq!qqVars) => QqInv'
  BY InboundAssumption, QqStep
<1>3. QqInv => Qq!TypeOK /\ Qq!FramesWhole /\ Qq!TextsOnce /\ Qq!QueueOutlivesTasks
  BY InboundAssumption, QqSound
<1> QED BY <1>1, <1>2, <1>3, PTL DEF Qq!Spec

(* On Feishu, a frame that is handled is whole, an acknowledged message has  *)
(* been looked at, a text is published once, and the attachment queue stays  *)
(* as long as a task receives from it (cap_im_feishu.c:2207, 2362, 2408 and  *)
(* 3308).                                                                    *)
THEOREM FeishuReceives ==
  Fs!Spec =>
    [](Fs!TypeOK /\ Fs!FramesWhole /\ Fs!AckedIsHandled /\ Fs!TextsOnce /\ Fs!QueueOutlivesTasks)
<1>1. Fs!Init => FsInv
  BY InboundAssumption, FsStart
<1>2. FsInv /\ [Fs!Next]_(Fs!fsVars) => FsInv'
  BY InboundAssumption, FsStep
<1>3. FsInv => Fs!TypeOK /\ Fs!FramesWhole /\ Fs!AckedIsHandled /\ Fs!TextsOnce /\ Fs!QueueOutlivesTasks
  BY InboundAssumption, FsSound
<1> QED BY <1>1, <1>2, <1>3, PTL DEF Fs!Spec

(* On WeChat, what the server has forgotten has been looked at, a text is    *)
(* published once and in order while the state lives, and the state stays as *)
(* long as the poll task runs (cap_im_wechat.c:1482, 1594 and 2238).         *)
THEOREM WechatReceives ==
  Wx!Spec =>
    [](Wx!TypeOK /\ Wx!ForgottenIsHandled /\ Wx!TextsOnceInOrder /\ Wx!StateOutlivesTask)
<1>1. Wx!Init => WxInv
  BY InboundAssumption, WxStart
<1>2. WxInv /\ [Wx!Next]_(Wx!wxVars) => WxInv'
  BY InboundAssumption, WxStep
<1>3. WxInv => Wx!TypeOK /\ Wx!ForgottenIsHandled /\ Wx!TextsOnceInOrder /\ Wx!StateOutlivesTask
  BY InboundAssumption, WxSound
<1> QED BY <1>1, <1>2, <1>3, PTL DEF Wx!Spec
=============================================================================
