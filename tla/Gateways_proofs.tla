---------------------------- MODULE Gateways_proofs -------------------------
(***************************************************************************)
(* Proofs about the login to WeChat, sending and the pool of HTTP clients, *)
(* for any numbers of codes, callers, chats, chunks, tasks, clients and    *)
(* hosts and any sizes of caches and pool; and, with those of              *)
(* ImInbound_proofs about receiving, about all of it side by side: each    *)
(* platform keeps its invariant, and its promises follow from that.        *)
(***************************************************************************)
EXTENDS Gateways, ImInbound_proofs, FunctionTheorems, WellFoundedInduction

-----------------------------------------------------------------------------
(***************************************************************************)
(* The pool of HTTP clients.                                               *)
(***************************************************************************)

LEMMA HpFiniteSets ==
  \A S : (Http!IsFiniteSet(S) <=> IsFiniteSet(S)) /\ Http!Cardinality(S) = Cardinality(S)
  BY DEF Http!IsFiniteSet, IsFiniteSet, Http!Cardinality, Cardinality

(* A set of naturals has a least element.                                   *)
LEMMA HpLeastOf == ASSUME NEW T \in SUBSET Nat, T # {} PROVE \E x \in T : \A y \in T : x <= y
<1> DEFINE U == {0..x : x \in T}
<1>1. U \subseteq FiniteSubsetsOf(Nat)
  <2>1. \A x \in Nat : IsFiniteSet(0..x) /\ 0..x \subseteq Nat
    BY FS_Interval
  <2> QED BY <2>1 DEF FiniteSubsetsOf
<1>2. U # {}
  OBVIOUS
<1>3. PICK few \in U : \A other \in U : <<other, few>> \notin StrictSubsetOrdering(Nat)
  <2>1. IsWellFoundedOn(StrictSubsetOrdering(Nat), FiniteSubsetsOf(Nat))
    BY FS_StrictSubsetOrderingWellFounded
  <2> HIDE DEF U
  <2> QED BY <1>1, <1>2, <2>1, WFMin
<1>4. PICK x \in T : few = 0..x
  BY <1>3
<1>5. ASSUME NEW y \in T, y < x PROVE FALSE
  <2>1. 0..y \in U
    OBVIOUS
  <2>2. 0..y \subseteq 0..x /\ 0..y # 0..x /\ 0..y \in SUBSET Nat /\ 0..x \in SUBSET Nat
    BY <1>5
  <2>3. \A a \in SUBSET Nat, b \in SUBSET Nat : a \subseteq b /\ a # b => <<a, b>> \in StrictSubsetOrdering(Nat)
    BY DEF StrictSubsetOrdering
  <2>4. <<0..y, 0..x>> \in StrictSubsetOrdering(Nat)
    BY <2>2, <2>3
  <2> QED BY <1>3, <1>4, <2>1, <2>4
<1> QED BY <1>5

LEMMA HpLeastIs == ASSUME NEW T \in SUBSET Nat, T # {} PROVE Http!Least(T) \in T
  BY HpLeastOf DEF Http!Least

(* The places of a set of naturals in order: one place for each of them.    *)
LEMMA HpRanked ==
  ASSUME NEW n \in Nat, NEW K \in SUBSET (1..n)
  PROVE  LET place(k) == CHOOSE i \in K : Cardinality({j \in K : j <= i}) = k
         IN  /\ Cardinality(K) \in 0..n
             /\ \A k \in 1..Cardinality(K) : place(k) \in K
             /\ \A k, l \in 1..Cardinality(K) : place(k) = place(l) => k = l
             /\ \A i \in K : \E k \in 1..Cardinality(K) : place(k) = i
<1> DEFINE below(i) == {j \in K : j <= i}
           rank(i) == Cardinality(below(i))
           place(k) == CHOOSE i \in K : Cardinality({j \in K : j <= i}) = k
<1>1. IsFiniteSet(K) /\ Cardinality(K) \in 0..n
  <2>1. IsFiniteSet(1..n) /\ Cardinality(1..n) = n
    BY FS_Interval
  <2>2. IsFiniteSet(K) /\ Cardinality(K) <= Cardinality(1..n)
    BY <2>1, FS_Subset
  <2>3. Cardinality(K) \in Nat
    BY <2>2, FS_CardinalityType
  <2> QED BY <2>1, <2>2, <2>3
<1>2. ASSUME NEW i \in K PROVE IsFiniteSet(below(i)) /\ rank(i) \in 1..Cardinality(K)
  <2>1. below(i) \in SUBSET K /\ i \in below(i)
    OBVIOUS
  <2> HIDE DEF below
  <2>2. IsFiniteSet(below(i)) /\ Cardinality(below(i)) <= Cardinality(K)
    BY <1>1, <2>1, FS_Subset
  <2>3. Cardinality(below(i)) \in Nat /\ Cardinality(below(i)) # 0
    BY <2>1, <2>2, FS_CardinalityType, FS_EmptySet
  <2> QED BY <1>1, <2>2, <2>3
<1>3. ASSUME NEW i \in K, NEW l \in K, i < l PROVE rank(i) # rank(l)
  <2>1. below(i) \in SUBSET below(l) /\ l \in below(l) /\ l \notin below(i)
    <3>1. \A x \in K : x \in Nat
      OBVIOUS
    <3>2. i \in Nat /\ l \in Nat /\ l <= l /\ ~(l <= i)
      BY <1>3, <3>1
    <3>3. \A x \in K : x <= i => x <= l
      BY <1>3, <3>1, <3>2
    <3> QED BY <3>2, <3>3
  <2>2. IsFiniteSet(below(l))
    BY <1>2
  <2> HIDE DEF below
  <2> QED BY <2>1, <2>2, FS_Subset
<1>4. \A i, l \in K : rank(i) = rank(l) => i = l
  <2> HIDE DEF rank
  <2>1. \A i, l \in K : i < l \/ l < i \/ i = l
    OBVIOUS
  <2> QED BY <1>3, <2>1
<1> DEFINE f == [i \in K |-> rank(i)]
<1>5. \A k \in 1..Cardinality(K) : \E i \in K : rank(i) = k
  <2>1. f \in Injection(K, 1..Cardinality(K))
    <3>1. f \in [K -> 1..Cardinality(K)]
      <4> HIDE DEF rank
      <4> QED BY <1>2
    <3>2. \A i, l \in K : f[i] = f[l] => i = l
      <4> HIDE DEF rank
      <4> QED BY <1>4
    <3> HIDE DEF f
    <3> QED BY <3>1, <3>2 DEF Injection, IsInjective
  <2>2. IsFiniteSet(1..Cardinality(K)) /\ Cardinality(1..Cardinality(K)) = Cardinality(K)
    BY <1>1, FS_Interval
  <2> HIDE DEF f
  <2>3. f \in Surjection(K, 1..Cardinality(K))
    BY <2>1, <2>2, FS_Injection
  <2>4. \A k \in 1..Cardinality(K) : \E i \in K : f[i] = k
    BY <2>3 DEF Surjection
  <2>5. \A i \in K : f[i] = rank(i)
    BY DEF f
  <2> HIDE DEF rank
  <2> QED BY <2>4, <2>5
<1>6. \A k \in 1..Cardinality(K) : place(k) \in K /\ rank(place(k)) = k
  <2> SUFFICES ASSUME NEW k \in 1..Cardinality(K)
               PROVE  place(k) \in K /\ rank(place(k)) = k
    OBVIOUS
  <2>1. \E i \in K : Cardinality({j \in K : j <= i}) = k
    BY <1>5
  <2>2. (CHOOSE i \in K : Cardinality({j \in K : j <= i}) = k) \in K
        /\ Cardinality({l \in K : l <= (CHOOSE i \in K : Cardinality({j \in K : j <= i}) = k)}) = k
    BY <2>1
  <2> QED BY <2>2
<1> HIDE DEF place, rank
<1>7. \A k, l \in 1..Cardinality(K) : place(k) = place(l) => k = l
  BY <1>6
<1>8. \A i \in K : \E k \in 1..Cardinality(K) : place(k) = i
  BY <1>2, <1>4, <1>6
<1> QED BY <1>1, <1>6, <1>7, <1>8 DEF place

HpNodes(nodes) == {nodes[i] : i \in DOMAIN nodes}

(* What a pool may hold: no client twice, and no more than its limit.       *)
HpListed(nodes) ==
  /\ nodes \in Seq(Http!Node) /\ Len(nodes) <= MaxPool
  /\ \A i, k \in DOMAIN nodes : nodes[i].client = nodes[k].client => i = k

LEMMA HpPicked ==
  ASSUME Http!HttpReuseAssumption, NEW nodes, HpListed(nodes), NEW K \in SUBSET DOMAIN nodes
  PROVE  HpListed(Http!Picked(nodes, K)) /\ HpNodes(Http!Picked(nodes, K)) = {nodes[i] : i \in K}
<1> DEFINE place(k) == CHOOSE i \in K : Cardinality({j \in K : j <= i}) = k
           left == Http!Picked(nodes, K)
<1>1. nodes \in Seq(Http!Node) /\ Len(nodes) \in Nat /\ DOMAIN nodes = 1..Len(nodes) /\ Len(nodes) <= MaxPool
      /\ MaxPool \in Nat /\ \A i \in DOMAIN nodes : nodes[i] \in Http!Node
  BY DEF HpListed, Http!HttpReuseAssumption
<1>2. /\ Cardinality(K) \in 0..Len(nodes)
      /\ \A k \in 1..Cardinality(K) : place(k) \in K
      /\ \A k, l \in 1..Cardinality(K) : place(k) = place(l) => k = l
      /\ \A i \in K : \E k \in 1..Cardinality(K) : place(k) = i
  BY <1>1, HpRanked
<1>3. left = [k \in 1..Cardinality(K) |-> nodes[place(k)]]
  BY DEF Http!Picked, Http!Cardinality, Cardinality
<1> HIDE DEF place, left
<1>4. left \in [1..Cardinality(K) -> Http!Node]
  BY <1>1, <1>2, <1>3
<1>5. left \in Seq(Http!Node)
  <2>1. Seq(Http!Node) = UNION {[1..m -> Http!Node] : m \in Nat}
    BY SeqDef, Zenon
  <2>2. Cardinality(K) \in Nat
    BY <1>1, <1>2
  <2> QED BY <1>4, <2>1, <2>2, Zenon
<1>6. Len(left) = Cardinality(K) /\ DOMAIN left = 1..Cardinality(K)
  BY <1>1, <1>2, <1>4, <1>5
<1>7. \A k, l \in DOMAIN left : left[k].client = left[l].client => k = l
  BY <1>1, <1>2, <1>3, <1>6 DEF HpListed
<1>8. HpNodes(left) = {nodes[i] : i \in K}
  BY <1>2, <1>3, <1>6 DEF HpNodes
<1> QED BY <1>1, <1>2, <1>5, <1>6, <1>7, <1>8 DEF HpListed, left

(* Only nodes that nobody uses are reaped.                                  *)
LEMMA HpReaped ==
  ASSUME Http!HttpReuseAssumption, NEW nodes, HpListed(nodes)
  PROVE  HpListed(Http!Reaped(nodes)) /\ HpNodes(Http!Reaped(nodes)) = {a \in HpNodes(nodes) : ~Http!Expired(a)}
<1>1. PICK K : K = {i \in DOMAIN nodes : ~Http!Expired(nodes[i])}
  OBVIOUS
<1>2. HpListed(Http!Picked(nodes, K)) /\ HpNodes(Http!Picked(nodes, K)) = {nodes[i] : i \in K}
  BY <1>1, HpPicked
<1>3. {nodes[i] : i \in K} = {a \in HpNodes(nodes) : ~Http!Expired(a)}
  BY <1>1, Zenon DEF HpNodes
<1> QED BY <1>1, <1>2, <1>3 DEF Http!Reaped

LEMMA HpRemoved ==
  ASSUME Http!HttpReuseAssumption, NEW nodes, HpListed(nodes), NEW i \in DOMAIN nodes
  PROVE  /\ HpListed(Http!RemoveAt(nodes, i)) /\ Len(Http!RemoveAt(nodes, i)) = Len(nodes) - 1
         /\ HpNodes(Http!RemoveAt(nodes, i)) = HpNodes(nodes) \ {nodes[i]}
<1> DEFINE left == Http!RemoveAt(nodes, i)
           was(k) == IF k < i THEN k ELSE k + 1
<1>1. nodes \in Seq(Http!Node) /\ Len(nodes) \in Nat /\ DOMAIN nodes = 1..Len(nodes) /\ Len(nodes) <= MaxPool
      /\ MaxPool \in Nat /\ i \in 1..Len(nodes)
  BY DEF HpListed, Http!HttpReuseAssumption
<1>2. /\ left \in Seq(Http!Node) /\ Len(left) = Len(nodes) - 1
      /\ \A k \in 1..(Len(nodes) - 1) : left[k] = nodes[was(k)]
  <2>1. PICK a, b : a = SubSeq(nodes, 1, i - 1) /\ b = SubSeq(nodes, i + 1, Len(nodes))
    OBVIOUS
  <2>2. /\ a \in Seq(Http!Node) /\ Len(a) = i - 1 /\ \A k \in 1..(i - 1) : a[k] = nodes[k]
        /\ b \in Seq(Http!Node) /\ Len(b) = Len(nodes) - i /\ \A k \in 1..(Len(nodes) - i) : b[k] = nodes[i + k]
    <3>1. /\ a \in Seq(Http!Node) /\ Len(a) = i - 1 /\ \A k \in 1..(i - 1) : a[k] = nodes[k]
      BY <1>1, <2>1
    <3>2. i + 1 \in 1..(Len(nodes) + 1) /\ Len(nodes) \in i..Len(nodes)
      BY <1>1
    <3>3. /\ b \in Seq(Http!Node) /\ Len(b) = IF i + 1 <= Len(nodes) THEN Len(nodes) - (i + 1) + 1 ELSE 0
          /\ \A k \in 1..(Len(nodes) - (i + 1) + 1) : b[k] = nodes[i + 1 + k - 1]
      BY <1>1, <2>1, <3>2, SubSeqProperties
    <3>4. Len(b) = Len(nodes) - i /\ Len(nodes) - (i + 1) + 1 = Len(nodes) - i
      BY <1>1, <3>3
    <3>5. \A k \in 1..(Len(nodes) - i) : i + 1 + k - 1 = i + k
      BY <1>1
    <3> QED BY <3>1, <3>3, <3>4, <3>5
  <2>3. left = a \o b
    BY <2>1 DEF Http!RemoveAt
  <2> HIDE DEF left
  <2>4. /\ left \in Seq(Http!Node) /\ Len(left) = Len(nodes) - 1
        /\ \A k \in 1..(Len(nodes) - 1) : left[k] = IF k <= Len(a) THEN a[k] ELSE b[k - Len(a)]
    <3>1. a \in Seq(Http!Node) /\ b \in Seq(Http!Node) /\ Len(a) + Len(b) = Len(nodes) - 1
      BY <1>1, <2>2
    <3>2. left \in Seq(Http!Node) /\ Len(left) = Len(a) + Len(b)
      BY <2>3, <3>1, ConcatProperties
    <3>3. \A k \in 1..(Len(a) + Len(b)) : left[k] = IF k <= Len(a) THEN a[k] ELSE b[k - Len(a)]
      BY <2>3, <3>1, ConcatProperties
    <3> QED BY <3>1, <3>2, <3>3
  <2>5. ASSUME NEW k \in 1..(Len(nodes) - 1) PROVE left[k] = nodes[was(k)]
    <3>1. CASE k < i
      <4>1. k \in 1..(i - 1) /\ k <= Len(a)
        BY <1>1, <2>2, <3>1
      <4>2. left[k] = a[k] /\ a[k] = nodes[k]
        BY <2>2, <2>4, <4>1
      <4> QED BY <3>1, <4>2
    <3>2. CASE k >= i
      <4>1. left[k] = b[k - (i - 1)] /\ k - (i - 1) \in 1..(Len(nodes) - i)
        BY <1>1, <2>2, <2>4, <3>2
      <4>2. i + (k - (i - 1)) = k + 1
        BY <1>1
      <4>3. b[k - (i - 1)] = nodes[i + (k - (i - 1))]
        BY <2>2, <4>1
      <4> QED BY <1>1, <3>2, <4>1, <4>2, <4>3
    <3> QED BY <1>1, <3>1, <3>2
  <2> QED BY <2>4, <2>5
<1> HIDE DEF left
<1>3. DOMAIN left = 1..(Len(nodes) - 1)
  BY <1>1, <1>2
<1>4. \A k \in DOMAIN left : was(k) \in DOMAIN nodes /\ was(k) # i
  BY <1>1, <1>3
<1>5. \A k, l \in DOMAIN left : was(k) = was(l) => k = l
  BY <1>1, <1>3
<1>6. \A k \in DOMAIN nodes : k # i => \E l \in DOMAIN left : was(l) = k
  <2> SUFFICES ASSUME NEW k \in DOMAIN nodes, k # i PROVE \E l \in DOMAIN left : was(l) = k
    OBVIOUS
  <2>1. CASE k < i
    BY <1>1, <1>3, <2>1
  <2>2. CASE k > i
    <3>1. k - 1 \in DOMAIN left /\ was(k - 1) = k
      BY <1>1, <1>3, <2>2
    <3> QED BY <3>1
  <2> QED BY <1>1, <2>1, <2>2
<1> HIDE DEF was
<1>7. \A k, l \in DOMAIN left : left[k].client = left[l].client => k = l
  BY <1>2, <1>3, <1>4, <1>5 DEF HpListed
<1>8. \A k \in DOMAIN nodes : nodes[k] = nodes[i] => k = i
  BY DEF HpListed
<1>9. HpNodes(left) = HpNodes(nodes) \ {nodes[i]}
  <2>1. HpNodes(left) \subseteq HpNodes(nodes) \ {nodes[i]}
    BY <1>2, <1>3, <1>4, <1>8 DEF HpNodes
  <2>2. ASSUME NEW k \in DOMAIN nodes, nodes[k] # nodes[i] PROVE nodes[k] \in HpNodes(left)
    <3>1. PICK l \in DOMAIN left : was(l) = k
      BY <1>6, <2>2
    <3> QED BY <1>2, <1>3, <3>1 DEF HpNodes
  <2> QED BY <2>1, <2>2 DEF HpNodes
<1> QED BY <1>1, <1>2, <1>7, <1>9 DEF HpListed, left

LEMMA HpReplaced ==
  ASSUME NEW nodes, HpListed(nodes), NEW i \in DOMAIN nodes, NEW a \in Http!Node, a.client = nodes[i].client,
         NEW left, left = [nodes EXCEPT ![i] = a]
  PROVE  /\ HpListed(left)
         /\ \A b : b \in HpNodes(left) <=> b = a \/ (b \in HpNodes(nodes) /\ b # nodes[i])
<1>1. nodes \in Seq(Http!Node) /\ \A k \in DOMAIN nodes : nodes[k] = nodes[i] => k = i
  BY DEF HpListed
<1>3. left \in Seq(Http!Node) /\ Len(left) = Len(nodes) /\ DOMAIN left = DOMAIN nodes
      /\ \A k \in DOMAIN nodes : left[k] = IF k = i THEN a ELSE nodes[k]
  BY <1>1
<1>4. HpListed(left)
  BY <1>3 DEF HpListed
<1>5. ASSUME NEW b PROVE b \in HpNodes(left) <=> b = a \/ (b \in HpNodes(nodes) /\ b # nodes[i])
  <2>1. left[i] = a /\ a \in HpNodes(left)
    BY <1>3 DEF HpNodes
  <2> QED BY <1>1, <1>3, <2>1, Zenon DEF HpNodes
<1> QED BY <1>4, <1>5

LEMMA HpAppended ==
  ASSUME Http!HttpReuseAssumption, NEW nodes, HpListed(nodes), Len(nodes) < MaxPool,
         NEW a \in Http!Node, a.client \notin Http!Clients(nodes)
  PROVE  HpListed(Append(nodes, a)) /\ HpNodes(Append(nodes, a)) = HpNodes(nodes) \cup {a}
<1>1. PICK s \in Seq(Http!Node) : s = nodes
  BY DEF HpListed
<1>2. PICK t : t = Append(s, a)
  OBVIOUS
<1>3. /\ t \in Seq(Http!Node) /\ Len(t) = Len(s) + 1 /\ DOMAIN t = 1..(Len(s) + 1) /\ DOMAIN s = 1..Len(s)
      /\ Len(s) \in Nat /\ t[Len(s) + 1] = a /\ \A i \in 1..Len(s) : t[i] = s[i]
  BY <1>2
<1>4. \A i \in DOMAIN t : i \in DOMAIN s \/ i = Len(s) + 1
  BY <1>3
<1>5. MaxPool \in Nat
  BY DEF Http!HttpReuseAssumption
<1>6. \A i, k \in DOMAIN t : t[i].client = t[k].client => i = k
  BY <1>1, <1>3, <1>4 DEF HpListed, Http!Clients
<1>7. HpNodes(t) = HpNodes(s) \cup {a}
  <2>1. Len(s) + 1 \in DOMAIN t /\ \A i \in DOMAIN s : i \in DOMAIN t
    BY <1>3
  <2> QED BY <1>3, <1>4, <2>1 DEF HpNodes
<1> QED BY <1>1, <1>2, <1>3, <1>5, <1>6, <1>7 DEF HpListed

HpUserRecords ==
  [pc : {"idle", "hit", "miss", "new", "ready", "perform", "failed", "retry", "insert"},
   h : Handles \cup {NoHandle}, asked : Hosts \cup {NoHost}, hit : BOOLEAN,
   again : Nat, open : BOOLEAN]

(* The pool and the clients that exist.                                     *)
HpPool ==
  /\ Http!alive \subseteq Handles /\ at \in [Http!alive -> Hosts]
  /\ HpListed(pool) /\ Http!Clients(pool) \subseteq Http!alive

(* What a task holds, at each of its steps.                                 *)
HpTask(r) ==
  /\ r \in HpUserRecords
  /\ r.pc = "idle" => r = Http!Resting
  /\ r.pc = "miss" => r.h = NoHandle /\ ~r.hit /\ r.again = 0 /\ r.asked \in Hosts
  /\ r.h = NoHandle <=> r.pc \in {"idle", "miss"}
  /\ r.pc = "hit" => r.hit /\ r.asked \in Hosts
  /\ r.pc \in {"new", "insert"} => ~r.hit
  /\ r.again <= 1 /\ (~r.hit => r.again = 0)
  /\ r.pc \in {"failed", "retry"} => r.asked = NoHost
  /\ r.pc = "retry" => r.hit /\ r.again = 0

HpUsers ==
  /\ user \in [Users -> HpUserRecords]
  /\ \A u \in Users :
       /\ HpTask(user[u])
       /\ user[u].h # NoHandle => user[u].h \in Http!alive /\ (user[u].hit <=> user[u].h \in Http!Clients(pool))
       /\ user[u].pc \in {"new", "ready", "perform"} /\ user[u].asked # NoHost =>
            at[user[u].h] = user[u].asked
  /\ \A u, v \in Users : user[u].h = user[v].h /\ user[u].h # NoHandle => u = v

(* A node is leased while a task has its client, and once that task had its *)
(* second try the node is not `reused' any more.                            *)
HpHeld ==
  \A a \in HpNodes(pool) :
    /\ a.leased <=> \E u \in Users : user[u].h = a.client
    /\ \A u \in Users : user[u].h = a.client /\ a.reused => user[u].again = 0 /\ user[u].pc # "retry"

(* A client is noted as handed out until its task has cleaned it up.        *)
HpLeases ==
  /\ leases \subseteq Http!Lease
  /\ \A l \in leases :
       /\ \E u \in Users : user[u].h = l.client /\ user[u].pc # "insert"
       /\ l.client \notin Http!Clients(pool)

HpInv == HpPool /\ HpUsers /\ HpHeld /\ HpLeases

LEMMA HpClients ==
  ASSUME NEW nodes, HpListed(nodes)
  PROVE  /\ HpNodes(nodes) \subseteq Http!Node /\ Http!Clients(nodes) \subseteq Handles
         /\ \A h : h \in Http!Clients(nodes) <=> \E a \in HpNodes(nodes) : a.client = h
         /\ \A a, b \in HpNodes(nodes) : a.client = b.client => a = b
         /\ \A h \in Http!Clients(nodes) : Http!Where(nodes, h) \in DOMAIN nodes /\ nodes[Http!Where(nodes, h)].client = h
         /\ \A i \in DOMAIN nodes : nodes[i] \in HpNodes(nodes) /\ nodes[i] \in Http!Node
<1>1. \A i \in DOMAIN nodes : nodes[i] \in Http!Node
  BY DEF HpListed
<1>2. \A i \in DOMAIN nodes : nodes[i] \in HpNodes(nodes)
  BY DEF HpNodes
<1>3. HpNodes(nodes) \subseteq Http!Node
  BY <1>1 DEF HpNodes
<1>4. \A h : h \in Http!Clients(nodes) <=> \E a \in HpNodes(nodes) : a.client = h
  BY Zenon DEF Http!Clients, HpNodes
<1>5. Http!Clients(nodes) \subseteq Handles
  BY <1>1 DEF Http!Clients, Http!Node
<1>6. \A a, b \in HpNodes(nodes) : a.client = b.client => a = b
  BY DEF HpListed, HpNodes
<1>7. \A h \in Http!Clients(nodes) : Http!Where(nodes, h) \in DOMAIN nodes /\ nodes[Http!Where(nodes, h)].client = h
  BY DEF Http!Clients, Http!Where
<1> QED BY <1>1, <1>2, <1>3, <1>4, <1>5, <1>6, <1>7

LEMMA HpWithout ==
  ASSUME NEW f, NEW gone
  PROVE  /\ DOMAIN Http!Without(f, gone) = DOMAIN f \ gone
         /\ \A h \in DOMAIN f \ gone : Http!Without(f, gone)[h] = f[h]
  BY DEF Http!Without

LEMMA HpDrops ==
  ASSUME HpPool, NEW gone, at' = Http!Without(at, gone)
  PROVE  /\ Http!alive' = Http!alive \ gone /\ Http!alive' \subseteq Handles /\ at' \in [Http!alive' -> Hosts]
         /\ \A h \in Http!alive' : at'[h] = at[h]
<1>1. Http!alive' = Http!alive \ gone
  BY HpWithout DEF Http!alive
<1>2. \A h \in Http!alive' : at'[h] = at[h] /\ at'[h] \in Hosts
  BY <1>1, HpWithout DEF Http!alive, HpPool
<1>3. at' = [h \in Http!alive \ gone |-> at[h]]
  BY DEF Http!Without, Http!alive
<1> QED BY <1>1, <1>2, <1>3 DEF HpPool

LEMMA HpResting == HpTask(Http!Resting) /\ Http!Resting.h = NoHandle /\ Http!Resting.pc = "idle" /\ Http!Resting.hit = FALSE
                   /\ Http!Resting.again = 0 /\ Http!Resting.asked = NoHost
  BY DEF HpTask, Http!Resting, HpUserRecords

(* What the other tasks have stays as it is.                                *)
HpOthers(u, h) ==
  \A v \in Users \ {u} : user[v].h # NoHandle =>
    /\ user[v].h \in Http!alive' /\ at'[user[v].h] = at[user[v].h]
    /\ (user[v].h \in Http!Clients(pool') <=> user[v].h \in Http!Clients(pool))
    /\ user[v].h # h

(* What a task has after its step.                                          *)
HpHas(r) ==
  /\ r.h # NoHandle => r.h \in Http!alive' /\ (r.hit <=> r.h \in Http!Clients(pool'))
  /\ r.pc \in {"new", "ready", "perform"} /\ r.asked # NoHost => at'[r.h] = r.asked

LEMMA HpMoves ==
  ASSUME HpUsers, NEW u \in Users, NEW r, HpTask(r), user' = [user EXCEPT ![u] = r],
         HpOthers(u, r.h), HpHas(r)
  PROVE  HpUsers' /\ \A v \in Users : user'[v] = IF v = u THEN r ELSE user[v]
<1>1. user \in [Users -> HpUserRecords] /\ r \in HpUserRecords
  BY DEF HpUsers, HpTask
<1>2. user' \in [Users -> HpUserRecords] /\ \A v \in Users : user'[v] = IF v = u THEN r ELSE user[v]
  BY <1>1
<1>3. ASSUME NEW v \in Users
      PROVE  /\ HpTask(user'[v])
             /\ user'[v].h # NoHandle => user'[v].h \in Http!alive' /\ (user'[v].hit <=> user'[v].h \in Http!Clients(pool'))
             /\ user'[v].pc \in {"new", "ready", "perform"} /\ user'[v].asked # NoHost =>
                  at'[user'[v].h] = user'[v].asked
  <2>1. CASE v = u
    BY <1>2, <2>1 DEF HpHas
  <2>2. CASE v # u
    <3>1. user'[v] = user[v] /\ HpTask(user[v])
      BY <1>2, <2>2 DEF HpUsers
    <3>2. user[v].pc \in {"new", "ready", "perform"} => user[v].h # NoHandle
      BY <3>1 DEF HpTask
    <3> QED BY <2>2, <3>1, <3>2 DEF HpUsers, HpOthers
  <2> QED BY <2>1, <2>2
<1>4. \A v, w \in Users : user'[v].h = user'[w].h /\ user'[v].h # NoHandle => v = w
  BY <1>2 DEF HpUsers, HpOthers
<1> QED BY <1>2, <1>3, <1>4 DEF HpUsers, HpTask, Http!Resting, HpUserRecords

LEMMA HpStart == Http!HttpReuseAssumption /\ Http!Init => HpInv
<1> SUFFICES ASSUME Http!HttpReuseAssumption, Http!Init PROVE HpInv
  OBVIOUS
<1>1. Http!alive = {} /\ at \in [Http!alive -> Hosts]
  BY DEF Http!Init, Http!alive
<1>2. HpListed(pool) /\ Http!Clients(pool) = {} /\ HpNodes(pool) = {}
  BY DEF Http!Init, HpListed, Http!Clients, HpNodes, Http!HttpReuseAssumption
<1>3. user \in [Users -> HpUserRecords] /\ \A u \in Users : user[u] = Http!Resting
  BY HpResting DEF Http!Init, HpTask
<1>4. HpUsers
  BY <1>3, HpResting DEF HpUsers
<1>5. HpPool /\ HpHeld /\ HpLeases
  BY <1>1, <1>2 DEF HpPool, HpHeld, HpLeases, Http!Init
<1> QED BY <1>4, <1>5 DEF HpInv

(* A task takes a new client; the pool stays.                               *)
LEMMA HpCreated ==
  ASSUME Http!HttpReuseAssumption, HpInv, NEW u \in Users, NEW host \in Hosts, NEW pc \in {"new", "ready"},
         Http!Created(u, host, pc), user[u].h = NoHandle, UNCHANGED <<pool, leases>>
  PROVE  HpInv'
<1>1. PICK h \in Handles \ Http!alive : at' = [x \in Http!alive \cup {h} |-> IF x = h THEN host ELSE at[x]]
                                   /\ Http!Becomes(u, [Http!Resting EXCEPT !.pc = pc, !.h = h, !.asked = host])
  BY DEF Http!Created
<1>2. PICK r : r = [Http!Resting EXCEPT !.pc = pc, !.h = h, !.asked = host]
  OBVIOUS
<1>3. r \in HpUserRecords /\ r.pc = pc /\ r.h = h /\ r.asked = host /\ ~r.hit /\ r.again = 0
  BY <1>2 DEF Http!Resting, HpUserRecords
<1>4. h # NoHandle
  BY DEF Http!HttpReuseAssumption
<1>5. HpTask(r)
  BY <1>3, <1>4 DEF HpTask
<1>6. Http!alive' = Http!alive \cup {h} /\ at'[h] = host /\ \A g \in Http!alive : at'[g] = at[g]
  BY <1>1 DEF Http!alive
<1>7. at' \in [Http!alive' -> Hosts] /\ Http!alive' \subseteq Handles
  <2> QED BY <1>1, <1>6 DEF HpInv, HpPool
<1>8. UNCHANGED pool /\ UNCHANGED leases
  OBVIOUS
<1>9. HpPool'
  BY <1>6, <1>7, <1>8 DEF HpInv, HpPool, HpListed, Http!Clients
<1>10. h \notin Http!Clients(pool) /\ \A v \in Users : user[v].h # h
  BY <1>4 DEF HpInv, HpPool, HpUsers
<1>11. HpOthers(u, h)
  <2>1. Http!Clients(pool') = Http!Clients(pool)
    BY <1>8
  <2> QED BY <1>6, <1>10, <2>1 DEF HpInv, HpUsers, HpOthers
<1>12. HpUsers' /\ \A v \in Users : user'[v] = IF v = u THEN r ELSE user[v]
  <2>1. user' = [user EXCEPT ![u] = r]
    BY <1>1, <1>2 DEF Http!Becomes
  <2>2. Http!Clients(pool') = Http!Clients(pool)
    BY <1>8
  <2>3. HpHas(r)
    BY <1>3, <1>6, <1>10, <2>2 DEF HpHas
  <2> QED BY <1>3, <1>5, <1>11, <2>1, <2>3, HpMoves DEF HpInv
<1>13. HpHeld'
  <2>1. ASSUME NEW a \in HpNodes(pool)
        PROVE  /\ a.leased <=> \E v \in Users : user'[v].h = a.client
               /\ \A v \in Users : user'[v].h = a.client /\ a.reused => user'[v].again = 0 /\ user'[v].pc # "retry"
    <3>1. a.client # h /\ a.client # NoHandle
      BY <1>10, HpClients DEF HpInv, HpPool, Http!HttpReuseAssumption
    <3>2. \A v \in Users : user'[v].h = a.client <=> user[v].h = a.client
      BY <1>3, <1>12, <3>1
    <3>3. \A v \in Users : user'[v].h = a.client => user'[v] = user[v]
      BY <1>3, <1>12, <3>1
    <3> QED BY <3>2, <3>3 DEF HpInv, HpHeld
  <2>2. HpNodes(pool') = HpNodes(pool)
    BY <1>8
  <2> QED BY <2>1, <2>2 DEF HpHeld, HpNodes
<1>14. HpLeases'
  <2>1. \A l \in leases : \E v \in Users : user'[v].h = l.client /\ user'[v].pc # "insert"
    <3> SUFFICES ASSUME NEW l \in leases PROVE \E v \in Users : user'[v].h = l.client /\ user'[v].pc # "insert"
      OBVIOUS
    <3>1. PICK v \in Users : user[v].h = l.client /\ user[v].pc # "insert"
      BY DEF HpInv, HpLeases
    <3>2. l.client # NoHandle
      BY DEF HpInv, HpLeases, Http!Lease, Http!HttpReuseAssumption
    <3> QED BY <1>12, <3>1, <3>2
  <2> QED BY <1>8, <2>1 DEF HpInv, HpLeases, Http!Clients
<1> QED BY <1>9, <1>12, <1>13, <1>14 DEF HpInv

(* A step of task u that leaves it at r and changes the pool to `nodes':    *)
(* only the clients of u, before or after, are touched.                     *)
HpFits(u, r, nodes) ==
  /\ Http!Clients(nodes) \subseteq Http!Clients(pool) \cup ({user[u].h} \ {NoHandle})
  /\ \A a \in HpNodes(pool) : a.leased /\ a.client # user[u].h => a \in HpNodes(nodes)
  /\ \A a \in HpNodes(nodes) : a \notin HpNodes(pool) => a.client \in {user[u].h, r.h}
  /\ \A a \in HpNodes(nodes) : a.client \in {user[u].h, r.h} =>
       /\ a.leased <=> a.client = r.h
       /\ a.client = r.h /\ a.reused => r.again = 0 /\ r.pc # "retry"
  /\ r.h # NoHandle => r.hit /\ r.h \in Http!Clients(nodes) /\ \A v \in Users \ {u} : user[v].h # r.h
  /\ r.pc \in {"new", "ready", "perform"} /\ r.asked # NoHost => at[r.h] = r.asked

LEMMA HpPoolStep ==
  ASSUME Http!HttpReuseAssumption, HpInv, NEW u \in Users, NEW r, HpTask(r), user' = [user EXCEPT ![u] = r],
         NEW nodes, HpListed(nodes), NEW gone, Http!PoolBecomes(nodes, gone), HpFits(u, r, nodes),
         gone \subseteq {user[u].h}, gone \cap (Http!Clients(nodes) \cup {r.h}) = {},
         leases' \subseteq {l \in leases : l.client # user[u].h}
  PROVE  HpInv'
<1>1. pool' = nodes /\ at' = Http!Without(at, (Http!Clients(pool) \ Http!Clients(nodes)) \cup gone)
  BY DEF Http!PoolBecomes
<1>2. HpPool /\ HpUsers /\ HpHeld /\ HpLeases
  BY DEF HpInv
<1>3. /\ Http!alive' = Http!alive \ ((Http!Clients(pool) \ Http!Clients(nodes)) \cup gone) /\ Http!alive' \subseteq Handles
      /\ at' \in [Http!alive' -> Hosts] /\ \A h \in Http!alive' : at'[h] = at[h]
  BY <1>1, <1>2, HpDrops
<1>4. NoHandle \notin Handles
  BY DEF Http!HttpReuseAssumption
<1>5. HpListed(pool) /\ Http!Clients(pool) \subseteq Http!alive /\ Http!alive \subseteq Handles
  BY <1>2 DEF HpPool
<1>6. /\ \A h : h \in Http!Clients(pool) <=> \E a \in HpNodes(pool) : a.client = h
      /\ \A h : h \in Http!Clients(nodes) <=> \E a \in HpNodes(nodes) : a.client = h
      /\ HpNodes(nodes) \subseteq Http!Node /\ Http!Clients(nodes) \subseteq Handles
  BY <1>5, HpClients
<1>7. Http!Clients(nodes) \subseteq Http!alive'
  <2>1. user[u].h # NoHandle => user[u].h \in Http!alive
    BY <1>2 DEF HpUsers
  <2> QED BY <1>3, <1>5, <2>1 DEF HpFits
<1>8. HpPool'
  BY <1>1, <1>3, <1>7 DEF HpPool, Http!Clients, HpListed
<1>9. ASSUME NEW v \in Users \ {u}, user[v].h # NoHandle
      PROVE  /\ user[v].h \in Http!alive' /\ at'[user[v].h] = at[user[v].h]
             /\ (user[v].h \in Http!Clients(nodes) <=> user[v].h \in Http!Clients(pool))
             /\ user[v].h # r.h /\ user[v].h # user[u].h
  <2>1. user[v].h # user[u].h /\ user[v].h # r.h /\ user[v].h \in Http!alive
    BY <1>2, <1>9 DEF HpUsers, HpFits
  <2>2. user[v].h \in Http!Clients(pool) => user[v].h \in Http!Clients(nodes)
    <3>1. SUFFICES ASSUME user[v].h \in Http!Clients(pool) PROVE user[v].h \in Http!Clients(nodes)
      OBVIOUS
    <3>2. PICK a \in HpNodes(pool) : a.client = user[v].h
      BY <1>6, <3>1
    <3>3. a.leased
      BY <1>2, <3>2 DEF HpHeld
    <3>4. a \in HpNodes(nodes)
      BY <2>1, <3>2, <3>3 DEF HpFits
    <3> QED BY <1>6, <3>2, <3>4
  <2>3. user[v].h \in Http!Clients(nodes) => user[v].h \in Http!Clients(pool)
    BY <2>1 DEF HpFits
  <2> QED BY <1>3, <2>1, <2>2, <2>3
<1>10. HpOthers(u, r.h)
  BY <1>1, <1>9 DEF HpOthers
<1>11. HpHas(r)
  BY <1>1, <1>3, <1>4, <1>6, <1>7 DEF HpHas, HpFits, HpTask
<1>12. HpUsers' /\ \A v \in Users : user'[v] = IF v = u THEN r ELSE user[v]
  <2>1. HpUsers /\ HpTask(r)
    BY <1>2
  <2>2. user' = [user EXCEPT ![u] = r]
    OBVIOUS
  <2> QED BY ONLY u \in Users, <1>10, <1>11, <2>1, <2>2, HpMoves
<1>13. ASSUME NEW a \in HpNodes(nodes)
       PROVE  /\ a.leased <=> \E v \in Users : user'[v].h = a.client
              /\ \A v \in Users : user'[v].h = a.client /\ a.reused => user'[v].again = 0 /\ user'[v].pc # "retry"
  <2>1. a.client # NoHandle
    BY <1>4, <1>6
  <2>2. CASE a.client \in {user[u].h, r.h}
    <3>1. /\ a.leased <=> a.client = r.h
          /\ a.client = r.h /\ a.reused => r.again = 0 /\ r.pc # "retry"
      BY <2>2 DEF HpFits
    <3>2. \A v \in Users : user'[v].h = a.client <=> v = u /\ a.client = r.h
      BY <1>9, <1>12, <2>1, <2>2
    <3> QED BY <1>12, <3>1, <3>2
  <2>3. CASE a.client \notin {user[u].h, r.h}
    <3>1. a \in HpNodes(pool)
      BY <2>3 DEF HpFits
    <3>2. \A v \in Users : user'[v].h = a.client <=> user[v].h = a.client
      BY <1>12, <2>3
    <3>3. \A v \in Users : user'[v].h = a.client => user'[v] = user[v]
      BY <1>12, <2>3
    <3> QED BY <1>2, <3>1, <3>2, <3>3 DEF HpHeld
  <2> QED BY <2>2, <2>3
<1>14. HpHeld'
  BY <1>1, <1>13 DEF HpHeld, HpNodes
<1>15. ASSUME NEW l \in leases'
       PROVE  /\ l \in Http!Lease /\ l.client \notin Http!Clients(nodes)
              /\ \E v \in Users : user'[v].h = l.client /\ user'[v].pc # "insert"
  <2>1. l \in leases /\ l.client # user[u].h
    OBVIOUS
  <2>2. PICK v \in Users : user[v].h = l.client /\ user[v].pc # "insert"
    BY <1>2, <2>1 DEF HpLeases
  <2>3. v # u
    BY <2>1, <2>2
  <2>4. l \in Http!Lease /\ l.client \notin Http!Clients(pool)
    BY <1>2, <2>1 DEF HpLeases
  <2>5. l.client \notin Http!Clients(nodes)
    BY <2>1, <2>4 DEF HpFits
  <2> QED BY <1>12, <2>2, <2>3, <2>4, <2>5
<1>16. HpLeases'
  BY <1>1, <1>15 DEF HpLeases, Http!Clients
<1> QED BY <1>8, <1>12, <1>14, <1>16 DEF HpInv

(* A step of task u that leaves the pool alone and keeps its client, which  *)
(* may be set to another host.                                              *)
HpGoesOn(u, r) ==
  /\ user[u].h # NoHandle /\ HpTask(r) /\ r.h = user[u].h /\ r.hit = user[u].hit
  /\ user' = [user EXCEPT ![u] = r] /\ UNCHANGED pool
  /\ at' = at \/ \E host \in Hosts : at' = [at EXCEPT ![user[u].h] = host]
  /\ r.pc \in {"new", "ready", "perform"} /\ r.asked # NoHost => at'[r.h] = r.asked
  /\ \A a \in HpNodes(pool) : a.client = r.h /\ a.reused => r.again = 0 /\ r.pc # "retry"

LEMMA HpUses ==
  ASSUME Http!HttpReuseAssumption, HpInv, NEW u \in Users, NEW r, HpGoesOn(u, r)
  PROVE  /\ HpPool' /\ HpUsers' /\ HpHeld'
         /\ \A v \in Users : user'[v] = IF v = u THEN r ELSE user[v]
<1>0. /\ user[u].h # NoHandle /\ HpTask(r) /\ r.h = user[u].h /\ r.hit = user[u].hit
      /\ user' = [user EXCEPT ![u] = r] /\ UNCHANGED pool
      /\ at' = at \/ \E host \in Hosts : at' = [at EXCEPT ![user[u].h] = host]
      /\ r.pc \in {"new", "ready", "perform"} /\ r.asked # NoHost => at'[r.h] = r.asked
      /\ \A a \in HpNodes(pool) : a.client = r.h /\ a.reused => r.again = 0 /\ r.pc # "retry"
  BY DEF HpGoesOn
<1>1. HpPool /\ HpUsers /\ HpHeld
  BY DEF HpInv
<1>2. user[u].h \in Http!alive
  BY <1>0, <1>1 DEF HpUsers
<1>3. Http!alive' = Http!alive /\ at' \in [Http!alive' -> Hosts] /\ \A h \in Http!alive : h # user[u].h => at'[h] = at[h]
  BY <1>0, <1>1, <1>2 DEF Http!alive, HpPool
<1>4. Http!Clients(pool') = Http!Clients(pool)
  BY <1>0
<1>5. HpPool'
  BY <1>0, <1>1, <1>3, <1>4 DEF HpPool, HpListed, Http!Clients
<1>6. HpOthers(u, r.h)
  BY <1>0, <1>1, <1>3, <1>4 DEF HpUsers, HpOthers
<1>7. HpHas(r)
  BY <1>0, <1>1, <1>2, <1>3, <1>4 DEF HpUsers, HpHas
<1>8. HpUsers' /\ \A v \in Users : user'[v] = IF v = u THEN r ELSE user[v]
  BY <1>0, <1>1, <1>6, <1>7, HpMoves
<1>9. HpHeld'
  <2>1. \A v \in Users : user'[v].h = user[v].h
    BY <1>0, <1>8
  <2>2. ASSUME NEW a \in HpNodes(pool)
        PROVE  /\ a.leased <=> \E v \in Users : user'[v].h = a.client
               /\ \A v \in Users : user'[v].h = a.client /\ a.reused => user'[v].again = 0 /\ user'[v].pc # "retry"
    BY <1>0, <1>1, <1>8, <2>1 DEF HpHeld
  <2> QED BY <1>0, <2>2 DEF HpHeld, HpNodes
<1> QED BY <1>5, <1>8, <1>9

LEMMA HpOf ==
  ASSUME Http!HttpReuseAssumption, HpInv, NEW u \in Users
  PROVE  /\ user[u] \in HpUserRecords /\ HpTask(user[u])
         /\ user[u].h # NoHandle => user[u].h \in Http!alive /\ user[u].h \in Handles
                                    /\ (user[u].hit <=> user[u].h \in Http!Clients(pool))
         /\ HpListed(pool) /\ Http!Clients(pool) \subseteq Http!alive /\ Http!Clients(pool) \subseteq Handles
         /\ NoHandle \notin Handles /\ NoHost \notin Hosts
         /\ \A l \in leases : l \in Http!Lease /\ l.client \notin Http!Clients(pool)
         /\ \A v \in Users : user[v].h = user[u].h /\ user[u].h # NoHandle => v = u
  BY DEF HpInv, HpPool, HpUsers, HpLeases, Http!HttpReuseAssumption

LEMMA HpInitBypass ==
  ASSUME Http!HttpReuseAssumption, HpInv, NEW u \in Users, Http!InitBypass(u) PROVE HpInv'
<1>1. user[u].h = NoHandle
  BY HpOf DEF Http!InitBypass, Http!At, HpTask
<1>2. PICK host \in Hosts : Http!Created(u, host, "ready")
  BY DEF Http!InitBypass
<1>3. UNCHANGED <<pool, leases>>
  BY DEF Http!InitBypass
<1> QED BY <1>1, <1>2, <1>3, HpCreated

(* A task without a client gives up or goes on without one.                 *)
LEMMA HpIdles ==
  ASSUME Http!HttpReuseAssumption, HpInv, NEW u \in Users, user[u].h = NoHandle, NEW r, HpTask(r), r.h = NoHandle,
         user' = [user EXCEPT ![u] = r], UNCHANGED <<at, pool, leases>>
  PROVE  HpInv'
<1>1. PICK nodes : nodes = pool
  OBVIOUS
<1>2. HpListed(nodes) /\ NoHandle \notin Handles
  BY <1>1, HpOf
<1>3. Http!PoolBecomes(nodes, {})
  <2>1. (Http!Clients(pool) \ Http!Clients(nodes)) \cup {} = {}
    BY <1>1
  <2>2. Http!Without(at, {}) = at
    <3>1. at \in [DOMAIN at -> Hosts] /\ DOMAIN at \ {} = DOMAIN at
      BY DEF HpInv, HpPool, Http!alive
    <3> QED BY <3>1 DEF Http!Without
  <2> QED BY <1>1, <2>1, <2>2 DEF Http!PoolBecomes
<1>4. \A a \in HpNodes(nodes) : a.client # NoHandle
  BY <1>2, HpClients DEF Http!Node
<1>5. r.pc \notin {"new", "ready", "perform"}
  BY DEF HpTask
<1>6. HpFits(u, r, nodes)
  BY <1>1, <1>4, <1>5 DEF HpFits
<1>7. leases' \subseteq {l \in leases : l.client # user[u].h}
  BY <1>2, HpOf DEF Http!Lease
<1>8. {} \subseteq {user[u].h} /\ {} \cap (Http!Clients(nodes) \cup {r.h}) = {}
  OBVIOUS
<1> QED BY <1>2, <1>3, <1>6, <1>7, <1>8, HpPoolStep

LEMMA HpInitReal ==
  ASSUME Http!HttpReuseAssumption, HpInv, NEW u \in Users, Http!InitReal(u) PROVE HpInv'
<1>1. user[u].h = NoHandle /\ user[u].asked \in Hosts
  BY HpOf DEF Http!InitReal, Http!At, HpTask
<1>2. UNCHANGED <<pool, leases>>
  BY DEF Http!InitReal
<1>3. CASE Http!Created(u, user[u].asked, "new")
  BY <1>1, <1>2, <1>3, HpCreated
<1>4. CASE Http!Becomes(u, Http!Resting) /\ UNCHANGED at
  BY <1>1, <1>2, <1>4, HpIdles, HpResting DEF Http!Becomes
<1> QED BY <1>3, <1>4 DEF Http!InitReal

LEMMA HpPoolTake ==
  ASSUME Http!HttpReuseAssumption, HpInv, NEW u \in Users, Http!PoolTake(u) PROVE HpInv'
<1>1. user[u] = Http!Resting /\ user[u].h = NoHandle
  BY HpOf, HpResting DEF Http!PoolTake, Http!At, HpTask
<1>2. PICK host, nodes, fits, i :
        /\ host \in Hosts
        /\ nodes = Http!Reaped(pool) /\ fits = Http!Fitting(nodes, host) /\ i = Http!Least(fits)
        /\ IF fits = {}
           THEN /\ Http!PoolBecomes(nodes, {})
                /\ Http!Becomes(u, [Http!Resting EXCEPT !.pc = "miss", !.asked = host])
           ELSE \/ /\ Http!PoolBecomes([nodes EXCEPT ![i] = Http!HandedOut(@)], {})
                   /\ Http!Becomes(u, [Http!Resting EXCEPT !.pc = "hit", !.asked = host, !.hit = TRUE,
                                                 !.h = nodes[i].client])
                \/ /\ Http!PoolBecomes(Http!RemoveAt(nodes, i), {})
                   /\ Http!Becomes(u, [Http!Resting EXCEPT !.pc = "miss", !.asked = host])
  BY DEF Http!PoolTake
<1>20. host \in Hosts
  BY <1>2
<1>3. UNCHANGED leases
  BY DEF Http!PoolTake
<1>4. HpListed(pool) /\ NoHandle \notin Handles
  BY HpOf
<1>5. HpListed(nodes) /\ HpNodes(nodes) = {a \in HpNodes(pool) : ~Http!Expired(a)}
  BY <1>2, <1>4, HpReaped
<1>6. /\ \A a \in HpNodes(pool) : a.leased => a \in HpNodes(nodes)
      /\ Http!Clients(nodes) \subseteq Http!Clients(pool)
  <2>1. \A a \in HpNodes(pool) : a.leased => ~Http!Expired(a)
    BY DEF Http!Expired
  <2>2. Http!Clients(nodes) \subseteq Http!Clients(pool)
    BY <1>4, <1>5, HpClients
  <2> QED BY <1>5, <2>1, <2>2
<1>7. leases' \subseteq {l \in leases : l.client # user[u].h}
  BY <1>1, <1>3, <1>4, HpOf DEF Http!Lease
<1>8. ASSUME NEW r, r = [Http!Resting EXCEPT !.pc = "miss", !.asked = host], Http!Becomes(u, r)
      PROVE  HpTask(r) /\ r.h = NoHandle /\ user' = [user EXCEPT ![u] = r] /\ r.pc = "miss"
  <2>1. /\ r \in HpUserRecords /\ r.pc = "miss" /\ r.h = NoHandle /\ r.hit = FALSE /\ r.again = 0
        /\ r.asked = host
    BY <1>8, <1>20 DEF Http!Resting, HpUserRecords
  <2> QED BY <1>8, <1>20, <2>1 DEF HpTask, Http!Becomes
<1>9. ASSUME NEW left, HpListed(left), NEW r, HpTask(r), r.h = NoHandle, r.pc = "miss", user' = [user EXCEPT ![u] = r],
             HpNodes(left) \subseteq HpNodes(nodes), Http!PoolBecomes(left, {}),
             \A a \in HpNodes(nodes) : a.leased => a \in HpNodes(left)
      PROVE  HpInv'
  <2>1. Http!Clients(left) \subseteq Http!Clients(pool)
    BY <1>4, <1>5, <1>9, HpClients
  <2>2. \A a \in HpNodes(left) : a.client # NoHandle
    BY <1>4, <1>9, HpClients DEF Http!Node
  <2>3. HpFits(u, r, left)
    BY <1>1, <1>5, <1>6, <1>9, <2>1, <2>2 DEF HpFits
  <2>4. {} \subseteq {user[u].h} /\ {} \cap (Http!Clients(left) \cup {r.h}) = {}
    OBVIOUS
  <2> QED BY <1>7, <1>9, <2>3, <2>4, HpPoolStep
<1>10. CASE fits = {}
  <2>1. PICK r : r = [Http!Resting EXCEPT !.pc = "miss", !.asked = host]
    OBVIOUS
  <2>2. Http!Becomes(u, r) /\ Http!PoolBecomes(nodes, {})
    BY <1>2, <1>10, <2>1
  <2> QED BY <1>5, <1>8, <1>9, <2>1, <2>2
<1>11. CASE fits # {}
  <2>1. fits \subseteq Nat /\ fits \subseteq DOMAIN nodes
    BY <1>2, <1>5 DEF Http!Fitting, HpListed
  <2>2. i \in DOMAIN nodes /\ ~nodes[i].leased /\ nodes[i] \in HpNodes(nodes)
    <3>1. i \in fits
      BY <1>2, <1>11, <2>1, HpLeastIs
    <3> QED BY <1>2, <1>5, <3>1, HpClients DEF Http!Fitting
  <2>3. CASE /\ Http!PoolBecomes(Http!RemoveAt(nodes, i), {})
             /\ Http!Becomes(u, [Http!Resting EXCEPT !.pc = "miss", !.asked = host])
    <3>1. PICK r, left : r = [Http!Resting EXCEPT !.pc = "miss", !.asked = host] /\ left = Http!RemoveAt(nodes, i)
      OBVIOUS
    <3>2. Http!Becomes(u, r) /\ Http!PoolBecomes(left, {})
      BY <2>3, <3>1
    <3>3. HpListed(left) /\ HpNodes(left) = HpNodes(nodes) \ {nodes[i]}
      BY <1>5, <2>2, <3>1, HpRemoved
    <3> QED BY <1>8, <1>9, <2>2, <3>1, <3>2, <3>3
  <2>4. CASE /\ Http!PoolBecomes([nodes EXCEPT ![i] = Http!HandedOut(@)], {})
             /\ Http!Becomes(u, [Http!Resting EXCEPT !.pc = "hit", !.asked = host, !.hit = TRUE,
                                           !.h = nodes[i].client])
    <3>1. PICK r, a, left : /\ r = [Http!Resting EXCEPT !.pc = "hit", !.asked = host, !.hit = TRUE,
                                                   !.h = nodes[i].client]
                            /\ a = Http!HandedOut(nodes[i]) /\ left = [nodes EXCEPT ![i] = a]
      OBVIOUS
    <3>2. user' = [user EXCEPT ![u] = r] /\ Http!PoolBecomes(left, {})
      BY <2>4, <3>1 DEF Http!Becomes
    <3>3. nodes[i] \in Http!Node
      BY <1>5, <2>2, HpClients
    <3>4. a \in Http!Node /\ a.client = nodes[i].client /\ a.leased = TRUE
      <4>1. 0 \in 0..IdleTimeout
        BY DEF Http!HttpReuseAssumption
      <4> QED BY <3>1, <3>3, <4>1 DEF Http!HandedOut, Http!Node
    <3>5. /\ HpListed(left)
          /\ \A b : b \in HpNodes(left) <=> b = a \/ (b \in HpNodes(nodes) /\ b # nodes[i])
      <4>1. HpListed(nodes)
        BY <1>5
      <4>2. i \in DOMAIN nodes
        BY <2>2
      <4>3. left = [nodes EXCEPT ![i] = a]
        BY <3>1
      <4>4. a \in Http!Node
        BY <3>4
      <4>5. a.client = nodes[i].client
        BY <3>4
      <4> QED BY <4>1, <4>2, <4>3, <4>4, <4>5, HpReplaced
    <3>6. a.client \in Handles /\ a.client # NoHandle
      BY <1>4, <3>4 DEF Http!Node
    <3>7. r \in HpUserRecords /\ r.pc = "hit" /\ r.hit = TRUE /\ r.h = a.client /\ r.again = 0 /\ r.asked = host
      BY <1>20, <3>1, <3>4, <3>6 DEF Http!Resting, HpUserRecords
    <3>8. HpTask(r)
      BY <1>20, <3>6, <3>7 DEF HpTask
    <3>9. Http!Clients(left) \subseteq Http!Clients(pool) /\ a.client \in Http!Clients(left)
      <4>1. nodes[i] \in HpNodes(pool)
        BY <1>5, <2>2
      <4> QED BY <1>4, <1>5, <3>4, <3>5, <4>1, HpClients
    <3>10. \A v \in Users \ {u} : user[v].h # r.h
      <4>1. nodes[i] \in HpNodes(pool)
        BY <1>5, <2>2
      <4> QED BY <2>2, <3>4, <3>7, <4>1 DEF HpInv, HpHeld
    <3>11. \A b \in HpNodes(left) : b.client # NoHandle /\ (b.client = r.h => b = a)
      <4>1. \A b, c \in HpNodes(left) : b.client = c.client => b = c
        BY <3>5, HpClients
      <4>2. \A b \in HpNodes(left) : b.client \in Handles
        BY <3>5, HpClients DEF Http!Node
      <4> QED BY <1>4, <3>5, <3>7, <4>1, <4>2
    <3>12. HpFits(u, r, left)
      <4>1. \A b \in HpNodes(pool) : b.leased /\ b.client # user[u].h => b \in HpNodes(left)
        BY <1>6, <2>2, <3>5
      <4>2. \A b \in HpNodes(left) : b \notin HpNodes(pool) => b.client \in {user[u].h, r.h}
        BY <1>5, <3>5, <3>7
      <4>3. \A b \in HpNodes(left) : b.client \in {user[u].h, r.h} =>
              /\ b.leased <=> b.client = r.h
              /\ b.client = r.h /\ b.reused => r.again = 0 /\ r.pc # "retry"
        BY <1>1, <3>4, <3>7, <3>11
      <4> QED BY <3>7, <3>9, <3>10, <4>1, <4>2, <4>3 DEF HpFits
    <3>13. {} \subseteq {user[u].h} /\ {} \cap (Http!Clients(left) \cup {r.h}) = {}
      OBVIOUS
    <3> QED BY <1>7, <3>2, <3>5, <3>8, <3>12, <3>13, HpPoolStep
  <2> QED BY <1>2, <1>11, <2>3, <2>4
<1> QED BY <1>10, <1>11

(* The node of a client, and what its task has.                             *)
LEMMA HpNodeOf ==
  ASSUME Http!HttpReuseAssumption, HpInv, NEW u \in Users, user[u].h \in Http!Clients(pool), NEW i, i = Http!Where(pool, user[u].h)
  PROVE  /\ i \in DOMAIN pool /\ pool[i] \in Http!Node /\ pool[i].client = user[u].h /\ pool[i] \in HpNodes(pool)
         /\ \A a \in HpNodes(pool) : a.client = user[u].h => a = pool[i]
         /\ pool[i].leased = TRUE /\ user[u].h # NoHandle
         /\ pool[i].reused => user[u].again = 0
<1>1. HpListed(pool) /\ NoHandle \notin Handles
  BY HpOf
<1>2. i \in DOMAIN pool /\ pool[i].client = user[u].h
  BY <1>1, HpClients
<1>3. pool[i] \in Http!Node /\ pool[i] \in HpNodes(pool)
  BY <1>1, <1>2, HpClients
<1>4. \A a \in HpNodes(pool) : a.client = user[u].h => a = pool[i]
  BY <1>1, <1>2, <1>3, HpClients
<1>5. pool[i].leased /\ (pool[i].reused => user[u].again = 0)
  BY <1>2, <1>3 DEF HpInv, HpHeld
<1>6. pool[i].leased = TRUE /\ user[u].h # NoHandle
  BY <1>1, <1>2, <1>3, <1>5 DEF Http!Node
<1> QED BY <1>2, <1>3, <1>4, <1>5, <1>6

LEMMA HpSet ==
  ASSUME Http!HttpReuseAssumption, HpInv, NEW u \in Users, Http!SetUrl(u) PROVE HpInv'
<1> DEFINE r == [user[u] EXCEPT !.pc = "ready"]
<1>1. /\ user[u].pc = "hit" /\ at' = [at EXCEPT ![user[u].h] = user[u].asked]
      /\ user' = [user EXCEPT ![u] = r] /\ UNCHANGED <<pool, leases>>
  BY DEF Http!SetUrl, Http!At, Http!Goto, Http!Becomes
<1>2. /\ user[u] \in HpUserRecords /\ HpTask(user[u]) /\ user[u].h # NoHandle /\ user[u].hit
      /\ user[u].asked \in Hosts /\ user[u].h \in Http!alive /\ user[u].h \in Http!Clients(pool)
  BY <1>1, HpOf DEF HpTask
<1>3. /\ r \in HpUserRecords /\ r.pc = "ready" /\ r.h = user[u].h /\ r.hit = user[u].hit
      /\ r.asked = user[u].asked /\ r.again = user[u].again
  BY <1>2 DEF HpUserRecords
<1> HIDE DEF r
<1>4. HpTask(r)
  BY <1>2, <1>3 DEF HpTask
<1>5. at'[r.h] = r.asked
  BY <1>1, <1>2, <1>3 DEF Http!alive
<1>6. \A a \in HpNodes(pool) : a.client = r.h /\ a.reused => r.again = 0 /\ r.pc # "retry"
  BY <1>3 DEF HpInv, HpHeld
<1>7. PICK host \in Hosts : host = user[u].asked
  BY <1>2
<1>8. at' \in {at, [at EXCEPT ![user[u].h] = host]} /\ UNCHANGED pool
  BY <1>1, <1>7
<1>9. /\ HpPool' /\ HpUsers' /\ HpHeld'
      /\ \A v \in Users : user'[v] = IF v = u THEN r ELSE user[v]
  <2>1. HpGoesOn(u, r)
    BY <1>1, <1>2, <1>3, <1>4, <1>5, <1>6, <1>8 DEF HpGoesOn
  <2> QED BY <2>1, HpUses
<1>10. HpLeases'
  <2>1. \A v \in Users : user[v].pc # "insert" => user'[v].pc # "insert" /\ user'[v].h = user[v].h
    BY <1>3, <1>9
  <2>2. leases' = leases /\ Http!Clients(pool') = Http!Clients(pool) /\ HpLeases
    BY <1>1 DEF HpInv
  <2> QED BY <2>1, <2>2 DEF HpLeases, Http!Clients
<1> QED BY <1>9, <1>10 DEF HpInv

(* A request is sent, and may lead to another host.                         *)
LEMMA HpSent ==
  ASSUME Http!HttpReuseAssumption, HpInv, NEW u \in Users, Http!PerformReal(u) \/ Http!PerformAgain(u) PROVE HpInv'
<1>1. PICK host, open, pc, n, r :
        /\ host \in Hosts /\ open \in BOOLEAN /\ pc \in {"ready", "failed"} /\ n \in {0, 1}
        /\ at' = [at EXCEPT ![user[u].h] = host] /\ UNCHANGED <<pool, leases>>
        /\ r = [user[u] EXCEPT !.pc = pc, !.asked = NoHost, !.again = @ + n, !.open = open]
        /\ user' = [user EXCEPT ![u] = r]
        /\ \/ user[u].pc = "perform" /\ n = 0
           \/ user[u].pc = "retry" /\ n = 1 /\ pc = "ready"
  <2>1. CASE Http!PerformReal(u)
    <3>1. PICK host \in Hosts, open \in BOOLEAN, pc \in {"ready", "failed"} :
            /\ at' = [at EXCEPT ![user[u].h] = host]
            /\ Http!Becomes(u, [user[u] EXCEPT !.pc = pc, !.asked = NoHost, !.again = @ + 0, !.open = open])
      BY <2>1 DEF Http!PerformReal, Http!Sent
    <3>2. user[u].pc = "perform" /\ UNCHANGED <<pool, leases>>
      BY <2>1 DEF Http!PerformReal, Http!At, Http!Sent
    <3> QED BY <3>1, <3>2 DEF Http!Becomes
  <2>2. CASE Http!PerformAgain(u)
    <3>1. PICK host \in Hosts, open \in BOOLEAN, pc \in {"ready"} :
            /\ at' = [at EXCEPT ![user[u].h] = host]
            /\ Http!Becomes(u, [user[u] EXCEPT !.pc = pc, !.asked = NoHost, !.again = @ + 1, !.open = open])
      BY <2>2 DEF Http!PerformAgain, Http!Sent
    <3>2. user[u].pc = "retry" /\ UNCHANGED <<pool, leases>>
      BY <2>2 DEF Http!PerformAgain, Http!At, Http!Sent
    <3> QED BY <3>1, <3>2 DEF Http!Becomes
  <2> QED BY <2>1, <2>2
<1>20. host \in Hosts /\ open \in BOOLEAN /\ pc \in {"ready", "failed"} /\ n \in {0, 1}
  BY <1>1
<1>2. user[u] \in HpUserRecords /\ HpTask(user[u]) /\ user[u].h # NoHandle
  BY <1>1, HpOf DEF HpTask
<1>3. user[u].again \in Nat /\ user[u].again <= 1 /\ user[u].again + n \in Nat
  BY <1>2, <1>20 DEF HpUserRecords, HpTask
<1>4. /\ r \in HpUserRecords /\ r.pc = pc /\ r.h = user[u].h /\ r.hit = user[u].hit
      /\ r.asked = NoHost /\ r.again = user[u].again + n
  BY <1>1, <1>2, <1>3 DEF HpUserRecords
<1>5. n = 1 => user[u].again = 0 /\ user[u].hit
  BY <1>1, <1>2 DEF HpTask
<1>6. HpTask(r)
  <2>1. r.again <= 1 /\ (~r.hit => r.again = 0)
    BY <1>2, <1>20, <1>3, <1>4, <1>5 DEF HpTask
  <2> QED BY <1>1, <1>2, <1>4, <2>1 DEF HpTask
<1>7. \A a \in HpNodes(pool) : a.client = r.h /\ a.reused => r.again = 0 /\ r.pc # "retry"
  <2> SUFFICES ASSUME NEW a \in HpNodes(pool), a.client = r.h, a.reused PROVE r.again = 0
    BY <1>1, <1>4
  <2>1. user[u].again = 0 /\ user[u].pc # "retry"
    BY <1>4 DEF HpInv, HpHeld
  <2>2. n = 0
    BY <1>1, <2>1
  <2> QED BY <1>4, <2>1, <2>2
<1>8. at' \in {at, [at EXCEPT ![user[u].h] = host]} /\ UNCHANGED pool
  BY <1>1
<1>9. /\ HpPool' /\ HpUsers' /\ HpHeld'
      /\ \A v \in Users : user'[v] = IF v = u THEN r ELSE user[v]
  <2>1. HpGoesOn(u, r)
    BY <1>1, <1>2, <1>4, <1>6, <1>7, <1>8 DEF HpGoesOn
  <2> QED BY <2>1, HpUses
<1>10. HpLeases'
  <2>1. \A v \in Users : user[v].pc # "insert" => user'[v].pc # "insert" /\ user'[v].h = user[v].h
    BY <1>20, <1>4, <1>9
  <2>2. leases' = leases /\ Http!Clients(pool') = Http!Clients(pool) /\ HpLeases
    BY <1>1 DEF HpInv
  <2> QED BY <2>1, <2>2 DEF HpLeases, Http!Clients
<1> QED BY <1>9, <1>10 DEF HpInv

(* A task goes from one step to the next; the notes may change.             *)
LEMMA HpGoes ==
  ASSUME Http!HttpReuseAssumption, HpInv, NEW u \in Users, user[u].h # NoHandle, NEW pc, Http!Goto(u, pc),
         \/ user[u].pc = "new" /\ pc = "ready"
         \/ user[u].pc = "ready" /\ pc = "perform"
         \/ user[u].pc = "failed" /\ pc = "ready"
         \/ user[u].pc = "ready" /\ pc = "insert" /\ ~user[u].hit,
         UNCHANGED <<at, pool>>
  PROVE  /\ HpPool' /\ HpUsers' /\ HpHeld'
         /\ user' \in [Users -> HpUserRecords]
         /\ \A v \in Users : user'[v].h = user[v].h /\ user'[v].pc = IF v = u THEN pc ELSE user[v].pc
<1>1. PICK r : r = [user[u] EXCEPT !.pc = pc] /\ user' = [user EXCEPT ![u] = r]
  BY DEF Http!Goto, Http!Becomes
<1>2. user[u] \in HpUserRecords /\ HpTask(user[u]) /\ user[u].h \in Http!alive
  BY HpOf
<1>3. /\ r \in HpUserRecords /\ r.pc = pc /\ r.h = user[u].h /\ r.hit = user[u].hit
      /\ r.asked = user[u].asked /\ r.again = user[u].again
  BY <1>1, <1>2 DEF HpUserRecords
<1>4. HpTask(r)
  BY <1>2, <1>3 DEF HpTask
<1>5. \A a \in HpNodes(pool) : a.client = r.h /\ a.reused => r.again = 0 /\ r.pc # "retry"
  BY <1>3 DEF HpInv, HpHeld
<1>6. r.pc \in {"new", "ready", "perform"} /\ r.asked # NoHost => at'[r.h] = r.asked
  BY <1>2, <1>3 DEF HpInv, HpUsers, HpTask
<1>8. /\ HpPool' /\ HpUsers' /\ HpHeld'
      /\ \A v \in Users : user'[v] = IF v = u THEN r ELSE user[v]
  <2>1. HpGoesOn(u, r)
    BY <1>1, <1>3, <1>4, <1>5, <1>6 DEF HpGoesOn
  <2> QED BY <2>1, HpUses
<1> QED BY <1>3, <1>8 DEF HpUsers

LEMMA HpLeaseInsert ==
  ASSUME Http!HttpReuseAssumption, HpInv, NEW u \in Users, Http!LeaseInsert(u) PROVE HpInv'
<1>1. /\ user[u].pc = "new" /\ Http!Goto(u, "ready") /\ UNCHANGED <<at, pool>>
      /\ leases' \in {leases, leases \cup {[client |-> user[u].h, performed |-> FALSE]}}
  BY DEF Http!LeaseInsert, Http!At
<1>2. user[u].h # NoHandle /\ ~user[u].hit /\ user[u].h \in Handles /\ user[u].h \notin Http!Clients(pool)
  BY <1>1, HpOf DEF HpTask
<1>3. /\ HpPool' /\ HpUsers' /\ HpHeld'
      /\ \A v \in Users : user'[v].h = user[v].h /\ user'[v].pc = IF v = u THEN "ready" ELSE user[v].pc
  BY <1>1, <1>2, HpGoes
<1>4. ASSUME NEW l \in leases'
      PROVE  /\ l \in Http!Lease /\ l.client \notin Http!Clients(pool)
             /\ \E v \in Users : user'[v].h = l.client /\ user'[v].pc # "insert"
  <2>1. CASE l \in leases
    BY <1>3, <2>1 DEF HpInv, HpLeases
  <2>2. CASE l = [client |-> user[u].h, performed |-> FALSE]
    BY <1>2, <1>3, <2>2 DEF Http!Lease
  <2> QED BY <1>1, <2>1, <2>2
<1>5. HpLeases'
  BY <1>1, <1>4 DEF HpLeases, Http!Clients
<1> QED BY <1>3, <1>5 DEF HpInv

LEMMA HpPerformMarks ==
  ASSUME Http!HttpReuseAssumption, HpInv, NEW u \in Users, Http!PerformMarks(u) PROVE HpInv'
<1>1. /\ user[u].pc = "ready" /\ Http!Goto(u, "perform") /\ UNCHANGED <<at, pool>>
      /\ leases' = {[l EXCEPT !.performed = @ \/ l.client = user[u].h] : l \in leases}
  BY DEF Http!PerformMarks, Http!At
<1>2. user[u].h # NoHandle
  BY <1>1, HpOf DEF HpTask
<1>3. /\ HpPool' /\ HpUsers' /\ HpHeld'
      /\ \A v \in Users : user'[v].h = user[v].h /\ user'[v].pc = IF v = u THEN "perform" ELSE user[v].pc
  BY <1>1, <1>2, HpGoes
<1>4. ASSUME NEW l \in leases'
      PROVE  /\ l \in Http!Lease /\ l.client \notin Http!Clients(pool)
             /\ \E v \in Users : user'[v].h = l.client /\ user'[v].pc # "insert"
  <2>1. PICK k \in leases : l = [k EXCEPT !.performed = @ \/ k.client = user[u].h]
    BY <1>1
  <2>2. k \in Http!Lease /\ k.client \notin Http!Clients(pool)
        /\ \E v \in Users : user[v].h = k.client /\ user[v].pc # "insert"
    BY DEF HpInv, HpLeases
  <2>3. l.client = k.client /\ l \in Http!Lease
    BY <2>1, <2>2 DEF Http!Lease
  <2> QED BY <1>3, <2>2, <2>3
<1>5. HpLeases'
  BY <1>1, <1>4 DEF HpLeases, Http!Clients
<1> QED BY <1>3, <1>5 DEF HpInv

(* Task u gives its client back to a pool that becomes `nodes'.             *)
LEMMA HpGivesBack ==
  ASSUME Http!HttpReuseAssumption, HpInv, NEW u \in Users, user[u].h # NoHandle, user' = [user EXCEPT ![u] = Http!Resting],
         NEW nodes, HpListed(nodes), NEW gone, Http!PoolBecomes(nodes, gone),
         gone \subseteq {user[u].h} \ Http!Clients(nodes),
         Http!Clients(nodes) \subseteq Http!Clients(pool) \cup {user[u].h},
         \A a \in HpNodes(pool) : a.leased /\ a.client # user[u].h => a \in HpNodes(nodes),
         \A a \in HpNodes(nodes) : a \notin HpNodes(pool) => a.client = user[u].h,
         \A a \in HpNodes(nodes) : a.client = user[u].h => ~a.leased,
         leases' \subseteq {l \in leases : l.client # user[u].h}
  PROVE  HpInv'
<1>1. HpTask(Http!Resting) /\ Http!Resting.h = NoHandle /\ Http!Resting.pc = "idle"
  BY HpResting
<1>2. NoHandle \notin Handles /\ user[u].h \in Handles
  BY HpOf
<1>3. \A a \in HpNodes(nodes) : a.client # NoHandle
  BY <1>2, HpClients DEF Http!Node
<1>4. HpFits(u, Http!Resting, nodes)
  BY <1>1, <1>3 DEF HpFits
<1>5. gone \subseteq {user[u].h} /\ gone \cap (Http!Clients(nodes) \cup {Http!Resting.h}) = {}
  BY <1>1
<1> QED BY <1>1, <1>4, <1>5, HpPoolStep

(* The client of the task leaves the pool and is destroyed.                 *)
LEMMA HpDestroyed ==
  ASSUME Http!HttpReuseAssumption, HpInv, NEW u \in Users, user[u].h \in Http!Clients(pool),
         Http!PoolBecomes(Http!RemoveAt(pool, Http!Where(pool, user[u].h)), {}), user' = [user EXCEPT ![u] = Http!Resting],
         leases' \subseteq leases
  PROVE  HpInv'
<1>1. PICK i, nodes : i = Http!Where(pool, user[u].h) /\ nodes = Http!RemoveAt(pool, i)
  OBVIOUS
<1>2. /\ i \in DOMAIN pool /\ pool[i].client = user[u].h /\ pool[i] \in HpNodes(pool) /\ user[u].h # NoHandle
      /\ \A a \in HpNodes(pool) : a.client = user[u].h => a = pool[i]
  BY <1>1, HpNodeOf
<1>3. HpListed(pool)
  BY HpOf
<1>4. HpListed(nodes) /\ HpNodes(nodes) = HpNodes(pool) \ {pool[i]}
  BY <1>1, <1>2, <1>3, HpRemoved
<1>5. Http!PoolBecomes(nodes, {})
  BY <1>1
<1>6. Http!Clients(nodes) \subseteq Http!Clients(pool) \cup {user[u].h}
  BY <1>3, <1>4, HpClients
<1>7. /\ \A a \in HpNodes(pool) : a.leased /\ a.client # user[u].h => a \in HpNodes(nodes)
      /\ \A a \in HpNodes(nodes) : a \notin HpNodes(pool) => a.client = user[u].h
      /\ \A a \in HpNodes(nodes) : a.client = user[u].h => ~a.leased
  BY <1>2, <1>4
<1>8. leases' \subseteq {l \in leases : l.client # user[u].h} /\ {} \subseteq {user[u].h} \ Http!Clients(nodes)
  BY HpOf
<1> QED BY <1>2, <1>4, <1>5, <1>6, <1>7, <1>8, HpGivesBack

LEMMA HpSetUrlFails ==
  ASSUME Http!HttpReuseAssumption, HpInv, NEW u \in Users, Http!SetUrlFails(u) PROVE HpInv'
<1>1. user[u].h \in Http!Clients(pool)
  BY HpOf DEF Http!SetUrlFails, Http!At, HpTask
<1> QED BY <1>1, HpDestroyed DEF Http!SetUrlFails, Http!Becomes

(* A pool that lists the same clients keeps all that exist.                 *)
LEMMA HpSameClients ==
  ASSUME HpPool, NEW nodes, Http!Clients(nodes) = Http!Clients(pool), pool' = nodes, UNCHANGED at
  PROVE  Http!PoolBecomes(nodes, {})
<1>1. (Http!Clients(pool) \ Http!Clients(nodes)) \cup {} = {}
  OBVIOUS
<1>2. at \in [DOMAIN at -> Hosts] /\ DOMAIN at \ {} = DOMAIN at
  BY DEF HpPool, Http!alive
<1>3. Http!Without(at, {}) = at
  BY <1>2 DEF Http!Without
<1> QED BY <1>1, <1>3 DEF Http!PoolBecomes

LEMMA HpRetryDecision ==
  ASSUME Http!HttpReuseAssumption, HpInv, NEW u \in Users, Http!RetryDecision(u) PROVE HpInv'
<1>1. user[u].pc = "failed" /\ UNCHANGED <<at, leases>>
  BY DEF Http!RetryDecision, Http!At
<1>2. user[u] \in HpUserRecords /\ HpTask(user[u]) /\ user[u].h # NoHandle
  BY <1>1, HpOf DEF HpTask
<1>3. CASE ~Http!IsReused(user[u].h)
  <2>1. Http!Goto(u, "ready") /\ UNCHANGED <<at, pool, leases>>
    BY <1>1, <1>3 DEF Http!RetryDecision
  <2>2. /\ HpPool' /\ HpUsers' /\ HpHeld'
        /\ \A v \in Users : user'[v].h = user[v].h /\ user'[v].pc = IF v = u THEN "ready" ELSE user[v].pc
    BY <1>1, <1>2, <2>1, HpGoes
  <2>3. HpLeases'
    <3>1. \A v \in Users : user[v].pc # "insert" => user'[v].pc # "insert" /\ user'[v].h = user[v].h
      BY <2>2
    <3>2. leases' = leases /\ Http!Clients(pool') = Http!Clients(pool) /\ HpLeases
      BY <2>1 DEF HpInv
    <3> QED BY <3>1, <3>2 DEF HpLeases, Http!Clients
  <2> QED BY <2>2, <2>3 DEF HpInv
<1>4. CASE Http!IsReused(user[u].h)
  <2>1. PICK i, a, r, nodes : /\ i = Http!Where(pool, user[u].h)
                              /\ a = [pool[i] EXCEPT !.reused = FALSE]
                              /\ r = [user[u] EXCEPT !.pc = "retry"]
                              /\ nodes = [pool EXCEPT ![i] = a]
    OBVIOUS
  <2>2. user[u].h \in Http!Clients(pool) /\ pool[i].reused
    BY <1>4, <2>1 DEF Http!IsReused
  <2>3. /\ i \in DOMAIN pool /\ pool[i] \in Http!Node /\ pool[i].client = user[u].h /\ pool[i] \in HpNodes(pool)
        /\ \A b \in HpNodes(pool) : b.client = user[u].h => b = pool[i]
        /\ pool[i].leased = TRUE /\ user[u].again = 0
    BY <2>1, <2>2, HpNodeOf
  <2>4. pool' = nodes /\ user' = [user EXCEPT ![u] = r]
    <3>1. pool' = [pool EXCEPT ![i].reused = FALSE] /\ user' = [user EXCEPT ![u] = r]
      BY <1>4, <2>1 DEF Http!RetryDecision, Http!Goto, Http!Becomes
    <3> QED BY <2>1, <3>1
  <2>5. a \in Http!Node /\ a.client = user[u].h /\ a.leased = TRUE /\ a.reused = FALSE
    BY <2>1, <2>3 DEF Http!Node
  <2>6. HpListed(pool)
    BY HpOf
  <2>7. /\ HpListed(nodes)
        /\ \A b : b \in HpNodes(nodes) <=> b = a \/ (b \in HpNodes(pool) /\ b # pool[i])
    <3>1. PICK p : p = pool
      OBVIOUS
    <3>2. HpListed(p) /\ i \in DOMAIN p /\ a \in Http!Node /\ a.client = p[i].client /\ nodes = [p EXCEPT ![i] = a]
      BY <2>1, <2>3, <2>5, <2>6, <3>1
    <3>3. /\ HpListed(nodes)
          /\ \A b : b \in HpNodes(nodes) <=> b = a \/ (b \in HpNodes(p) /\ b # p[i])
      BY <3>2, HpReplaced
    <3> QED BY <3>1, <3>3
  <2>8. Http!Clients(nodes) = Http!Clients(pool)
    <3>1. \A h : h \in Http!Clients(nodes) <=> h \in Http!Clients(pool)
      BY <2>3, <2>5, <2>6, <2>7, HpClients
    <3> QED BY <3>1 DEF Http!Clients
  <2>9. Http!PoolBecomes(nodes, {})
    BY <1>1, <2>4, <2>8, HpSameClients DEF HpInv
  <2>10. /\ r \in HpUserRecords /\ r.pc = "retry" /\ r.h = user[u].h /\ r.hit = user[u].hit /\ r.again = 0
         /\ r.asked = user[u].asked
    BY <1>2, <2>1, <2>3 DEF HpUserRecords
  <2>11. user[u].hit
    BY <1>2, <2>2, HpOf
  <2>12. HpTask(r)
    BY <1>1, <1>2, <2>10, <2>11 DEF HpTask
  <2>13. HpFits(u, r, nodes)
    <3>1. \A b \in HpNodes(nodes) : b.client = user[u].h => b = a
      BY <2>3, <2>7
    <3>2. \A v \in Users \ {u} : user[v].h # r.h
      BY <1>2, <2>10, HpOf
    <3>3. Http!Clients(nodes) \subseteq Http!Clients(pool) \cup ({user[u].h} \ {NoHandle})
      BY <2>8
    <3>4. \A b \in HpNodes(pool) : b.leased /\ b.client # user[u].h => b \in HpNodes(nodes)
      BY <2>3, <2>7
    <3>5. \A b \in HpNodes(nodes) : b \notin HpNodes(pool) => b.client \in {user[u].h, r.h}
      BY <2>5, <2>7
    <3>6. \A b \in HpNodes(nodes) : b.client \in {user[u].h, r.h} =>
            /\ b.leased <=> b.client = r.h
            /\ b.client = r.h /\ b.reused => r.again = 0 /\ r.pc # "retry"
      BY <2>5, <2>10, <3>1
    <3> QED BY <2>2, <2>8, <2>10, <2>11, <3>2, <3>3, <3>4, <3>5, <3>6 DEF HpFits
  <2>14. leases' \subseteq {l \in leases : l.client # user[u].h}
    BY <1>1, <2>2, HpOf
  <2>15. {} \subseteq {user[u].h} /\ {} \cap (Http!Clients(nodes) \cup {r.h}) = {}
    OBVIOUS
  <2> QED BY <2>4, <2>7, <2>9, <2>12, <2>13, <2>14, <2>15, HpPoolStep
<1> QED BY <1>3, <1>4

LEMMA HpCleanupPooled ==
  ASSUME Http!HttpReuseAssumption, HpInv, NEW u \in Users, Http!CleanupPooled(u) PROVE HpInv'
<1>1. PICK i : i = Http!Where(pool, user[u].h)
  OBVIOUS
<1>2. /\ user[u].h \in Http!Clients(pool) /\ leases' = Http!NotOf(user[u].h) /\ user' = [user EXCEPT ![u] = Http!Resting]
      /\ IF user[u].open
         THEN Http!PoolBecomes([pool EXCEPT ![i].leased = FALSE, ![i].reused = FALSE, ![i].age = 0], {})
         ELSE Http!PoolBecomes(Http!RemoveAt(pool, i), {})
  BY <1>1 DEF Http!CleanupPooled, Http!Becomes
<1>3. leases' \subseteq {l \in leases : l.client # user[u].h}
  BY <1>2 DEF Http!NotOf
<1>4. CASE ~user[u].open
  BY <1>1, <1>2, <1>3, <1>4, HpDestroyed
<1>5. CASE user[u].open
  <2>1. /\ i \in DOMAIN pool /\ pool[i] \in Http!Node /\ pool[i].client = user[u].h /\ pool[i] \in HpNodes(pool)
        /\ \A b \in HpNodes(pool) : b.client = user[u].h => b = pool[i]
        /\ user[u].h # NoHandle
    BY <1>1, <1>2, HpNodeOf
  <2>2. PICK a, nodes : /\ a = [pool[i] EXCEPT !.leased = FALSE, !.reused = FALSE, !.age = 0]
                        /\ nodes = [pool EXCEPT ![i] = a]
    OBVIOUS
  <2>3. a \in Http!Node /\ a.client = user[u].h /\ a.leased = FALSE
    <3>1. 0 \in 0..IdleTimeout
      BY DEF Http!HttpReuseAssumption
    <3> QED BY <2>1, <2>2, <3>1 DEF Http!Node
  <2>4. HpListed(pool)
    BY HpOf
  <2>5. nodes = [pool EXCEPT ![i].leased = FALSE, ![i].reused = FALSE, ![i].age = 0]
    <3>1. pool \in Seq(Http!Node)
      BY <2>4 DEF HpListed
    <3> QED BY <2>1, <2>2, <3>1 DEF Http!Node
  <2>6. Http!PoolBecomes(nodes, {})
    BY <1>2, <1>5, <2>5
  <2>7. /\ HpListed(nodes)
        /\ \A b : b \in HpNodes(nodes) <=> b = a \/ (b \in HpNodes(pool) /\ b # pool[i])
    <3>1. PICK p : p = pool
      OBVIOUS
    <3>2. HpListed(p) /\ i \in DOMAIN p /\ a \in Http!Node /\ a.client = p[i].client /\ nodes = [p EXCEPT ![i] = a]
      BY <2>1, <2>2, <2>3, <2>4, <3>1
    <3>3. /\ HpListed(nodes)
          /\ \A b : b \in HpNodes(nodes) <=> b = a \/ (b \in HpNodes(p) /\ b # p[i])
      BY <3>2, HpReplaced
    <3> QED BY <3>1, <3>3
  <2>8. Http!Clients(nodes) \subseteq Http!Clients(pool) \cup {user[u].h}
    BY <2>3, <2>4, <2>7, HpClients
  <2>9. /\ \A b \in HpNodes(pool) : b.leased /\ b.client # user[u].h => b \in HpNodes(nodes)
        /\ \A b \in HpNodes(nodes) : b \notin HpNodes(pool) => b.client = user[u].h
        /\ \A b \in HpNodes(nodes) : b.client = user[u].h => ~b.leased
    BY <2>1, <2>3, <2>7
  <2>10. {} \subseteq {user[u].h} \ Http!Clients(nodes)
    OBVIOUS
  <2> QED BY <1>2, <1>3, <2>1, <2>6, <2>7, <2>8, <2>9, <2>10, HpGivesBack
<1> QED BY <1>4, <1>5

LEMMA HpSamePool ==
  ASSUME Http!HttpReuseAssumption, HpInv, NEW u \in Users, user[u].h # NoHandle, user[u].h \notin Http!Clients(pool),
         user' = [user EXCEPT ![u] = Http!Resting], at' = Http!Without(at, {user[u].h}), UNCHANGED pool,
         leases' \subseteq {l \in leases : l.client # user[u].h}
  PROVE  HpInv'
<1>1. PICK nodes : nodes = pool
  OBVIOUS
<1>2. HpListed(nodes) /\ Http!Clients(nodes) \subseteq Http!Clients(pool) \cup {user[u].h}
  BY <1>1, HpOf
<1>3. Http!PoolBecomes(nodes, {user[u].h})
  <2>1. (Http!Clients(pool) \ Http!Clients(nodes)) \cup {user[u].h} = {user[u].h}
    BY <1>1
  <2> QED BY <1>1, <2>1 DEF Http!PoolBecomes
<1>4. /\ \A a \in HpNodes(pool) : a.leased /\ a.client # user[u].h => a \in HpNodes(nodes)
      /\ \A a \in HpNodes(nodes) : a \notin HpNodes(pool) => a.client = user[u].h
      /\ \A a \in HpNodes(nodes) : a.client = user[u].h => ~a.leased
  BY <1>1, <1>2, HpClients
<1>5. {user[u].h} \subseteq {user[u].h} \ Http!Clients(nodes)
  BY <1>1
<1> QED BY <1>2, <1>3, <1>4, <1>5, HpGivesBack

LEMMA HpCleanupFresh ==
  ASSUME Http!HttpReuseAssumption, HpInv, NEW u \in Users, Http!CleanupFresh(u) PROVE HpInv'
<1>1. /\ user[u].pc = "ready" /\ user[u].h \notin Http!Clients(pool) /\ leases' = Http!NotOf(user[u].h) /\ UNCHANGED pool
      /\ \/ Http!Goto(u, "insert") /\ UNCHANGED at
         \/ Http!Becomes(u, Http!Resting) /\ at' = Http!Without(at, {user[u].h})
  BY DEF Http!CleanupFresh, Http!At
<1>2. leases' \subseteq {l \in leases : l.client # user[u].h}
  BY <1>1 DEF Http!NotOf
<1>3. user[u].h # NoHandle /\ ~user[u].hit
  BY <1>1, HpOf DEF HpTask
<1>4. CASE Http!Becomes(u, Http!Resting) /\ at' = Http!Without(at, {user[u].h})
  BY <1>1, <1>2, <1>3, <1>4, HpSamePool DEF Http!Becomes
<1>5. CASE Http!Goto(u, "insert") /\ UNCHANGED at
  <2>1. UNCHANGED <<at, pool>>
    BY <1>1, <1>5
  <2>2. /\ HpPool' /\ HpUsers' /\ HpHeld'
        /\ \A v \in Users : user'[v].h = user[v].h /\ user'[v].pc = IF v = u THEN "insert" ELSE user[v].pc
    BY <1>1, <1>3, <1>5, <2>1, HpGoes
  <2>3. ASSUME NEW l \in leases'
        PROVE  /\ l \in Http!Lease /\ l.client \notin Http!Clients(pool)
               /\ \E v \in Users : user'[v].h = l.client /\ user'[v].pc # "insert"
    <3>1. l \in leases /\ l.client # user[u].h
      BY <1>2
    <3> QED BY <2>2, <3>1 DEF HpInv, HpLeases
  <2>4. HpLeases'
    BY <2>1, <2>3 DEF HpLeases, Http!Clients
  <2> QED BY <2>2, <2>4 DEF HpInv
<1> QED BY <1>1, <1>4, <1>5

(* No note is about a client that is on its way into the pool.              *)
LEMMA HpInserting ==
  ASSUME Http!HttpReuseAssumption, HpInv, NEW u \in Users, user[u].pc = "insert"
  PROVE  /\ user[u].h # NoHandle /\ user[u].h \in Http!alive /\ user[u].h \notin Http!Clients(pool) /\ user[u].h \in Handles
         /\ \A l \in leases : l.client # user[u].h
<1>1. /\ user[u].h # NoHandle /\ user[u].h \in Http!alive /\ user[u].h \notin Http!Clients(pool) /\ user[u].h \in Handles
  BY HpOf DEF HpTask
<1>2. ASSUME NEW l \in leases, l.client = user[u].h PROVE FALSE
  <2>1. PICK v \in Users : user[v].h = l.client /\ user[v].pc # "insert"
    BY DEF HpInv, HpLeases
  <2>2. v = u
    BY <1>1, <1>2, <2>1, HpOf
  <2> QED BY <2>1, <2>2
<1> QED BY <1>1, <1>2

LEMMA HpEndpointUnknown ==
  ASSUME Http!HttpReuseAssumption, HpInv, NEW u \in Users, Http!EndpointUnknown(u) PROVE HpInv'
<1>1. /\ user[u].h # NoHandle /\ user[u].h \notin Http!Clients(pool) /\ \A l \in leases : l.client # user[u].h
  BY HpInserting DEF Http!EndpointUnknown, Http!At
<1>2. leases' \subseteq {l \in leases : l.client # user[u].h}
  BY <1>1 DEF Http!EndpointUnknown
<1>3. /\ user' = [user EXCEPT ![u] = Http!Resting] /\ at' = Http!Without(at, {user[u].h}) /\ UNCHANGED pool
  BY DEF Http!EndpointUnknown, Http!Becomes
<1> QED BY <1>1, <1>2, <1>3, HpSamePool

(* Only a client that nobody uses makes room for another.                   *)
LEMMA HpRoom ==
  ASSUME Http!HttpReuseAssumption, NEW nodes, HpListed(nodes)
  PROVE  /\ HpListed(Http!RoomFor(nodes)) /\ HpNodes(Http!RoomFor(nodes)) \subseteq HpNodes(nodes)
         /\ \A a \in HpNodes(nodes) : a.leased => a \in HpNodes(Http!RoomFor(nodes))
<1>1. CASE Len(nodes) < MaxPool \/ \A i \in DOMAIN nodes : nodes[i].leased
  BY <1>1 DEF Http!RoomFor
<1>2. CASE ~(Len(nodes) < MaxPool \/ \A i \in DOMAIN nodes : nodes[i].leased)
  <2> DEFINE idle == {i \in DOMAIN nodes : ~nodes[i].leased}
             oldest == {i \in idle : \A j \in idle : nodes[j].age <= nodes[i].age}
             left == {IdleTimeout - nodes[i].age : i \in idle}
  <2>1. /\ DOMAIN nodes \subseteq Nat
        /\ \A i \in DOMAIN nodes : nodes[i].age \in 0..IdleTimeout /\ nodes[i] \in HpNodes(nodes)
    <3>1. \A i \in DOMAIN nodes : nodes[i] \in Http!Node /\ nodes[i] \in HpNodes(nodes)
      BY HpClients
    <3>2. DOMAIN nodes \subseteq Nat
      BY DEF HpListed
    <3> QED BY <3>1, <3>2 DEF Http!Node
  <2>2. IdleTimeout \in Nat
    BY DEF Http!HttpReuseAssumption
  <2>3. \A i \in idle : IdleTimeout - nodes[i].age \in Nat
    BY <2>1, <2>2
  <2>4. left \in SUBSET Nat /\ left # {}
    <3>1. idle # {}
      BY <1>2
    <3> HIDE DEF idle
    <3> QED BY <2>3, <3>1
  <2>5. PICK x \in left : \A y \in left : x <= y
    <3> HIDE DEF left
    <3> QED BY <2>4, HpLeastOf
  <2>6. PICK i \in idle : x = IdleTimeout - nodes[i].age
    OBVIOUS
  <2>7. i \in oldest
    <3>1. ASSUME NEW j \in idle PROVE nodes[j].age <= nodes[i].age
      <4>1. IdleTimeout - nodes[i].age <= IdleTimeout - nodes[j].age
        BY <2>5, <2>6
      <4> QED BY <2>1, <2>2, <4>1
    <3> QED BY <3>1
  <2>8. Http!Least(oldest) \in oldest
    <3>1. oldest \in SUBSET Nat /\ oldest # {}
      BY <2>1, <2>7
    <3> HIDE DEF oldest
    <3> QED BY <3>1, HpLeastIs
  <2>9. Http!Oldest(nodes) = Http!Least(oldest)
    BY DEF Http!Oldest
  <2>10. Http!Oldest(nodes) \in DOMAIN nodes /\ ~nodes[Http!Oldest(nodes)].leased
    BY <2>8, <2>9
  <2>11. Http!RoomFor(nodes) = Http!RemoveAt(nodes, Http!Oldest(nodes))
    BY <1>2 DEF Http!RoomFor
  <2> HIDE DEF oldest, idle, left
  <2>12. HpListed(Http!RoomFor(nodes)) /\ HpNodes(Http!RoomFor(nodes)) = HpNodes(nodes) \ {nodes[Http!Oldest(nodes)]}
    BY <2>10, <2>11, HpRemoved
  <2> QED BY <2>10, <2>12
<1> QED BY <1>1, <1>2

LEMMA HpPoolInsert ==
  ASSUME Http!HttpReuseAssumption, HpInv, NEW u \in Users, Http!PoolInsert(u) PROVE HpInv'
<1>1. PICK h, nodes, a :
        /\ h = user[u].h /\ nodes = Http!RoomFor(Http!Reaped(pool))
        /\ a = [client |-> h, endpoint |-> at[h], leased |-> FALSE, reused |-> FALSE, age |-> 0]
        /\ \/ Len(nodes) < MaxPool /\ Http!PoolBecomes(Append(nodes, a), {})
           \/ Http!PoolBecomes(nodes, {h})
  BY DEF Http!PoolInsert
<1>2. user[u].pc = "insert" /\ user' = [user EXCEPT ![u] = Http!Resting] /\ UNCHANGED leases
  BY DEF Http!PoolInsert, Http!At, Http!Becomes
<1>3. /\ h # NoHandle /\ h \in Http!alive /\ h \notin Http!Clients(pool) /\ h \in Handles
      /\ \A l \in leases : l.client # h
  BY <1>1, <1>2, HpInserting
<1>4. HpListed(pool) /\ HpListed(Http!Reaped(pool)) /\ HpNodes(Http!Reaped(pool)) = {b \in HpNodes(pool) : ~Http!Expired(b)}
  BY HpOf, HpReaped
<1>5. /\ HpListed(nodes) /\ HpNodes(nodes) \subseteq HpNodes(pool)
      /\ \A b \in HpNodes(pool) : b.leased => b \in HpNodes(nodes)
  <2>1. \A b \in HpNodes(pool) : b.leased => ~Http!Expired(b)
    BY DEF Http!Expired
  <2>2. /\ HpListed(nodes) /\ HpNodes(nodes) \subseteq HpNodes(Http!Reaped(pool))
        /\ \A b \in HpNodes(Http!Reaped(pool)) : b.leased => b \in HpNodes(nodes)
    BY <1>1, <1>4, HpRoom
  <2> QED BY <1>4, <2>1, <2>2
<1>6. Http!Clients(nodes) \subseteq Http!Clients(pool)
  BY <1>4, <1>5, HpClients
<1>7. leases' \subseteq {l \in leases : l.client # user[u].h}
  BY <1>1, <1>2, <1>3
<1>8. \A b \in HpNodes(pool) : b.client # h
  BY <1>3, <1>4, HpClients
<1>9. CASE Http!PoolBecomes(nodes, {h})
  <2>1. {h} \subseteq {user[u].h} \ Http!Clients(nodes)
    BY <1>1, <1>3, <1>6
  <2>2. /\ \A b \in HpNodes(pool) : b.leased /\ b.client # user[u].h => b \in HpNodes(nodes)
        /\ \A b \in HpNodes(nodes) : b \notin HpNodes(pool) => b.client = user[u].h
        /\ \A b \in HpNodes(nodes) : b.client = user[u].h => ~b.leased
    BY <1>1, <1>5, <1>8
  <2>3. Http!Clients(nodes) \subseteq Http!Clients(pool) \cup {user[u].h} /\ user[u].h # NoHandle
    BY <1>1, <1>3, <1>6
  <2> QED BY <1>2, <1>5, <1>7, <1>9, <2>1, <2>2, <2>3, HpGivesBack
<1>10. CASE Len(nodes) < MaxPool /\ Http!PoolBecomes(Append(nodes, a), {})
  <2>1. a \in Http!Node /\ a.client = h /\ a.leased = FALSE
    <3>1. 0 \in 0..IdleTimeout
      BY DEF Http!HttpReuseAssumption
    <3>2. at[h] \in Hosts
      BY <1>3 DEF HpInv, HpPool
    <3> QED BY <1>1, <1>3, <3>1, <3>2 DEF Http!Node
  <2>2. PICK more : more = Append(nodes, a)
    OBVIOUS
  <2>3. HpListed(more) /\ HpNodes(more) = HpNodes(nodes) \cup {a}
    BY <1>3, <1>5, <1>6, <1>10, <2>1, <2>2, HpAppended
  <2>4. Http!PoolBecomes(more, {}) /\ {} \subseteq {user[u].h} \ Http!Clients(more) /\ user[u].h # NoHandle
    BY <1>1, <1>3, <1>10, <2>2
  <2>5. Http!Clients(more) \subseteq Http!Clients(pool) \cup {user[u].h}
    BY <1>1, <1>4, <1>5, <2>1, <2>3, HpClients
  <2>6. /\ \A b \in HpNodes(pool) : b.leased /\ b.client # user[u].h => b \in HpNodes(more)
        /\ \A b \in HpNodes(more) : b \notin HpNodes(pool) => b.client = user[u].h
        /\ \A b \in HpNodes(more) : b.client = user[u].h => ~b.leased
    BY <1>1, <1>5, <1>8, <2>1, <2>3
  <2> QED BY <1>2, <1>7, <2>3, <2>4, <2>5, <2>6, HpGivesBack
<1> QED BY <1>1, <1>9, <1>10

(* Time passes, or nodes that nobody uses are reaped; the tasks stay.       *)
LEMMA HpAges ==
  ASSUME Http!HttpReuseAssumption, HpInv, UNCHANGED <<leases, user>>, NEW nodes, HpListed(nodes), Http!PoolBecomes(nodes, {}),
         \A a \in HpNodes(nodes) : \E b \in HpNodes(pool) :
           a.client = b.client /\ a.leased = b.leased /\ a.reused = b.reused,
         \A b \in HpNodes(pool) : b.leased => \E a \in HpNodes(nodes) : a.client = b.client
  PROVE  HpInv'
<1>1. pool' = nodes /\ at' = Http!Without(at, Http!Clients(pool) \ Http!Clients(nodes)) /\ user' = user /\ leases' = leases
  BY DEF Http!PoolBecomes
<1>2. HpPool /\ HpUsers /\ HpHeld /\ HpLeases
  BY DEF HpInv
<1>3. /\ Http!alive' = Http!alive \ (Http!Clients(pool) \ Http!Clients(nodes)) /\ Http!alive' \subseteq Handles
      /\ at' \in [Http!alive' -> Hosts] /\ \A h \in Http!alive' : at'[h] = at[h]
  BY <1>1, <1>2, HpDrops
<1>4. /\ \A h : h \in Http!Clients(pool) <=> \E a \in HpNodes(pool) : a.client = h
      /\ \A h : h \in Http!Clients(nodes) <=> \E a \in HpNodes(nodes) : a.client = h
  BY <1>2, HpClients DEF HpPool
<1>5. Http!Clients(nodes) \subseteq Http!Clients(pool)
  BY <1>4
<1>6. HpPool'
  <2>1. Http!Clients(nodes) \subseteq Http!alive'
    BY <1>2, <1>3, <1>5 DEF HpPool
  <2>2. HpListed(pool') /\ Http!Clients(pool') \subseteq Http!alive'
    BY <1>1, <2>1
  <2> QED BY <1>3, <2>2 DEF HpPool, HpListed, Http!Clients
<1>7. ASSUME NEW u \in Users, user[u].h # NoHandle
      PROVE  user[u].h \in Http!alive' /\ (user[u].h \in Http!Clients(nodes) <=> user[u].h \in Http!Clients(pool))
  <2>1. user[u].h \in Http!Clients(pool) => user[u].h \in Http!Clients(nodes)
    BY <1>2, <1>4 DEF HpHeld
  <2> QED BY <1>2, <1>3, <1>5, <1>7, <2>1 DEF HpUsers
<1>8. HpUsers'
  <2>1. ASSUME NEW u \in Users
        PROVE  /\ HpTask(user'[u])
               /\ user'[u].h # NoHandle => user'[u].h \in Http!alive' /\ (user'[u].hit <=> user'[u].h \in Http!Clients(pool'))
               /\ user'[u].pc \in {"new", "ready", "perform"} /\ user'[u].asked # NoHost =>
                    at'[user'[u].h] = user'[u].asked
    <3>1. HpTask(user[u])
      BY <1>2 DEF HpUsers
    <3>2. user[u].pc \in {"new", "ready", "perform"} => user[u].h # NoHandle
      BY <3>1 DEF HpTask
    <3>3. user[u].h # NoHandle => user[u].h \in Http!alive' /\ (user[u].hit <=> user[u].h \in Http!Clients(nodes))
      BY <1>2, <1>7 DEF HpUsers
    <3>4. user[u].pc \in {"new", "ready", "perform"} /\ user[u].asked # NoHost => at'[user[u].h] = user[u].asked
      BY <1>2, <1>3, <3>2, <3>3 DEF HpUsers
    <3> QED BY <1>1, <3>1, <3>3, <3>4
  <2>2. \A u, v \in Users : user'[u].h = user'[v].h /\ user'[u].h # NoHandle => u = v
    BY <1>1, <1>2 DEF HpUsers
  <2>3. user' \in [Users -> HpUserRecords]
    BY <1>1, <1>2 DEF HpUsers
  <2> QED BY <2>1, <2>2, <2>3 DEF HpUsers, HpTask, Http!Resting, HpUserRecords
<1>9. HpHeld'
  <2>1. ASSUME NEW a \in HpNodes(nodes)
        PROVE  /\ a.leased <=> \E u \in Users : user[u].h = a.client
               /\ \A u \in Users : user[u].h = a.client /\ a.reused => user[u].again = 0 /\ user[u].pc # "retry"
    BY <1>2 DEF HpHeld
  <2> QED BY <1>1, <2>1 DEF HpHeld, HpNodes
<1>10. HpLeases'
  <2>1. ASSUME NEW l \in leases'
        PROVE  /\ \E u \in Users : user'[u].h = l.client /\ user'[u].pc # "insert"
               /\ l.client \notin Http!Clients(pool')
    <3>1. (\E u \in Users : user[u].h = l.client /\ user[u].pc # "insert") /\ l.client \notin Http!Clients(nodes)
      BY <1>1, <1>2, <1>5 DEF HpLeases
    <3> QED BY <1>1, <3>1
  <2>2. leases' \subseteq Http!Lease
    BY <1>1, <1>2 DEF HpLeases
  <2> QED BY <2>1, <2>2 DEF HpLeases, Http!Clients, Http!Lease
<1> QED BY <1>6, <1>8, <1>9, <1>10 DEF HpInv

LEMMA HpReapIdle == ASSUME Http!HttpReuseAssumption, HpInv, Http!ReapIdle PROVE HpInv'
<1>1. PICK nodes : nodes = Http!Reaped(pool)
  OBVIOUS
<1>2. HpListed(nodes) /\ HpNodes(nodes) = {b \in HpNodes(pool) : ~Http!Expired(b)}
  BY <1>1, HpReaped DEF HpInv, HpPool
<1>3. Http!PoolBecomes(nodes, {}) /\ UNCHANGED <<leases, user>>
  BY <1>1 DEF Http!ReapIdle
<1>4. \A a \in HpNodes(nodes) : \E b \in HpNodes(pool) :
           a.client = b.client /\ a.leased = b.leased /\ a.reused = b.reused
  BY <1>2
<1>5. \A b \in HpNodes(pool) : b.leased => \E a \in HpNodes(nodes) : a.client = b.client
  BY <1>2 DEF Http!Expired
<1> QED BY <1>2, <1>3, <1>4, <1>5, HpAges

LEMMA HpTick == ASSUME Http!HttpReuseAssumption, HpInv, Http!Tick PROVE HpInv'
<1>1. PICK p, nodes :
        /\ p = pool
        /\ nodes = [i \in DOMAIN p |-> [p[i] EXCEPT !.age = IF @ < IdleTimeout THEN @ + 1 ELSE @]]
  OBVIOUS
<1>2. pool' = nodes /\ UNCHANGED <<at, leases, user>>
  BY <1>1 DEF Http!Tick
<1>3. p \in Seq(Http!Node) /\ Len(p) \in Nat /\ Len(p) <= MaxPool /\ DOMAIN p = 1..Len(p) /\ HpListed(p) /\ HpPool
      /\ IdleTimeout \in Nat
  BY <1>1 DEF HpInv, HpPool, HpListed, Http!HttpReuseAssumption
<1>4. ASSUME NEW i \in DOMAIN p
      PROVE  /\ nodes[i] \in Http!Node /\ nodes[i].client = p[i].client /\ nodes[i].leased = p[i].leased
             /\ nodes[i].reused = p[i].reused
  <2>1. p[i] \in Http!Node
    BY <1>3, HpClients
  <2>4. p[i].age \in 0..IdleTimeout
    BY <2>1 DEF Http!Node
  <2>2. nodes[i] = [p[i] EXCEPT !.age = IF p[i].age < IdleTimeout THEN p[i].age + 1 ELSE p[i].age]
    BY <1>1
  <2>3. (IF p[i].age < IdleTimeout THEN p[i].age + 1 ELSE p[i].age) \in 0..IdleTimeout
    BY <1>3, <2>4
  <2> QED BY <2>1, <2>2, <2>3 DEF Http!Node
<1>5. DOMAIN nodes = 1..Len(p) /\ nodes \in [1..Len(p) -> Http!Node]
  <2>1. nodes = [i \in DOMAIN p |-> nodes[i]] /\ DOMAIN nodes = DOMAIN p
    BY <1>1
  <2> QED BY <1>3, <1>4, <2>1
<1>6. nodes \in Seq(Http!Node) /\ Len(nodes) = Len(p)
  <2>1. Seq(Http!Node) = UNION {[1..m -> Http!Node] : m \in Nat}
    BY SeqDef, Zenon
  <2>2. nodes \in Seq(Http!Node)
    BY <1>3, <1>5, <2>1, Zenon
  <2> QED BY <1>3, <1>5, <2>2
<1>7. HpListed(nodes)
  BY <1>3, <1>4, <1>5, <1>6 DEF HpListed
<1>8. Http!Clients(nodes) = Http!Clients(pool)
  <2>1. \A h : h \in Http!Clients(nodes) <=> \E i \in DOMAIN nodes : nodes[i].client = h
    BY Zenon DEF Http!Clients
  <2>2. \A h : h \in Http!Clients(p) <=> \E i \in DOMAIN p : p[i].client = h
    BY Zenon DEF Http!Clients
  <2>3. \A h : h \in Http!Clients(nodes) <=> h \in Http!Clients(p)
    BY <1>3, <1>4, <1>5, <2>1, <2>2
  <2> QED BY <1>1, <2>3
<1>9. Http!PoolBecomes(nodes, {})
  BY <1>2, <1>3, <1>8, HpSameClients
<1>10. \A a \in HpNodes(nodes) : \E b \in HpNodes(pool) :
           a.client = b.client /\ a.leased = b.leased /\ a.reused = b.reused
  BY <1>1, <1>3, <1>4, <1>5 DEF HpNodes
<1>11. \A b \in HpNodes(pool) : b.leased => \E a \in HpNodes(nodes) : a.client = b.client
  BY <1>1, <1>3, <1>4, <1>5 DEF HpNodes
<1> QED BY <1>2, <1>7, <1>9, <1>10, <1>11, HpAges

LEMMA HpStays == ASSUME HpInv, UNCHANGED Http!vars PROVE HpInv'
<1>1. at' = at /\ pool' = pool /\ leases' = leases /\ user' = user
  BY DEF Http!vars
<1> QED BY <1>1 DEF HpInv, HpPool, HpUsers, HpHeld, HpLeases, HpTask, HpListed, HpNodes, Http!Clients, Http!alive,
                    Http!Resting, HpUserRecords

LEMMA HpStep == Http!HttpReuseAssumption /\ HpInv /\ [Http!Next]_(Http!vars) => HpInv'
<1> SUFFICES ASSUME Http!HttpReuseAssumption, HpInv, [Http!Next]_(Http!vars) PROVE HpInv'
  OBVIOUS
<1>1. ASSUME NEW u \in Users,
             \/ Http!InitBypass(u) \/ Http!PoolTake(u) \/ Http!SetUrl(u) \/ Http!SetUrlFails(u) \/ Http!InitReal(u)
             \/ Http!LeaseInsert(u)
             \/ Http!PerformMarks(u) \/ Http!PerformReal(u) \/ Http!RetryDecision(u) \/ Http!PerformAgain(u)
             \/ Http!CleanupPooled(u) \/ Http!CleanupFresh(u) \/ Http!PoolInsert(u) \/ Http!EndpointUnknown(u)
      PROVE  HpInv'
  BY <1>1, HpInitBypass, HpPoolTake, HpSet, HpSetUrlFails, HpInitReal, HpLeaseInsert, HpPerformMarks,
     HpSent, HpRetryDecision, HpCleanupPooled, HpCleanupFresh, HpPoolInsert, HpEndpointUnknown
<1> QED BY <1>1, HpReapIdle, HpTick, HpStays DEF Http!Next

LEMMA HpSound ==
  Http!HttpReuseAssumption /\ HpInv =>
    Http!TypeOK /\ Http!ClientsHaveOneOwner /\ Http!LeasesAreHeld /\ Http!GoesWhereAsked /\ Http!RetriedOnce
<1> SUFFICES ASSUME Http!HttpReuseAssumption, HpInv
             PROVE  Http!TypeOK /\ Http!ClientsHaveOneOwner /\ Http!LeasesAreHeld /\ Http!GoesWhereAsked /\ Http!RetriedOnce
  OBVIOUS
<1>1. HpPool /\ HpUsers /\ HpHeld /\ HpLeases /\ NoHandle \notin Handles
  BY DEF HpInv, Http!HttpReuseAssumption
<1>2. HpListed(pool)
  BY <1>1 DEF HpPool
<1>3. Http!TypeOK
  BY <1>1, <1>2 DEF Http!TypeOK, HpPool, HpListed, HpUsers, HpUserRecords, HpLeases
<1>4. \A h \in Handles : Cardinality(Http!Holders(h)) <= 1
  <2> SUFFICES ASSUME NEW h \in Handles PROVE Cardinality(Http!Holders(h)) <= 1
    OBVIOUS
  <2>1. Http!Holders(h) = {} \/ \E u \in Users : Http!Holders(h) = {u}
    BY <1>1 DEF Http!Holders, HpUsers
  <2>2. Cardinality({}) = 0 /\ \A u : Cardinality({u}) = 1
    BY FS_EmptySet, FS_Singleton
  <2>3. Cardinality(Http!Holders(h)) = 0 \/ Cardinality(Http!Holders(h)) = 1
    BY <2>1, <2>2
  <2> QED BY <2>3
<1>5. Cardinality(Http!Clients(pool)) = Len(pool)
  <2>1. Len(pool) \in Nat /\ DOMAIN pool = 1..Len(pool)
    BY <1>2 DEF HpListed
  <2>2. PICK f, n, S : n = Len(pool) /\ S = Http!Clients(pool) /\ f = [i \in 1..n |-> pool[i].client]
    OBVIOUS
  <2>3. f \in Surjection(1..n, S) /\ f \in Injection(1..n, S)
    <3>1. f \in [1..n -> S]
      BY <2>1, <2>2 DEF Http!Clients
    <3>2. \A s \in S : \E i \in 1..n : f[i] = s
      BY <2>1, <2>2 DEF Http!Clients
    <3>3. \A i, k \in 1..n : f[i] = f[k] => i = k
      BY <1>2, <2>1, <2>2 DEF HpListed
    <3> QED BY <3>1, <3>2, <3>3 DEF Surjection, Injection, IsInjective
  <2>4. IsFiniteSet(1..n) /\ Cardinality(1..n) = n
    <3>1. n \in Nat
      BY <2>1, <2>2
    <3>2. 1 \in Int /\ n \in Int
      BY <3>1
    <3>3. IsFiniteSet(1..n) /\ Cardinality(1..n) = (IF 1 > n THEN 0 ELSE n - 1 + 1)
      BY ONLY <3>2, FS_Interval
    <3> QED BY ONLY <3>1, <3>3
  <2>5. Cardinality(S) = Cardinality(1..n)
    BY <2>3, <2>4, FS_Surjection
  <2> QED BY <2>2, <2>4, <2>5
<1>6. \A i \in DOMAIN pool : pool[i].leased <=> Http!Holders(pool[i].client) # {}
  <2> SUFFICES ASSUME NEW i \in DOMAIN pool PROVE pool[i].leased <=> Http!Holders(pool[i].client) # {}
    OBVIOUS
  <2>1. pool[i] \in HpNodes(pool)
    BY DEF HpNodes
  <2>2. pool[i].leased <=> \E u \in Users : user[u].h = pool[i].client
    BY <1>1, <2>1 DEF HpHeld
  <2> QED BY <2>2 DEF Http!Holders
<1>7. Http!ClientsHaveOneOwner
  BY <1>1, <1>2, <1>4, <1>5, <1>6, HpFiniteSets DEF Http!ClientsHaveOneOwner, HpPool, HpListed, HpUsers
<1>8. Http!LeasesAreHeld
  <2> SUFFICES ASSUME NEW l \in leases PROVE Http!Holders(l.client) # {} /\ l.client \notin Http!Clients(pool)
    BY DEF Http!LeasesAreHeld
  <2>1. (\E u \in Users : user[u].h = l.client) /\ l.client \notin Http!Clients(pool)
    BY <1>1 DEF HpLeases
  <2> QED BY <2>1 DEF Http!Holders
<1>9. Http!GoesWhereAsked
  BY <1>1 DEF Http!GoesWhereAsked, HpUsers
<1>10. Http!RetriedOnce
  <2> SUFFICES ASSUME NEW u \in Users PROVE user[u].again <= (IF user[u].hit THEN 1 ELSE 0)
    BY DEF Http!RetriedOnce
  <2>1. user[u].again <= 1 /\ (~user[u].hit => user[u].again = 0)
    BY <1>1 DEF HpUsers, HpTask
  <2> QED BY <2>1
<1> QED BY <1>3, <1>7, <1>8, <1>9, <1>10

-----------------------------------------------------------------------------
(***************************************************************************)
(* Sending.                                                                *)
(***************************************************************************)

LEMMA OutFiniteSets ==
  \A S : (Out!IsFiniteSet(S) <=> IsFiniteSet(S)) /\ Out!Cardinality(S) = Cardinality(S)
  BY DEF Out!IsFiniteSet, IsFiniteSet, Out!Cardinality, Cardinality

OutJobRecords ==
  [pc : {"idle", "request", "post", "again"}, kind : {"none", "text", "media", "card"},
   plan : Seq(Out!Request), todo : Seq(Out!Request), done : Seq(Out!Request),
   extra : 0..2, retried : BOOLEAN, failed : BOOLEAN, lost : BOOLEAN]

OutDistinct(s) == \A i, j \in DOMAIN s : i # j => s[i] # s[j]
OutElements(s) == {s[i] : i \in DOMAIN s}

(* What is accepted and what is still to be sent make up the plan, unless a *)
(* card was shown, or a text without its card is sent.                      *)
OutInOrder(j) ==
  \/ j.done \o j.todo = j.plan
  \/ /\ j.kind = "card" /\ j.plan # <<>>
     /\ j.done \o j.todo = Tail(j.plan) \/ (j.todo = <<>> /\ j.done = <<j.plan[1]>>)

(* What tries that were repeated have shown.  Only QQ begins a request anew.  *)
OutTries(p, j) ==
  /\ j.pc # "again" /\ ~(p = "qq" /\ j.retried) => j.extra = 0
  /\ j.pc # "again" \/ ~(p = "qq" /\ j.retried) => j.extra <= 1
  /\ j.extra > 0 => j.lost

(* Nothing to be sent has been accepted already, but for the request in hand. *)
OutJobSound(p, j) ==
  /\ OutTries(p, j)
  /\ j.pc = "idle" => j = Out!Idle
  /\ j.pc # "idle" => j.plan # <<>>
  /\ ~j.failed => OutInOrder(j)
  /\ OutDistinct(j.done) /\ OutDistinct(j.todo) /\ OutElements(j.done) \cap OutElements(j.todo) = {}
  /\ \A i \in DOMAIN j.todo : j.todo[i].what = "card" =>
       i = 1 /\ j.done = <<>> /\ j.kind = "card" /\ ~j.failed /\ j.todo = j.plan
  /\ (\E i \in DOMAIN j.done : j.done[i].what = "card") /\ ~j.lost => Len(j.done) = 1 /\ j.todo = <<>>
  /\ (\E i \in DOMAIN j.done : j.done[i].what = "card") => j.kind = "card"

OutJobInv == \A k \in Callers : OutJobSound(platform, job[k])

(* The slots fill up in order; no two are about the same chat.              *)
OutFilled ==
  \/ \A i \in 1..StageCacheSize : stageCache[i].chat = "none" <=> i >= stageIdx
  \/ stageIdx = 1 /\ \A i \in 1..StageCacheSize : stageCache[i].chat # "none"

OutStageInv ==
  Cardinality(Chats) <= StageCacheSize =>
    /\ OutFilled
    /\ \A i, k \in 1..StageCacheSize :
         stageCache[i].chat = stageCache[k].chat /\ stageCache[i].chat # "none" => i = k
    /\ \A c \in Chats :
         /\ stagesShown[c] <= StageLimit + 1 + missed[c]
         /\ \A i \in 1..StageCacheSize :
              stageCache[i].chat = c => stagesShown[c] <= stageCache[i].count + missed[c]
         /\ (\A i \in 1..StageCacheSize : stageCache[i].chat # c) => stagesShown[c] <= missed[c]

OutInv == Out!TypeOK /\ OutJobInv /\ OutStageInv

(* A plan names nothing twice, and a card only first.                       *)
OutPlanSound(kind, s) ==
  /\ s \in Seq(Out!Request) /\ s # <<>> /\ OutDistinct(s)
  /\ \A i \in DOMAIN s : s[i].what = "card" => i = 1 /\ kind = "card"

LEMMA OutRequests ==
  ASSUME Out!SendAssumption
  PROVE  /\ MaxChunks \in Nat
         /\ \A n \in 0..MaxChunks : Out!R("chunk", n) \in Out!Request
         /\ \A w \in {"chunk", "card", "url", "upload", "media"} : Out!R(w, 0) \in Out!Request
         /\ \A w, n : Out!R(w, n).what = w /\ Out!R(w, n).n = n
<1>1. MaxChunks \in Nat
  BY DEF Out!SendAssumption
<1> QED BY <1>1 DEF Out!R, Out!Request

LEMMA OutChunks ==
  ASSUME Out!SendAssumption, NEW n \in 0..MaxChunks
  PROVE  /\ Out!Chunks(n) \in Seq(Out!Request) /\ Len(Out!Chunks(n)) = n /\ n \in Nat
         /\ \A i \in 1..n : Out!Chunks(n)[i] = Out!R("chunk", i)
<1>1. n \in Nat
  BY DEF Out!SendAssumption
<1>2. Out!Chunks(n) \in [1..n -> Out!Request]
  BY OutRequests DEF Out!Chunks
<1>3. Out!Chunks(n) \in Seq(Out!Request)
  <2>1. Seq(Out!Request) = UNION {[1..m -> Out!Request] : m \in Nat}
    BY SeqDef, Zenon
  <2> QED BY <1>1, <1>2, <2>1, Zenon
<1> QED BY <1>1, <1>3 DEF Out!Chunks

LEMMA OutText ==
  ASSUME Out!SendAssumption, NEW n \in 1..MaxChunks, NEW kind PROVE OutPlanSound(kind, Out!Chunks(n))
<1>1. n \in 0..MaxChunks /\ n > 0
  BY DEF Out!SendAssumption
<1>2. /\ Out!Chunks(n) \in Seq(Out!Request) /\ DOMAIN Out!Chunks(n) = 1..n /\ Out!Chunks(n) # <<>>
      /\ \A i \in 1..n : Out!Chunks(n)[i] = Out!R("chunk", i)
  BY <1>1, OutChunks
<1>3. \A w, i : Out!R(w, i).what = w /\ Out!R(w, i).n = i
  BY OutRequests
<1> QED BY <1>2, <1>3 DEF OutPlanSound, OutDistinct

LEMMA OutTgMedia == ASSUME Out!SendAssumption PROVE OutPlanSound("media", <<Out!R("media", 0)>>)
<1>1. Out!R("media", 0) \in Out!Request /\ Out!R("media", 0).what = "media"
  BY OutRequests
<1> QED BY <1>1 DEF OutPlanSound, OutDistinct

LEMMA OutQqMedia == ASSUME Out!SendAssumption PROVE OutPlanSound("media", <<Out!R("upload", 0), Out!R("media", 0)>>)
<1>1. /\ Out!R("media", 0) \in Out!Request /\ Out!R("media", 0).what = "media"
      /\ Out!R("upload", 0) \in Out!Request /\ Out!R("upload", 0).what = "upload"
  BY OutRequests
<1> QED BY <1>1 DEF OutPlanSound, OutDistinct

LEMMA OutFeishuMedia ==
  ASSUME Out!SendAssumption, NEW n \in 0..MaxChunks PROVE OutPlanSound("media", Out!FeishuMedia(n))
<1> DEFINE s == Out!FeishuMedia(n)
<1>1. /\ Out!R("media", 0) \in Out!Request /\ Out!R("upload", 0) \in Out!Request
      /\ \A w, i : Out!R(w, i).what = w /\ Out!R(w, i).n = i
  BY OutRequests
<1>2. /\ Out!Chunks(n) \in Seq(Out!Request) /\ Len(Out!Chunks(n)) = n /\ n \in Nat
      /\ \A i \in 1..n : Out!Chunks(n)[i] = Out!R("chunk", i)
  BY OutChunks
<1>3. /\ s \in Seq(Out!Request) /\ DOMAIN s = 1..(n + 2) /\ s # <<>>
      /\ s[1] = Out!R("upload", 0) /\ s[2] = Out!R("media", 0)
      /\ \A i \in 3..(n + 2) : s[i] = Out!R("chunk", i - 2)
  BY <1>1, <1>2 DEF Out!FeishuMedia
<1> HIDE DEF s
<1>4. \A i \in 1..(n + 2) : i = 1 \/ i = 2 \/ i \in 3..(n + 2)
  BY <1>2
<1>5. \A i \in 1..(n + 2) : s[i].what # "card"
  BY <1>1, <1>3, <1>4
<1>6. OutDistinct(s)
  <2> SUFFICES ASSUME NEW i \in 1..(n + 2), NEW k \in 1..(n + 2), s[i] = s[k] PROVE i = k
    BY <1>3 DEF OutDistinct
  <2>1. CASE i \in 3..(n + 2) /\ k \in 3..(n + 2)
    <3>1. i - 2 = k - 2
      BY <1>1, <1>3, <2>1
    <3> QED BY <1>2, <2>1, <3>1
  <2> QED BY <1>1, <1>3, <1>4, <2>1
<1> QED BY <1>3, <1>5, <1>6 DEF OutPlanSound, s

LEMMA OutWechatMedia ==
  ASSUME Out!SendAssumption, NEW n \in 0..MaxChunks PROVE OutPlanSound("media", Out!WechatMedia(n))
<1> DEFINE s == Out!WechatMedia(n)
<1>1. /\ Out!R("media", 0) \in Out!Request /\ Out!R("upload", 0) \in Out!Request /\ Out!R("url", 0) \in Out!Request
      /\ \A w, i : Out!R(w, i).what = w /\ Out!R(w, i).n = i
  BY OutRequests
<1>2. /\ Out!Chunks(n) \in Seq(Out!Request) /\ Len(Out!Chunks(n)) = n /\ n \in Nat
      /\ \A i \in 1..n : Out!Chunks(n)[i] = Out!R("chunk", i)
  BY OutChunks
<1>3. /\ s \in Seq(Out!Request) /\ DOMAIN s = 1..(n + 3) /\ s # <<>>
      /\ s[n + 1] = Out!R("url", 0) /\ s[n + 2] = Out!R("upload", 0) /\ s[n + 3] = Out!R("media", 0)
      /\ \A i \in 1..n : s[i] = Out!R("chunk", i)
  BY <1>1, <1>2 DEF Out!WechatMedia
<1> HIDE DEF s
<1>4. \A i \in 1..(n + 3) : i \in 1..n \/ i = n + 1 \/ i = n + 2 \/ i = n + 3
  BY <1>2
<1>5. \A i \in 1..(n + 3) : s[i].what # "card"
  BY <1>1, <1>3, <1>4
<1>6. OutDistinct(s)
  <2> SUFFICES ASSUME NEW i \in 1..(n + 3), NEW k \in 1..(n + 3), s[i] = s[k] PROVE i = k
    BY <1>3 DEF OutDistinct
  <2>1. s[i].what = s[k].what /\ s[i].n = s[k].n
    OBVIOUS
  <2> QED BY <1>1, <1>3, <1>4, <2>1
<1> QED BY <1>3, <1>5, <1>6 DEF OutPlanSound, s

LEMMA OutFeishuMessage ==
  ASSUME Out!SendAssumption, NEW n \in 1..MaxChunks PROVE OutPlanSound("card", Out!FeishuMessage(n))
<1> DEFINE s == Out!FeishuMessage(n)
<1>0. n \in 0..MaxChunks
  BY DEF Out!SendAssumption
<1>1. Out!R("card", 0) \in Out!Request /\ \A w, i : Out!R(w, i).what = w /\ Out!R(w, i).n = i
  BY OutRequests
<1>2. /\ Out!Chunks(n) \in Seq(Out!Request) /\ Len(Out!Chunks(n)) = n /\ n \in Nat
      /\ \A i \in 1..n : Out!Chunks(n)[i] = Out!R("chunk", i)
  BY <1>0, OutChunks
<1>3. /\ s \in Seq(Out!Request) /\ DOMAIN s = 1..(n + 1) /\ s # <<>>
      /\ s[1] = Out!R("card", 0)
      /\ \A i \in 2..(n + 1) : s[i] = Out!R("chunk", i - 1)
  BY <1>1, <1>2 DEF Out!FeishuMessage
<1> HIDE DEF s
<1>4. \A i \in 1..(n + 1) : i = 1 \/ i \in 2..(n + 1)
  BY <1>2
<1>5. \A i \in 1..(n + 1) : s[i].what = "card" => i = 1
  BY <1>1, <1>3, <1>4
<1>6. OutDistinct(s)
  <2> SUFFICES ASSUME NEW i \in 1..(n + 1), NEW k \in 1..(n + 1), s[i] = s[k] PROVE i = k
    BY <1>3 DEF OutDistinct
  <2>1. CASE i \in 2..(n + 1) /\ k \in 2..(n + 1)
    <3>1. i - 1 = k - 1
      BY <1>1, <1>3, <2>1
    <3> QED BY <1>2, <2>1, <3>1
  <2> QED BY <1>1, <1>3, <1>4, <2>1
<1> QED BY <1>3, <1>5, <1>6 DEF OutPlanSound, s

(* One more accepted, one less to send.                                     *)
LEMMA OutMovesOn ==
  ASSUME NEW S, NEW d \in Seq(S), NEW t \in Seq(S), t # <<>>
  PROVE  Append(d, t[1]) \o Tail(t) = d \o t
<1>1. t[1] \in S /\ Tail(t) \in Seq(S) /\ Len(Tail(t)) = Len(t) - 1 /\ Len(t) \in Nat \ {0} /\ Len(d) \in Nat
  BY HeadTailProperties
<1> DEFINE a == Append(d, t[1]) \o Tail(t)
           b == d \o t
<1>2. Append(d, t[1]) \in Seq(S) /\ Len(Append(d, t[1])) = Len(d) + 1
  BY <1>1
<1>3. a \in Seq(S) /\ b \in Seq(S) /\ Len(a) = Len(d) + Len(t) /\ Len(b) = Len(d) + Len(t)
  BY <1>1, <1>2
<1>4. ASSUME NEW i \in 1..(Len(d) + Len(t)) PROVE a[i] = b[i]
  <2>1. CASE i <= Len(d)
    <3>1. b[i] = d[i] /\ a[i] = Append(d, t[1])[i] /\ Append(d, t[1])[i] = d[i]
      BY <1>1, <1>2, <2>1
    <3> QED BY <3>1
  <2>2. CASE i = Len(d) + 1
    <3>1. b[i] = t[1] /\ a[i] = Append(d, t[1])[i] /\ Append(d, t[1])[i] = t[1]
      BY <1>1, <1>2, <2>2
    <3> QED BY <3>1
  <2>3. CASE i > Len(d) + 1
    <3>1. b[i] = t[i - Len(d)]
      BY <1>1, <2>3
    <3>2. a[i] = Tail(t)[i - (Len(d) + 1)] /\ i - (Len(d) + 1) \in 1..Len(Tail(t))
      BY <1>1, <1>2, <2>3
    <3>3. Tail(t)[i - (Len(d) + 1)] = t[i - (Len(d) + 1) + 1]
      BY <1>1, <3>2
    <3>4. i - (Len(d) + 1) + 1 = i - Len(d)
      BY <1>1
    <3> QED BY <3>1, <3>2, <3>3, <3>4
  <2> QED BY <1>1, <2>1, <2>2, <2>3
<1> HIDE DEF a, b
<1>5. a = b
  BY <1>3, <1>4, SeqEqual
<1> QED BY <1>5 DEF a, b

(* The request that is over leaves the rest of the plan, or nothing.        *)
OutAfter(j, accepted, answered, t, f) ==
  LET r   == Out!Settled(j, accepted, answered)
      req == j.todo[1]
  IN  /\ r \in OutJobRecords /\ r.pc = "request" /\ r.kind = j.kind /\ r.plan = j.plan
      /\ r.todo = t /\ r.failed = f
      /\ r.done = IF Out!Took(j, accepted) THEN Append(j.done, req) ELSE j.done
      /\ r.lost = (j.kind = "card" /\ (j.lost \/ (accepted /\ ~answered)))
      /\ r.extra = 0 /\ ~r.retried
      /\ accepted /\ answered /\ req.what = "card" => t = <<>> /\ f = j.failed
      /\ accepted /\ answered /\ req.what # "card" => f = j.failed /\ (~f => t = Tail(j.todo))
      /\ ~(accepted /\ answered) /\ req.what = "card" => t = Tail(j.todo) /\ f = j.failed
      /\ ~(accepted /\ answered) /\ req.what # "card" => f

LEMMA OutLeft ==
  ASSUME NEW j \in OutJobRecords, j.todo # <<>>, NEW accepted \in BOOLEAN, NEW answered \in BOOLEAN
  PROVE  \E t \in {<<>>, Tail(j.todo)}, f \in BOOLEAN : OutAfter(j, accepted, answered, t, f)
<1> DEFINE req  == j.todo[1]
           rest == Tail(j.todo)
           d    == IF Out!Took(j, accepted) THEN Append(j.done, req) ELSE j.done
           l    == j.kind = "card" /\ (j.lost \/ (accepted /\ ~answered))
           jj   == [j EXCEPT !.pc = "request", !.retried = FALSE, !.extra = 0, !.done = d, !.lost = l]
           r    == Out!Settled(j, accepted, answered)
<1>1. /\ j.todo \in Seq(Out!Request) /\ req \in Out!Request /\ rest \in Seq(Out!Request) /\ d \in Seq(Out!Request)
      /\ l \in BOOLEAN /\ <<>> \in Seq(Out!Request) /\ j.failed \in BOOLEAN
  BY HeadTailProperties DEF OutJobRecords
<1>2. /\ jj \in OutJobRecords /\ jj.pc = "request" /\ jj.kind = j.kind /\ jj.plan = j.plan /\ jj.done = d
      /\ jj.lost = l /\ jj.failed = j.failed /\ jj.todo = j.todo /\ jj.extra = 0 /\ ~jj.retried
  <2> HIDE DEF d, l
  <2>1. [j EXCEPT !.pc = "request", !.retried = FALSE, !.extra = 0] \in OutJobRecords
    <3>1. PICK z \in 0..2 : z = 0
      OBVIOUS
    <3>2. [j EXCEPT !.pc = "request", !.retried = FALSE, !.extra = z] \in OutJobRecords
      BY DEF OutJobRecords
    <3> QED BY <3>1, <3>2
  <2>2. PICK i \in OutJobRecords : i = [j EXCEPT !.pc = "request", !.retried = FALSE, !.extra = 0]
    BY <2>1
  <2>3. /\ i.pc = "request" /\ i.kind = j.kind /\ i.plan = j.plan /\ i.failed = j.failed /\ i.todo = j.todo
        /\ i.extra = 0 /\ ~i.retried
    BY <2>2 DEF OutJobRecords
  <2>4. jj = [i EXCEPT !.done = d, !.lost = l]
    BY <2>2 DEF OutJobRecords
  <2> HIDE DEF jj
  <2> QED BY <1>1, <2>3, <2>4 DEF OutJobRecords
<1>3. \A s \in Seq(Out!Request), f \in BOOLEAN :
        LET q == [jj EXCEPT !.todo = s]
            p == [jj EXCEPT !.failed = f, !.todo = s]
        IN  /\ q \in OutJobRecords /\ q.pc = "request" /\ q.kind = j.kind /\ q.plan = j.plan /\ q.done = d
            /\ q.lost = l /\ q.failed = j.failed /\ q.todo = s /\ q.extra = 0 /\ ~q.retried
            /\ p \in OutJobRecords /\ p.pc = "request" /\ p.kind = j.kind /\ p.plan = j.plan /\ p.done = d
            /\ p.lost = l /\ p.failed = f /\ p.todo = s /\ p.extra = 0 /\ ~p.retried
  <2> HIDE DEF jj, d, l
  <2> QED BY <1>2 DEF OutJobRecords
<1>4. r = CASE accepted /\ answered ->
                  [jj EXCEPT !.todo = IF req.what = "card" THEN <<>>
                                      ELSE IF j.failed THEN Out!Cut(rest) ELSE rest]
            [] ~(accepted /\ answered) /\ req.what = "card" ->
                  [jj EXCEPT !.todo = rest]
            [] OTHER ->
                  [jj EXCEPT !.failed = TRUE,
                             !.todo = IF platform = "feishu" THEN <<>> ELSE Out!Cut(rest)]
  <2>1. jj = Out!Over(j, accepted, answered)
    BY DEF Out!Over
  <2> HIDE DEF jj
  <2> QED BY <2>1 DEF Out!Settled
<1>5. Out!Cut(rest) \in {<<>>, rest}
  BY DEF Out!Cut
<1> HIDE DEF jj, rest, req, d, l, r
<1>6. \A t \in {<<>>, rest} : t \in Seq(Out!Request)
  BY <1>1
<1>7. CASE accepted /\ answered
  <2> DEFINE t == IF req.what = "card" THEN <<>> ELSE IF j.failed THEN Out!Cut(rest) ELSE rest
  <2>1. r = [jj EXCEPT !.todo = t] /\ t \in {<<>>, rest}
    BY <1>4, <1>5, <1>7
  <2>2. (req.what = "card" => t = <<>>) /\ (req.what # "card" /\ ~j.failed => t = rest)
    OBVIOUS
  <2> HIDE DEF t
  <2>3. /\ r \in OutJobRecords /\ r.pc = "request" /\ r.kind = j.kind /\ r.plan = j.plan /\ r.done = d
        /\ r.lost = l /\ r.failed = j.failed /\ r.todo = t /\ r.extra = 0 /\ ~r.retried
    BY <1>1, <1>3, <1>6, <2>1
  <2> QED BY <1>1, <1>7, <2>1, <2>2, <2>3 DEF OutAfter, req, rest, d, l, r
<1>8. CASE ~(accepted /\ answered) /\ req.what = "card"
  <2>1. r = [jj EXCEPT !.todo = rest]
    BY <1>4, <1>8
  <2>3. /\ r \in OutJobRecords /\ r.pc = "request" /\ r.kind = j.kind /\ r.plan = j.plan /\ r.done = d
        /\ r.lost = l /\ r.failed = j.failed /\ r.todo = rest /\ r.extra = 0 /\ ~r.retried
    BY <1>1, <1>3, <2>1
  <2> QED BY <1>1, <1>8, <2>1, <2>3 DEF OutAfter, req, rest, d, l, r
<1>9. CASE ~(accepted /\ answered) /\ req.what # "card"
  <2> DEFINE t == IF platform = "feishu" THEN <<>> ELSE Out!Cut(rest)
  <2>1. r = [jj EXCEPT !.failed = TRUE, !.todo = t] /\ t \in {<<>>, rest}
    BY <1>4, <1>5, <1>9
  <2> HIDE DEF t
  <2>3. /\ r \in OutJobRecords /\ r.pc = "request" /\ r.kind = j.kind /\ r.plan = j.plan /\ r.done = d
        /\ r.lost = l /\ r.failed = TRUE /\ r.todo = t /\ r.extra = 0 /\ ~r.retried
    BY <1>1, <1>3, <1>6, <2>1
  <2> QED BY <1>1, <1>9, <2>1, <2>3 DEF OutAfter, req, rest, d, l, r
<1> QED BY <1>7, <1>8, <1>9

LEMMA OutSettles ==
  ASSUME NEW j \in OutJobRecords, OutJobSound(platform, j), j.pc # "idle", j.todo # <<>>,
         NEW accepted \in BOOLEAN, NEW answered \in BOOLEAN
  PROVE  Out!Settled(j, accepted, answered) \in OutJobRecords /\ OutJobSound(platform, Out!Settled(j, accepted, answered))
<1> DEFINE req  == j.todo[1]
           rest == Tail(j.todo)
           took == Out!Took(j, accepted)
           d    == IF took THEN Append(j.done, req) ELSE j.done
           r    == Out!Settled(j, accepted, answered)
<1>1. PICK t \in {<<>>, rest}, f \in BOOLEAN :
        /\ r \in OutJobRecords /\ r.pc = "request" /\ r.kind = j.kind /\ r.plan = j.plan
        /\ r.todo = t /\ r.failed = f /\ r.done = d /\ r.extra = 0 /\ ~r.retried
        /\ r.lost = (j.kind = "card" /\ (j.lost \/ (accepted /\ ~answered)))
        /\ accepted /\ answered /\ req.what = "card" => t = <<>> /\ f = j.failed
        /\ accepted /\ answered /\ req.what # "card" => f = j.failed /\ (~f => t = rest)
        /\ ~(accepted /\ answered) /\ req.what = "card" => t = rest /\ f = j.failed
        /\ ~(accepted /\ answered) /\ req.what # "card" => f
  <2>1. PICK t \in {<<>>, rest}, f \in BOOLEAN : OutAfter(j, accepted, answered, t, f)
    BY OutLeft
  <2> QED BY <2>1 DEF OutAfter
<1>2. /\ j.todo \in Seq(Out!Request) /\ j.done \in Seq(Out!Request) /\ j.plan \in Seq(Out!Request)
      /\ req \in Out!Request /\ rest \in Seq(Out!Request) /\ 1 \in DOMAIN j.todo
      /\ \A i \in DOMAIN rest : i + 1 \in DOMAIN j.todo /\ rest[i] = j.todo[i + 1] /\ i \in Nat /\ i + 1 # 1
  <2>1. j.todo \in Seq(Out!Request) /\ j.done \in Seq(Out!Request) /\ j.plan \in Seq(Out!Request)
    BY DEF OutJobRecords
  <2>2. PICK q \in Seq(Out!Request) : q = j.todo
    BY <2>1
  <2>3. q # <<>> /\ q[1] \in Out!Request /\ Tail(q) \in Seq(Out!Request) /\ 1 \in DOMAIN q
    BY <2>2, HeadTailProperties
  <2>4. \A i \in DOMAIN Tail(q) : i + 1 \in DOMAIN q /\ Tail(q)[i] = q[i + 1] /\ i \in Nat /\ i + 1 # 1
    <3>1. Tail(q) \in Seq(Out!Request) /\ Len(Tail(q)) = Len(q) - 1 /\ Len(q) \in Nat /\ Len(q) > 0
      BY <2>3, HeadTailProperties
    <3> QED BY <3>1
  <2> QED BY <2>1, <2>2, <2>3, <2>4
<1>2a. (accepted => took) /\ (took /\ ~accepted => j.lost) /\ took \in BOOLEAN
  BY DEF Out!Took, OutJobSound, OutTries
<1> HIDE DEF r, took
<1>3. /\ OutDistinct(j.done) /\ OutDistinct(j.todo) /\ OutElements(j.done) \cap OutElements(j.todo) = {}
      /\ \A i \in DOMAIN j.todo : j.todo[i].what = "card" =>
           i = 1 /\ j.done = <<>> /\ j.kind = "card" /\ ~j.failed /\ j.todo = j.plan
      /\ (\E i \in DOMAIN j.done : j.done[i].what = "card") /\ ~j.lost => Len(j.done) = 1 /\ j.todo = <<>>
      /\ (\E i \in DOMAIN j.done : j.done[i].what = "card") => j.kind = "card"
      /\ ~j.failed => OutInOrder(j)
      /\ j.plan # <<>>
  BY DEF OutJobSound
<1>4. req \in OutElements(j.todo) /\ req \notin OutElements(j.done)
  <2>1. req \in OutElements(j.todo)
    BY <1>2, Zenon DEF OutElements
  <2> HIDE DEF req
  <2> QED BY <1>3, <2>1
<1>5. d \in Seq(Out!Request) /\ OutDistinct(d) /\ OutElements(d) \subseteq OutElements(j.done) \cup {req}
  <2>1. CASE took
    <3>1. PICK s \in Seq(Out!Request), x \in Out!Request : s = j.done /\ x = req
      BY <1>2
    <3>2. /\ Append(s, x) \in Seq(Out!Request) /\ DOMAIN Append(s, x) = 1..(Len(s) + 1) /\ DOMAIN s = 1..Len(s)
          /\ Append(s, x)[Len(s) + 1] = x /\ \A i \in 1..Len(s) : Append(s, x)[i] = s[i]
          /\ \A i \in 1..(Len(s) + 1) : i \in 1..Len(s) \/ i = Len(s) + 1
      OBVIOUS
    <3>3. d = Append(s, x)
      BY <2>1, <3>1
    <3> HIDE DEF d, req
    <3>4. \A i \in 1..Len(s) : s[i] # x
      BY <1>4, <3>1, <3>2 DEF OutElements
    <3>5. OutDistinct(d)
      BY <1>3, <3>1, <3>2, <3>3, <3>4 DEF OutDistinct
    <3>6. OutElements(d) \subseteq OutElements(j.done) \cup {req}
      BY <3>1, <3>2, <3>3 DEF OutElements
    <3> QED BY <3>2, <3>3, <3>5, <3>6
  <2>2. CASE ~took
    BY <1>2, <1>3, <2>2
  <2> QED BY <2>1, <2>2
<1>6. OutDistinct(rest) /\ OutElements(rest) \subseteq OutElements(j.todo) \ {req}
  <2>1. ASSUME NEW i \in DOMAIN rest, NEW k \in DOMAIN rest, i # k PROVE rest[i] # rest[k]
    <3>1. i + 1 # k + 1
      BY <1>2, <2>1
    <3> QED BY <1>2, <1>3, <3>1 DEF OutDistinct
  <2>2. \A i \in DOMAIN rest : rest[i] \in OutElements(j.todo) /\ rest[i] # req
    BY <1>2, <1>3 DEF OutDistinct, OutElements
  <2> QED BY <2>1, <2>2 DEF OutDistinct, OutElements
<1>7. OutDistinct(t) /\ OutElements(d) \cap OutElements(t) = {}
  <2>1. OutDistinct(<<>>) /\ OutElements(<<>>) = {}
    BY DEF OutDistinct, OutElements
  <2> QED BY <1>1, <1>3, <1>5, <1>6, <2>1
<1>8. \A i \in DOMAIN rest : rest[i].what # "card"
  BY <1>2, <1>3
<1>9. \A i \in DOMAIN t : t[i].what # "card"
  <2>1. DOMAIN <<>> = {}
    OBVIOUS
  <2> QED BY <1>1, <1>8, <2>1
<1>10. req.what = "card" => /\ j.done = <<>> /\ j.kind = "card" /\ ~j.failed /\ j.todo = j.plan
                            /\ d = (IF took THEN <<req>> ELSE <<>>)
  <2>1. Append(<<>>, req) = <<req>>
    OBVIOUS
  <2> QED BY <1>2, <1>3, <2>1
<1>11. ASSUME \E i \in DOMAIN d : d[i].what = "card", ~r.lost PROVE Len(d) = 1 /\ t = <<>>
  <2>1. CASE req.what = "card"
    <3>1. accepted /\ answered
      <4>1. DOMAIN <<>> = {}
        OBVIOUS
      <4>2. took
        BY <1>10, <1>11, <2>1, <4>1
      <4> QED BY <1>1, <1>2a, <1>10, <1>11, <2>1, <4>2
    <3>2. Len(<<req>>) = 1
      OBVIOUS
    <3> QED BY <1>1, <1>2a, <1>10, <2>1, <3>1, <3>2
  <2>2. CASE req.what # "card"
    <3>1. PICK i \in DOMAIN d : d[i].what = "card"
      BY <1>11
    <3>2. d[i] \in OutElements(d) /\ d[i] # req
      BY <2>2, <3>1 DEF OutElements
    <3>3. d[i] \in OutElements(j.done)
      BY <1>5, <3>2
    <3>4. PICK k \in DOMAIN j.done : j.done[k] = d[i]
      BY <3>3 DEF OutElements
    <3>5. j.lost /\ j.kind = "card"
      BY <1>3, <3>1, <3>4
    <3> QED BY <1>1, <1>11, <3>5
  <2> QED BY <2>1, <2>2
<1>11a. ASSUME \E i \in DOMAIN d : d[i].what = "card" PROVE j.kind = "card"
  <2>1. PICK i \in DOMAIN d : d[i].what = "card"
    BY <1>11a
  <2>2. d[i] \in OutElements(j.done) \/ d[i] = req
    BY <1>5 DEF OutElements
  <2> HIDE DEF d, req
  <2>3. CASE d[i] \in OutElements(j.done)
    BY <1>3, <2>1, <2>3 DEF OutElements
  <2> QED BY <1>10, <2>1, <2>2, <2>3
<1>12. ASSUME ~f PROVE OutInOrder(r)
  <2>1. CASE req.what = "card" /\ accepted /\ answered
    <3>1. t = <<>> /\ d = <<j.plan[1]>> /\ j.kind = "card"
      BY <1>1, <1>2a, <1>10, <2>1
    <3> QED BY <1>1, <1>3, <3>1 DEF OutInOrder
  <2>2. CASE req.what = "card" /\ ~(accepted /\ answered)
    <3>1. t = rest /\ rest = Tail(j.plan) /\ j.kind = "card"
      BY <1>1, <1>10, <2>2
    <3>2. CASE took
      <4>1. d \o t = j.done \o j.todo
        BY <1>2, <3>1, <3>2, OutMovesOn
      <4>2. <<>> \o j.plan = j.plan
        BY <1>2
      <4>3. d \o t = j.plan
        BY <1>10, <2>2, <4>1, <4>2
      <4> QED BY <1>1, <4>3 DEF OutInOrder
    <3>3. CASE ~took
      <4>1. d = <<>>
        BY <1>10, <2>2, <3>3
      <4>2. <<>> \o rest = rest
        BY <1>2
      <4> QED BY <1>1, <1>3, <3>1, <4>1, <4>2 DEF OutInOrder
    <3> QED BY <3>2, <3>3
  <2>3. CASE req.what # "card"
    <3>1. accepted /\ answered /\ t = rest /\ ~j.failed
      BY <1>1, <1>12, <2>3
    <3>2. d \o t = j.done \o j.todo
      BY <1>2, <1>2a, <3>1, OutMovesOn
    <3>3. OutInOrder(j)
      BY <1>3, <3>1
    <3> QED BY <1>1, <3>2, <3>3 DEF OutInOrder
  <2> QED BY <2>1, <2>2, <2>3
<1>13. OutJobSound(platform, r)
  <2>1. OutTries(platform, r)
    BY <1>1 DEF OutTries
  <2> HIDE DEF d
  <2> QED BY <1>1, <1>3, <1>5, <1>7, <1>9, <1>11, <1>11a, <1>12, <2>1 DEF OutJobSound
<1> QED BY <1>1, <1>13 DEF r

OutSlots == 1..StageCacheSize
OutEntries == [chat : Chats \cup {"none"}, count : 0..StageMax]

LEMMA OutConstants ==
  ASSUME Out!SendAssumption
  PROVE  /\ StageLimit \in Nat \ {0} /\ StageMax \in Nat \ {0} /\ StageCacheSize \in Nat \ {0}
         /\ MaxChunks \in Nat \ {0} /\ StageLimit + 1 < StageMax
         /\ IsFiniteSet(Chats) /\ "none" \notin Chats /\ MaxMissed \in Nat
  BY OutFiniteSets DEF Out!SendAssumption

LEMMA OutNextSlot == ASSUME NEW size \in Nat \ {0}, NEW i \in 1..size
                  PROVE (i % size) + 1 = IF i = size THEN 1 ELSE i + 1
<1>1. CASE i = size
  <2>1. size % size = 0
    OBVIOUS
  <2> QED BY <1>1, <2>1
<1>2. CASE i < size
  <2>1. i % size = i
    BY <1>2
  <2> QED BY <1>2, <2>1
<1> QED BY <1>1, <1>2

(* As long as a chat is not in the cache a slot is free for it.             *)
LEMMA OutRoom ==
  ASSUME Out!SendAssumption, Out!TypeOK, OutStageInv, Cardinality(Chats) <= StageCacheSize, NEW c \in Chats,
         \A i \in OutSlots : stageCache[i].chat # c
  PROVE  /\ stageCache[stageIdx].chat = "none"
         /\ \A i \in OutSlots : stageCache[i].chat = "none" <=> i >= stageIdx
<1> USE OutConstants
<1>1. stageCache \in [OutSlots -> OutEntries] /\ stageIdx \in OutSlots
  BY DEF Out!TypeOK, OutSlots, OutEntries
<1>2. SUFFICES ASSUME \A i \in OutSlots : stageCache[i].chat # "none" PROVE FALSE
  BY <1>1 DEF OutStageInv, OutFilled, OutSlots
<1> DEFINE f == [i \in OutSlots |-> stageCache[i].chat]
<1>3. f \in [OutSlots -> Chats \ {c}]
  BY <1>1, <1>2 DEF OutEntries
<1>4. \A i, k \in OutSlots : f[i] = f[k] => i = k
  BY <1>2 DEF OutStageInv, OutSlots
<1> HIDE DEF f
<1>5. IsFiniteSet(OutSlots) /\ Cardinality(OutSlots) = StageCacheSize
  BY FS_Interval DEF OutSlots
<1>6. IsFiniteSet(Chats \ {c}) /\ Cardinality(Chats \ {c}) = Cardinality(Chats) - 1
  BY FS_RemoveElement
<1>7. Cardinality(Chats) \in Nat
  BY FS_CardinalityType
<1>8. Cardinality(Chats \ {c}) < Cardinality(OutSlots)
  BY <1>5, <1>6, <1>7
<1>9. PICK few, all : few = Chats \ {c} /\ all = OutSlots
  OBVIOUS
<1>10. \E i, k \in all : i # k /\ f[i] = f[k]
  <2>1. IsFiniteSet(few) /\ IsFiniteSet(all) /\ Cardinality(few) < Cardinality(all) /\ f \in [all -> few]
    BY <1>3, <1>5, <1>6, <1>8, <1>9, Zenon
  <2> QED BY <2>1, FS_PigeonHole
<1> QED BY <1>4, <1>9, <1>10

LEMMA OutOneEntry ==
  ASSUME NEW cache, NEW c, NEW i \in DOMAIN cache, cache[i].chat = c,
         \A k \in DOMAIN cache : cache[k].chat = c => k = i
  PROVE  LET entry == {k \in DOMAIN cache : cache[k].chat = c}
         IN  entry = {i} /\ entry # {} /\ (CHOOSE k \in entry : TRUE) = i
<1> DEFINE entry == {k \in DOMAIN cache : cache[k].chat = c}
<1>1. entry = {i}
  OBVIOUS
<1> HIDE DEF entry
<1>2. (CHOOSE k \in entry : TRUE) \in entry
  BY <1>1
<1> QED BY <1>1, <1>2 DEF entry

(* A chat keeps its slot, with the count that is noted.                     *)
LEMMA OutNoted ==
  ASSUME Out!SendAssumption, Out!TypeOK, OutStageInv, Cardinality(Chats) <= StageCacheSize,
         NEW c \in Chats, NEW count \in 0..StageMax, Out!Noted(c, count),
         stagesShown' \in [Chats -> Nat], missed' \in [Chats -> 0..MaxMissed],
         stagesShown'[c] <= count + missed'[c], stagesShown'[c] <= StageLimit + 1 + missed'[c],
         \A d \in Chats \ {c} : stagesShown'[d] = stagesShown[d] /\ missed'[d] = missed[d]
  PROVE  OutStageInv'
<1> USE OutConstants
<1>1. /\ stageCache \in [OutSlots -> OutEntries] /\ stageIdx \in OutSlots
      /\ DOMAIN stageCache = OutSlots
  BY DEF Out!TypeOK, OutSlots, OutEntries
<1>2. /\ OutFilled
      /\ \A i, k \in OutSlots : stageCache[i].chat = stageCache[k].chat /\ stageCache[i].chat # "none" => i = k
      /\ \A d \in Chats :
           /\ stagesShown[d] <= StageLimit + 1 + missed[d]
           /\ \A i \in OutSlots : stageCache[i].chat = d => stagesShown[d] <= stageCache[i].count + missed[d]
           /\ (\A i \in OutSlots : stageCache[i].chat # d) => stagesShown[d] <= missed[d]
  BY DEF OutStageInv, OutSlots
<1>3. PICK s \in OutSlots :
        /\ stageCache' = [stageCache EXCEPT ![s] = [chat |-> c, count |-> count]]
        /\ \A i \in OutSlots : stageCache[i].chat = c => i = s
        /\ \/ stageCache[s].chat = c /\ stageIdx' = stageIdx
           \/ /\ stageCache[s].chat = "none" /\ s = stageIdx
              /\ \A i \in OutSlots : stageCache[i].chat = "none" <=> i >= stageIdx
              /\ stageIdx' = IF stageIdx = StageCacheSize THEN 1 ELSE stageIdx + 1
  <2>1. CASE \E i \in OutSlots : stageCache[i].chat = c
    <3>1. PICK i \in OutSlots : stageCache[i].chat = c
      BY <2>1
    <3>2. \A k \in OutSlots : stageCache[k].chat = c => k = i
      BY <1>2, <3>1
    <3>3. Out!Entry(c) # {} /\ (CHOOSE k \in Out!Entry(c) : TRUE) = i
      BY <1>1, <3>1, <3>2, OutOneEntry DEF Out!Entry
    <3>4. Out!SlotOf(c) = i
      BY <3>3 DEF Out!SlotOf
    <3> QED BY <3>1, <3>2, <3>3, <3>4 DEF Out!Noted
  <2>2. CASE \A i \in OutSlots : stageCache[i].chat # c
    <3>1. Out!Entry(c) = {}
      BY <1>1, <2>2 DEF Out!Entry
    <3>2. /\ stageCache[stageIdx].chat = "none"
          /\ \A i \in OutSlots : stageCache[i].chat = "none" <=> i >= stageIdx
      BY <2>2, OutRoom
    <3>3. Out!SlotOf(c) = stageIdx
      BY <3>1 DEF Out!SlotOf
    <3>4. stageIdx' = IF stageIdx = StageCacheSize THEN 1 ELSE stageIdx + 1
      <4>1. stageIdx' = (stageIdx % StageCacheSize) + 1
        BY <3>1 DEF Out!Noted
      <4>2. stageIdx \in 1..StageCacheSize
        BY <1>1 DEF OutSlots
      <4> QED BY <4>1, <4>2, OutNextSlot
    <3>5. stageCache' = [stageCache EXCEPT ![stageIdx] = [chat |-> c, count |-> count]]
      BY <3>3 DEF Out!Noted
    <3> QED BY <1>1, <2>2, <3>2, <3>4, <3>5
  <2> QED BY <2>1, <2>2
<1>4. /\ \A i \in OutSlots \ {s} : stageCache'[i] = stageCache[i]
      /\ stageCache'[s].chat = c /\ stageCache'[s].count = count
  BY <1>1, <1>3
<1>5. OutFilled'
  <2>1. CASE stageCache[s].chat = c /\ stageIdx' = stageIdx
    <3>1. \A i \in OutSlots : stageCache'[i].chat = stageCache[i].chat
      BY <1>4, <2>1
    <3> QED BY <1>2, <2>1, <3>1 DEF OutFilled, OutSlots
  <2>2. CASE /\ stageCache[s].chat = "none" /\ s = stageIdx
             /\ \A i \in OutSlots : stageCache[i].chat = "none" <=> i >= stageIdx
             /\ stageIdx' = IF stageIdx = StageCacheSize THEN 1 ELSE stageIdx + 1
    <3>1. \A i \in OutSlots : stageCache'[i].chat = "none" <=> i > stageIdx
      BY <1>1, <1>4, <2>2 DEF OutSlots
    <3>2. CASE stageIdx = StageCacheSize
      <4>1. stageIdx' = 1
        BY <2>2, <3>2
      <4>2. \A i \in OutSlots : ~(i > stageIdx)
        BY <3>2 DEF OutSlots
      <4> QED BY <3>1, <4>1, <4>2 DEF OutFilled, OutSlots
    <3>3. CASE stageIdx # StageCacheSize
      <4>1. stageIdx' = stageIdx + 1
        BY <2>2, <3>3
      <4>2. \A i \in OutSlots : i > stageIdx <=> i >= stageIdx'
        BY <1>1, <4>1 DEF OutSlots
      <4> QED BY <3>1, <4>2 DEF OutFilled, OutSlots
    <3> QED BY <3>2, <3>3
  <2> QED BY <1>3, <2>1, <2>2
<1>6. ASSUME NEW i \in OutSlots, NEW k \in OutSlots, stageCache'[i].chat = stageCache'[k].chat, stageCache'[i].chat # "none"
      PROVE  i = k
  BY <1>2, <1>3, <1>4, <1>6
<1>7. ASSUME NEW d \in Chats
      PROVE  /\ stagesShown'[d] <= StageLimit + 1 + missed'[d]
             /\ \A i \in OutSlots : stageCache'[i].chat = d => stagesShown'[d] <= stageCache'[i].count + missed'[d]
             /\ (\A i \in OutSlots : stageCache'[i].chat # d) => stagesShown'[d] <= missed'[d]
  <2>1. CASE d = c
    <3>1. \A i \in OutSlots : stageCache'[i].chat = c => i = s
      BY <1>3, <1>4
    <3> QED BY <1>4, <2>1, <3>1
  <2>2. CASE d # c
    <3>1. stagesShown'[d] = stagesShown[d] /\ missed'[d] = missed[d]
      BY <2>2
    <3>2. \A i \in OutSlots : stageCache'[i].chat = d => i # s /\ stageCache[i] = stageCache'[i]
      BY <1>4, <2>2
    <3>3. (\A i \in OutSlots : stageCache'[i].chat # d) => \A i \in OutSlots : stageCache[i].chat # d
      BY <1>3, <1>4, <2>2
    <3> QED BY <1>2, <3>1, <3>2, <3>3
  <2> QED BY <2>1, <2>2
<1> QED BY <1>5, <1>6, <1>7 DEF OutStageInv, OutSlots

(* What is let through without the lock is no more than is known of.        *)
LEMMA OutUnnoted ==
  ASSUME Out!SendAssumption, Out!TypeOK, OutStageInv, UNCHANGED <<stageCache, stageIdx>>,
         stagesShown' \in [Chats -> Nat], missed' \in [Chats -> 0..MaxMissed],
         \A d \in Chats : \/ stagesShown'[d] = stagesShown[d] /\ missed'[d] = missed[d]
                          \/ stagesShown'[d] = stagesShown[d] + 1 /\ missed'[d] = missed[d] + 1
                          \/ stagesShown'[d] = 0
  PROVE  OutStageInv'
<1> USE OutConstants
<1>1. CASE ~(Cardinality(Chats) <= StageCacheSize)
  BY <1>1 DEF OutStageInv
<1>2. CASE Cardinality(Chats) <= StageCacheSize
  <2>1. stageCache \in [OutSlots -> OutEntries]
    BY DEF Out!TypeOK, OutSlots, OutEntries
  <2>2. ASSUME NEW d \in Chats
        PROVE  /\ stagesShown'[d] <= StageLimit + 1 + missed'[d]
               /\ \A i \in OutSlots : stageCache[i].chat = d => stagesShown'[d] <= stageCache[i].count + missed'[d]
               /\ (\A i \in OutSlots : stageCache[i].chat # d) => stagesShown'[d] <= missed'[d]
    <3>1. /\ stagesShown[d] <= StageLimit + 1 + missed[d]
          /\ \A i \in OutSlots : stageCache[i].chat = d => stagesShown[d] <= stageCache[i].count + missed[d]
          /\ (\A i \in OutSlots : stageCache[i].chat # d) => stagesShown[d] <= missed[d]
      BY <1>2 DEF OutStageInv, OutSlots
    <3>2. stagesShown[d] \in Nat /\ missed[d] \in Nat /\ missed'[d] \in Nat /\ stagesShown'[d] \in Nat
      BY DEF Out!TypeOK
    <3>3. \A i \in OutSlots : stageCache[i].count \in Nat
      BY <2>1 DEF OutEntries
    <3> QED BY <3>1, <3>2, <3>3
  <2> QED BY <1>2, <2>2 DEF OutStageInv, OutFilled, OutSlots
<1> QED BY <1>1, <1>2

LEMMA OutStart == Out!SendAssumption /\ Out!Init => OutInv
<1> SUFFICES ASSUME Out!SendAssumption, Out!Init PROVE OutInv
  OBVIOUS
<1> USE OutConstants
<1>1. Out!Idle \in OutJobRecords /\ <<>> \in Seq(Out!Request)
  BY DEF Out!Idle, OutJobRecords
<1>2. OutJobSound(platform, Out!Idle)
  <2>1. <<>> \o <<>> = <<>> /\ DOMAIN <<>> = {}
    BY <1>1
  <2>2. OutInOrder(Out!Idle)
    BY <2>1 DEF OutInOrder, Out!Idle
  <2>3. OutDistinct(<<>>) /\ OutElements(<<>>) = {}
    BY <2>1 DEF OutDistinct, OutElements
  <2>4. OutTries(platform, Out!Idle)
    BY DEF OutTries, Out!Idle
  <2> QED BY <2>1, <2>2, <2>3, <2>4 DEF OutJobSound, Out!Idle
<1>3. stageCache \in [OutSlots -> OutEntries] /\ \A i \in OutSlots : stageCache[i].chat = "none"
  BY DEF Out!Init, OutSlots, OutEntries
<1>4. Out!TypeOK
  <2>1. job \in [Callers -> OutJobRecords]
    BY <1>1 DEF Out!Init
  <2>2. stageIdx \in 1..StageCacheSize /\ stagesShown \in [Chats -> Nat] /\ accessToken = "none"
        /\ missed \in [Chats -> 0..MaxMissed]
        /\ platform \in Out!Platforms
    BY DEF Out!Init
  <2> QED BY <1>3, <2>1, <2>2 DEF Out!TypeOK, OutJobRecords, OutSlots, OutEntries
<1>5. OutJobInv
  BY <1>2 DEF OutJobInv, Out!Init
<1>6. OutStageInv
  <2>1. stageIdx = 1 /\ \A c \in Chats : stagesShown[c] = 0 /\ missed[c] = 0
    BY DEF Out!Init
  <2>2. \A i \in OutSlots : i >= 1
    BY DEF OutSlots
  <2>3. OutFilled
    BY <1>3, <2>1, <2>2 DEF OutFilled, OutSlots
  <2>4. \A c \in Chats : c # "none"
    OBVIOUS
  <2> QED BY <1>3, <2>1, <2>3, <2>4 DEF OutStageInv, OutSlots
<1> QED BY <1>4, <1>5, <1>6 DEF OutInv

(* A call that begins has its whole plan to send.                           *)
LEMMA OutCalls ==
  ASSUME NEW kind \in {"text", "media", "card"}, NEW s, OutPlanSound(kind, s)
  PROVE  LET j == [Out!Idle EXCEPT !.pc = "request", !.kind = kind, !.plan = s, !.todo = s]
         IN  j \in OutJobRecords /\ OutJobSound(platform, j)
<1> DEFINE j == [Out!Idle EXCEPT !.pc = "request", !.kind = kind, !.plan = s, !.todo = s]
<1>1. /\ j.pc = "request" /\ j.kind = kind /\ j.plan = s /\ j.todo = s /\ j.done = <<>>
      /\ j.extra = 0 /\ j.retried = FALSE /\ j.failed = FALSE /\ j.lost = FALSE
  BY DEF Out!Idle
<1>2. j \in OutJobRecords
  <2>1. s \in Seq(Out!Request) /\ <<>> \in Seq(Out!Request)
    BY DEF OutPlanSound
  <2>2. Out!Idle \in OutJobRecords
    BY <2>1 DEF OutJobRecords, Out!Idle
  <2> QED BY <2>1, <2>2 DEF OutJobRecords
<1> HIDE DEF j
<1>3. s \in Seq(Out!Request) /\ s # <<>> /\ OutDistinct(s)
      /\ \A i \in DOMAIN s : s[i].what = "card" => i = 1 /\ kind = "card"
  BY DEF OutPlanSound
<1>4. <<>> \o s = s /\ DOMAIN <<>> = {}
  BY <1>3
<1>5. OutDistinct(<<>>) /\ OutElements(<<>>) = {}
  BY <1>4 DEF OutDistinct, OutElements
<1>6. OutInOrder(j)
  BY <1>1, <1>4 DEF OutInOrder
<1>7. OutJobSound(platform, j)
  <2>1. OutTries(platform, j)
    BY <1>1 DEF OutTries
  <2> QED BY <1>1, <1>3, <1>4, <1>5, <1>6, <2>1 DEF OutJobSound
<1> QED BY <1>2, <1>7 DEF j

(* A request goes to the server, for the first time, anew or once more.     *)
OutMoved(j, q) ==
  \/ j.pc = "request" /\ q = [j EXCEPT !.pc = "post"]
  \/ platform = "qq" /\ ~j.retried /\ q = [j EXCEPT !.pc = "request", !.retried = TRUE]
  \/ j.pc # "again" /\ q = [j EXCEPT !.pc = "again", !.extra = @ + 1, !.lost = TRUE]

LEMMA OutGoes ==
  ASSUME NEW j \in OutJobRecords, OutJobSound(platform, j), j.pc # "idle", NEW q, OutMoved(j, q)
  PROVE  q \in OutJobRecords /\ OutJobSound(platform, q)
<1>1. OutTries(platform, j) /\ j.extra \in 0..2
  BY DEF OutJobSound, OutJobRecords
<1>2. /\ q \in OutJobRecords /\ q.pc # "idle" /\ q.kind = j.kind /\ q.plan = j.plan /\ q.todo = j.todo
      /\ q.done = j.done /\ q.failed = j.failed /\ (j.lost => q.lost) /\ OutTries(platform, q)
  <2>1. CASE j.pc = "request" /\ q = [j EXCEPT !.pc = "post"]
    BY <1>1, <2>1 DEF OutJobRecords, OutTries
  <2>2. CASE platform = "qq" /\ ~j.retried /\ q = [j EXCEPT !.pc = "request", !.retried = TRUE]
    BY <1>1, <2>2 DEF OutJobRecords, OutTries
  <2>3. CASE j.pc # "again" /\ q = [j EXCEPT !.pc = "again", !.extra = @ + 1, !.lost = TRUE]
    <3>1. j.extra + 1 \in 0..2 /\ (~(platform = "qq" /\ j.retried) => j.extra + 1 <= 1)
      BY <1>1, <2>3 DEF OutTries
    <3>2. PICK e \in 0..2 : e = j.extra + 1
      BY <3>1
    <3>3. q = [j EXCEPT !.pc = "again", !.extra = e, !.lost = TRUE]
      BY <2>3, <3>2 DEF OutJobRecords
    <3>4. /\ q \in OutJobRecords /\ q.pc = "again" /\ q.kind = j.kind /\ q.plan = j.plan /\ q.todo = j.todo
          /\ q.done = j.done /\ q.failed = j.failed /\ q.lost = TRUE /\ q.extra = e /\ q.retried = j.retried
      BY <3>3 DEF OutJobRecords
    <3>5. OutTries(platform, q)
      BY <3>1, <3>2, <3>4 DEF OutTries
    <3> QED BY <3>4, <3>5
  <2> QED BY <2>1, <2>2, <2>3 DEF OutMoved
<1> QED BY <1>2 DEF OutJobSound, OutInOrder

OutJobs == job \in [Callers -> OutJobRecords]

LEMMA OutMoves ==
  ASSUME OutJobs, OutJobInv, NEW k \in Callers, NEW j \in OutJobRecords, OutJobSound(platform, j), job' = [job EXCEPT ![k] = j],
         platform' = platform
  PROVE  OutJobs' /\ OutJobInv'
<1>1. job' \in [Callers -> OutJobRecords] /\ \A i \in Callers : job'[i] = IF i = k THEN j ELSE job[i]
  BY DEF OutJobs
<1> QED BY <1>1 DEF OutJobs, OutJobInv

LEMMA OutIsJobs == Out!TypeOK => OutJobs
  BY DEF Out!TypeOK, OutJobs, OutJobRecords

(* What the calls share apart from WeChat's count.                          *)
OutRest == platform \in Out!Platforms /\ accessToken \in {"none", "good", "revoked"}

LEMMA OutCalled ==
  ASSUME OutInv, NEW k \in Callers, NEW kind \in {"text", "media", "card"}, NEW s, OutPlanSound(kind, s), Out!Call(k, kind, s)
  PROVE  OutJobs' /\ OutJobInv' /\ OutRest'
<1>1. OutJobs /\ OutJobInv /\ OutRest
  BY OutIsJobs DEF OutInv, OutRest, Out!TypeOK
<1>2. PICK j : j = [Out!Idle EXCEPT !.pc = "request", !.kind = kind, !.plan = s, !.todo = s]
  OBVIOUS
<1>3. j \in OutJobRecords /\ OutJobSound(platform, j)
  BY <1>2, OutCalls, Zenon
<1>4. job' = [job EXCEPT ![k] = j] /\ OutRest' /\ platform' = platform
  BY <1>1, <1>2 DEF Out!Call, OutRest
<1> QED BY <1>1, <1>3, <1>4, OutMoves

LEMMA OutWhole ==
  ASSUME OutInv, OutJobs', OutJobInv', OutRest', UNCHANGED Out!wechatStage PROVE OutInv'
<1>1. UNCHANGED <<stageCache, stageIdx, stagesShown, missed>>
  BY DEF Out!wechatStage
<1>2. Out!TypeOK'
  BY <1>1 DEF OutInv, Out!TypeOK, OutJobs, OutRest, OutJobRecords
<1>3. OutStageInv'
  BY <1>1 DEF OutInv, OutStageInv, OutFilled
<1> QED BY <1>2, <1>3 DEF OutInv

(* A request that is over, in whichever of the three ways.                  *)
LEMMA OutEnds ==
  ASSUME OutInv, NEW k \in Callers, job[k].pc # "idle", job[k].todo # <<>>, Out!Outcome(k) \/ Out!Fails(k),
         UNCHANGED platform
  PROVE  OutJobs' /\ OutJobInv'
<1>1. OutJobs /\ OutJobInv /\ job[k] \in OutJobRecords /\ OutJobSound(platform, job[k])
  BY OutIsJobs DEF OutInv, OutJobInv, OutJobs
<1>2. PICK accepted \in BOOLEAN, answered \in BOOLEAN : job' = [job EXCEPT ![k] = Out!Settled(job[k], accepted, answered)]
  <2>1. job \in [Callers -> OutJobRecords]
    BY <1>1 DEF OutJobs
  <2> QED BY <2>1 DEF Out!Outcome, Out!Fails
<1>3. Out!Settled(job[k], accepted, answered) \in OutJobRecords /\ OutJobSound(platform, Out!Settled(job[k], accepted, answered))
  BY <1>1, OutSettles
<1> QED BY <1>1, <1>2, <1>3, OutMoves

(* What a request in hand may come to, and what becomes of the token.       *)
OutTurn(k) ==
  \/ job[k].pc = "request" /\ (Out!HasToken(k) \/ Out!Fetches(k))
  \/ platform = "qq" /\ Out!QqApiPost(k)
  \/ (Out!Perform(k) \/ Out!Fails(k)) /\ UNCHANGED accessToken

LEMMA OutToken ==
  ASSUME OutInv, NEW k \in Callers, job[k].pc # "idle", job[k].todo # <<>>, OutTurn(k), UNCHANGED platform
  PROVE  OutJobs' /\ OutJobInv' /\ OutRest'
<1>1. OutJobs /\ OutJobInv /\ job[k] \in OutJobRecords /\ OutJobSound(platform, job[k]) /\ OutRest
  BY OutIsJobs DEF OutInv, OutJobInv, OutJobs, OutRest, Out!TypeOK
<1>2. OutRest'
  BY <1>1 DEF OutTurn, OutRest, Out!HasToken, Out!Fetches, Out!QqApiPost
<1>3. \/ Out!Outcome(k) \/ Out!Fails(k)
      \/ job[k].pc = "request" /\ job' = [job EXCEPT ![k].pc = "post"]
      \/ platform = "qq" /\ ~job[k].retried /\ job' = [job EXCEPT ![k].pc = "request", ![k].retried = TRUE]
      \/ Out!Repeated(k)
  BY DEF OutTurn, Out!HasToken, Out!Fetches, Out!QqApiPost, Out!Perform
<1>4. job \in [Callers -> OutJobRecords]
  BY <1>1 DEF OutJobs
<1>5. ASSUME NEW q, OutMoved(job[k], q), job' = [job EXCEPT ![k] = q] PROVE OutJobs' /\ OutJobInv'
  <2>1. q \in OutJobRecords /\ OutJobSound(platform, q)
    BY <1>1, <1>5, OutGoes
  <2> QED BY <1>1, <1>5, <2>1, OutMoves
<1>6. CASE job[k].pc = "request" /\ job' = [job EXCEPT ![k].pc = "post"]
  <2>1. PICK q : q = [job[k] EXCEPT !.pc = "post"]
    OBVIOUS
  <2>2. job' = [job EXCEPT ![k] = q] /\ OutMoved(job[k], q)
    BY <1>4, <1>6, <2>1 DEF OutMoved
  <2> QED BY <1>2, <1>5, <2>2
<1>7. CASE platform = "qq" /\ ~job[k].retried /\ job' = [job EXCEPT ![k].pc = "request", ![k].retried = TRUE]
  <2>1. PICK q : q = [job[k] EXCEPT !.pc = "request", !.retried = TRUE]
    OBVIOUS
  <2>2. job' = [job EXCEPT ![k] = q]
    BY <1>4, <1>7, <2>1 DEF OutJobRecords
  <2>3. OutMoved(job[k], q)
    BY <1>7, <2>1 DEF OutMoved
  <2> QED BY <1>2, <1>5, <2>2, <2>3
<1>8. CASE Out!Repeated(k)
  <2>1. PICK q : q = [job[k] EXCEPT !.pc = "again", !.extra = @ + 1, !.lost = TRUE]
    OBVIOUS
  <2>2. job' = [job EXCEPT ![k] = q]
    BY <1>4, <1>8, <2>1 DEF OutJobRecords, Out!Repeated
  <2>3. OutMoved(job[k], q)
    BY <1>8, <2>1 DEF OutMoved, Out!Repeated
  <2> QED BY <1>2, <1>5, <2>2, <2>3
<1> QED BY <1>2, <1>3, <1>6, <1>7, <1>8, OutEnds

(* The count of a chat is at least what it was shown.                       *)
LEMMA OutCount ==
  ASSUME Out!SendAssumption, Out!TypeOK, NEW c \in Chats
  PROVE  /\ Out!CountOf(c) \in 0..StageMax /\ Out!StageCount(c) \in 0..StageMax
         /\ Out!StageCount(c) = Out!CountOf(c) + 1 \/ Out!StageCount(c) = StageMax
         /\ OutStageInv /\ Cardinality(Chats) <= StageCacheSize => stagesShown[c] <= Out!CountOf(c) + missed[c]
<1> USE OutConstants
<1>1. stageCache \in [OutSlots -> OutEntries] /\ stageIdx \in OutSlots /\ DOMAIN stageCache = OutSlots
      /\ stagesShown[c] \in Nat /\ missed[c] \in Nat
  BY DEF Out!TypeOK, OutSlots, OutEntries
<1>2. Out!SlotOf(c) \in OutSlots /\ (Out!Entry(c) # {} => Out!SlotOf(c) \in Out!Entry(c))
  BY <1>1 DEF Out!SlotOf, Out!Entry
<1>3. Out!CountOf(c) \in 0..StageMax
  BY <1>1, <1>2 DEF Out!CountOf, OutEntries
<1>4. ASSUME OutStageInv, Cardinality(Chats) <= StageCacheSize PROVE stagesShown[c] <= Out!CountOf(c) + missed[c]
  <2>1. CASE Out!Entry(c) # {}
    <3>1. stageCache[Out!SlotOf(c)].chat = c
      BY <1>2, <2>1 DEF Out!Entry
    <3> QED BY <1>2, <1>4, <2>1, <3>1 DEF OutStageInv, Out!CountOf, OutSlots
  <2>2. CASE Out!Entry(c) = {}
    <3>1. \A i \in OutSlots : stageCache[i].chat # c
      BY <1>1, <2>2 DEF Out!Entry
    <3>2. stagesShown[c] <= missed[c] /\ Out!CountOf(c) = 0
      BY <1>4, <2>2, <3>1 DEF OutStageInv, Out!CountOf, OutSlots
    <3> QED BY <1>1, <3>2
  <2> QED BY <2>1, <2>2
<1>5. /\ Out!StageCount(c) \in 0..StageMax
      /\ Out!StageCount(c) = Out!CountOf(c) + 1 \/ Out!StageCount(c) = StageMax
  BY <1>3 DEF Out!StageCount
<1> QED BY <1>3, <1>4, <1>5

LEMMA OutCached ==
  ASSUME Out!SendAssumption, Out!TypeOK, NEW c \in Chats, NEW count \in 0..StageMax, Out!Noted(c, count)
  PROVE  stageCache' \in [OutSlots -> OutEntries] /\ stageIdx' \in OutSlots
<1> USE OutConstants
<1>1. stageCache \in [OutSlots -> OutEntries] /\ stageIdx \in OutSlots /\ DOMAIN stageCache = OutSlots
  BY DEF Out!TypeOK, OutSlots, OutEntries
<1>2. Out!SlotOf(c) \in OutSlots
  BY <1>1 DEF Out!SlotOf, Out!Entry
<1>3. [chat |-> c, count |-> count] \in OutEntries
  BY DEF OutEntries
<1>4. (stageIdx % StageCacheSize) + 1 \in OutSlots
  <2>1. stageIdx \in 1..StageCacheSize
    BY <1>1 DEF OutSlots
  <2>2. (stageIdx % StageCacheSize) + 1 = IF stageIdx = StageCacheSize THEN 1 ELSE stageIdx + 1
    BY <2>1, OutNextSlot
  <2> QED BY <2>1, <2>2 DEF OutSlots
<1> QED BY <1>1, <1>2, <1>3, <1>4 DEF Out!Noted

LEMMA OutNotes ==
  ASSUME Out!SendAssumption, OutInv, OutJobs', OutJobInv', OutRest', NEW c \in Chats, NEW count \in 0..StageMax,
         Out!Noted(c, count), stagesShown' \in [Chats -> Nat], missed' \in [Chats -> 0..MaxMissed],
         OutStageInv /\ Cardinality(Chats) <= StageCacheSize =>
           stagesShown'[c] <= count + missed'[c] /\ stagesShown'[c] <= StageLimit + 1 + missed'[c],
         \A d \in Chats \ {c} : stagesShown'[d] = stagesShown[d] /\ missed'[d] = missed[d]
  PROVE  OutInv'
<1>1. OutStageInv'
  <2>1. CASE Cardinality(Chats) <= StageCacheSize
    BY <2>1, OutNoted DEF OutInv
  <2>2. CASE ~(Cardinality(Chats) <= StageCacheSize)
    BY <2>2 DEF OutStageInv
  <2> QED BY <2>1, <2>2
<1>2. stageCache' \in [OutSlots -> OutEntries] /\ stageIdx' \in OutSlots
  BY OutCached DEF OutInv
<1>3. Out!TypeOK'
  BY <1>2 DEF Out!TypeOK, OutJobs, OutRest, OutJobRecords, OutSlots, OutEntries
<1> QED BY <1>1, <1>3 DEF OutInv

LEMMA OutMisses ==
  ASSUME Out!SendAssumption, OutInv, OutJobs', OutJobInv', OutRest', UNCHANGED <<stageCache, stageIdx>>,
         stagesShown' \in [Chats -> Nat], missed' \in [Chats -> 0..MaxMissed],
         \A d \in Chats : \/ stagesShown'[d] = stagesShown[d] /\ missed'[d] = missed[d]
                          \/ stagesShown'[d] = stagesShown[d] + 1 /\ missed'[d] = missed[d] + 1
                          \/ stagesShown'[d] = 0
  PROVE  OutInv'
<1>1. OutStageInv'
  BY OutUnnoted DEF OutInv
<1>2. Out!TypeOK'
  BY DEF OutInv, Out!TypeOK, OutJobs, OutRest, OutJobRecords
<1> QED BY <1>1, <1>2 DEF OutInv

LEMMA OutStageLimited ==
  ASSUME Out!SendAssumption, OutInv, NEW k \in Callers, NEW c \in Chats, Out!StageLimited(k, c) PROVE OutInv'
<1> USE OutConstants
<1> DEFINE count == Out!StageCount(c)
<1>1. /\ Out!CountOf(c) \in 0..StageMax /\ count \in 0..StageMax
      /\ count = Out!CountOf(c) + 1 \/ count = StageMax
      /\ OutStageInv /\ Cardinality(Chats) <= StageCacheSize => stagesShown[c] <= Out!CountOf(c) + missed[c]
  BY OutCount DEF OutInv
<1>2. /\ Out!Noted(c, count) /\ missed' = missed
      /\ IF count <= StageLimit + 1
         THEN Out!Call(k, "text", Out!Chunks(1)) /\ stagesShown' = [stagesShown EXCEPT ![c] = @ + 1]
         ELSE UNCHANGED <<platform, job, accessToken, stagesShown>>
  BY DEF Out!StageLimited
<1> HIDE DEF count
<1>3. /\ stagesShown \in [Chats -> Nat] /\ missed' \in [Chats -> 0..MaxMissed]
      /\ OutJobs /\ OutJobInv /\ OutRest /\ stagesShown[c] \in Nat /\ missed[c] \in Nat /\ missed'[c] = missed[c]
  BY <1>2, OutIsJobs DEF OutInv, Out!TypeOK, OutRest
<1>4. CASE count <= StageLimit + 1
  <2>1. Out!Call(k, "text", Out!Chunks(1)) /\ stagesShown' = [stagesShown EXCEPT ![c] = @ + 1]
    BY <1>2, <1>4
  <2>2. 1 \in 1..MaxChunks
    OBVIOUS
  <2>3. OutPlanSound("text", Out!Chunks(1))
    BY <2>2, OutText
  <2>4. OutJobs' /\ OutJobInv' /\ OutRest'
    BY <2>1, <2>3, OutCalled
  <2>5. /\ stagesShown' \in [Chats -> Nat] /\ stagesShown'[c] = stagesShown[c] + 1
        /\ \A d \in Chats \ {c} : stagesShown'[d] = stagesShown[d] /\ missed'[d] = missed[d]
    BY <1>2, <1>3, <2>1
  <2>6. count = Out!CountOf(c) + 1
    BY <1>1, <1>4
  <2>7. OutStageInv /\ Cardinality(Chats) <= StageCacheSize =>
          stagesShown'[c] <= count + missed'[c] /\ stagesShown'[c] <= StageLimit + 1 + missed'[c]
    <3>1. PICK n \in Nat, m \in Nat, s \in Nat :
            n = Out!CountOf(c) /\ m = missed[c] /\ s = stagesShown[c]
      BY <1>1, <1>3
    <3> QED BY <1>1, <1>3, <1>4, <2>5, <2>6, <3>1
  <2> QED BY <1>1, <1>2, <1>3, <2>4, <2>5, <2>7, OutNotes
<1>5. CASE ~(count <= StageLimit + 1)
  <2>1. UNCHANGED <<platform, job, accessToken, stagesShown>>
    BY <1>2, <1>5
  <2>2. OutJobs' /\ OutJobInv' /\ OutRest'
    BY <1>3, <2>1 DEF OutJobs, OutJobInv, OutRest
  <2>3. OutStageInv /\ Cardinality(Chats) <= StageCacheSize =>
          stagesShown'[c] <= count + missed'[c] /\ stagesShown'[c] <= StageLimit + 1 + missed'[c]
    <3>1. OutStageInv /\ Cardinality(Chats) <= StageCacheSize => stagesShown[c] <= StageLimit + 1 + missed[c]
      BY DEF OutStageInv
    <3> QED BY <1>1, <1>3, <1>5, <2>1, <3>1
  <2> QED BY <1>1, <1>2, <1>3, <2>1, <2>2, <2>3, OutNotes
<1> QED BY <1>4, <1>5

LEMMA OutStageUncounted ==
  ASSUME Out!SendAssumption, OutInv, NEW k \in Callers, NEW c \in Chats, Out!StageUncounted(k, c) PROVE OutInv'
<1> USE OutConstants
<1>1. OutPlanSound("text", Out!Chunks(1))
  BY OutText
<1>2. OutJobs' /\ OutJobInv' /\ OutRest'
  BY <1>1, OutCalled DEF Out!StageUncounted
<1>3. stagesShown \in [Chats -> Nat] /\ missed \in [Chats -> 0..MaxMissed] /\ missed[c] < MaxMissed
  BY DEF OutInv, Out!TypeOK, Out!StageUncounted
<1>4. /\ missed' = [missed EXCEPT ![c] = @ + 1] /\ stagesShown' = [stagesShown EXCEPT ![c] = @ + 1]
      /\ UNCHANGED <<stageCache, stageIdx>>
  BY DEF Out!StageUncounted
<1>5. missed' \in [Chats -> 0..MaxMissed] /\ stagesShown' \in [Chats -> Nat]
  BY <1>3, <1>4
<1>6. \A d \in Chats : \/ stagesShown'[d] = stagesShown[d] /\ missed'[d] = missed[d]
                       \/ stagesShown'[d] = stagesShown[d] + 1 /\ missed'[d] = missed[d] + 1
  BY <1>3, <1>4
<1> QED BY <1>2, <1>4, <1>5, <1>6, OutMisses

LEMMA OutSendStage ==
  ASSUME Out!SendAssumption, OutInv, NEW k \in Callers, NEW c \in Chats, Out!SendStage(k, c) PROVE OutInv'
  BY OutStageLimited, OutStageUncounted DEF Out!SendStage

LEMMA OutSendFinal ==
  ASSUME Out!SendAssumption, OutInv, NEW k \in Callers, NEW c \in Chats, Out!SendFinal(k, c) PROVE OutInv'
<1> USE OutConstants
<1>1. stagesShown' = [stagesShown EXCEPT ![c] = 0] /\ missed' = [missed EXCEPT ![c] = 0]
  BY DEF Out!SendFinal
<1>2. PICK n \in 1..MaxChunks : Out!Call(k, "text", Out!Chunks(n))
  BY DEF Out!SendFinal
<1>3. OutPlanSound("text", Out!Chunks(n))
  BY OutText
<1>4. OutJobs' /\ OutJobInv' /\ OutRest'
  BY <1>2, <1>3, OutCalled
<1>5. stagesShown \in [Chats -> Nat] /\ missed \in [Chats -> 0..MaxMissed]
  BY DEF OutInv, Out!TypeOK
<1>6. /\ stagesShown' \in [Chats -> Nat] /\ stagesShown'[c] = 0 /\ 0 \in 0..StageMax
      /\ missed' \in [Chats -> 0..MaxMissed] /\ missed'[c] = 0
      /\ \A d \in Chats \ {c} : stagesShown'[d] = stagesShown[d] /\ missed'[d] = missed[d]
  BY <1>1, <1>5
<1>7. CASE Out!Noted(c, 0)
  <2>1. stagesShown'[c] <= 0 + missed'[c] /\ stagesShown'[c] <= StageLimit + 1 + missed'[c]
    BY <1>6
  <2> QED BY <1>4, <1>6, <1>7, <2>1, OutNotes
<1>8. CASE UNCHANGED <<stageCache, stageIdx>>
  <2>1. \A d \in Chats : (stagesShown'[d] = stagesShown[d] /\ missed'[d] = missed[d]) \/ stagesShown'[d] = 0
    BY <1>6
  <2> QED BY <1>4, <1>6, <1>8, <2>1, OutMisses
<1> QED BY <1>7, <1>8 DEF Out!SendFinal

LEMMA OutSendText ==
  ASSUME Out!SendAssumption, OutInv, NEW k \in Callers, NEW p, Out!SendText(k, p) PROVE OutInv'
<1>1. PICK n \in 1..MaxChunks : Out!Call(k, "text", Out!Chunks(n))
  BY DEF Out!SendText
<1>2. OutPlanSound("text", Out!Chunks(n))
  BY OutText
<1>3. OutJobs' /\ OutJobInv' /\ OutRest'
  BY <1>1, <1>2, OutCalled
<1> QED BY <1>3, OutWhole DEF Out!SendText

LEMMA OutSendMedia ==
  ASSUME Out!SendAssumption, OutInv, NEW k \in Callers,
         Out!TgSendMedia(k) \/ Out!QqSendMedia(k) \/ Out!FeishuSendMedia(k) \/ Out!WechatSendImage(k)
  PROVE  OutInv'
<1>1. UNCHANGED Out!wechatStage
  BY DEF Out!TgSendMedia, Out!QqSendMedia, Out!FeishuSendMedia, Out!WechatSendImage, Out!SendMedia
<1>2. \E n \in 0..MaxChunks : \/ Out!Call(k, "media", Out!TgMedia(n)) \/ Out!Call(k, "media", Out!QqMedia(n))
                              \/ Out!Call(k, "media", Out!FeishuMedia(n)) \/ Out!Call(k, "media", Out!WechatMedia(n))
  BY Zenon DEF Out!TgSendMedia, Out!QqSendMedia, Out!FeishuSendMedia, Out!WechatSendImage, Out!SendMedia
<1>3. PICK n \in 0..MaxChunks : \/ Out!Call(k, "media", Out!TgMedia(n)) \/ Out!Call(k, "media", Out!QqMedia(n))
                                \/ Out!Call(k, "media", Out!FeishuMedia(n)) \/ Out!Call(k, "media", Out!WechatMedia(n))
  BY <1>2
<1>4. /\ OutPlanSound("media", Out!TgMedia(n)) /\ OutPlanSound("media", Out!QqMedia(n))
      /\ OutPlanSound("media", Out!FeishuMedia(n)) /\ OutPlanSound("media", Out!WechatMedia(n))
  BY OutTgMedia, OutQqMedia, OutFeishuMedia, OutWechatMedia DEF Out!TgMedia, Out!QqMedia
<1>5. OutJobs' /\ OutJobInv' /\ OutRest'
  BY <1>3, <1>4, OutCalled
<1> QED BY <1>1, <1>5, OutWhole

LEMMA OutSendMessage ==
  ASSUME Out!SendAssumption, OutInv, NEW k \in Callers, Out!FeishuSendMessage(k) PROVE OutInv'
<1>1. PICK n \in 1..MaxChunks : Out!Call(k, "card", Out!FeishuMessage(n))
  BY DEF Out!FeishuSendMessage
<1>2. OutPlanSound("card", Out!FeishuMessage(n))
  BY OutFeishuMessage
<1>3. OutJobs' /\ OutJobInv' /\ OutRest'
  BY <1>1, <1>2, OutCalled
<1> QED BY <1>3, OutWhole DEF Out!FeishuSendMessage

LEMMA OutReturn ==
  ASSUME Out!SendAssumption, OutInv, NEW k \in Callers, Out!Return(k) PROVE OutInv'
<1>1. Out!Init => OutInv
  BY OutStart
<1>2. Out!Idle \in OutJobRecords /\ OutJobSound(platform, Out!Idle)
  <2>1. <<>> \in Seq(Out!Request) /\ <<>> \o <<>> = <<>> /\ DOMAIN <<>> = {}
    OBVIOUS
  <2>2. OutInOrder(Out!Idle)
    BY <2>1 DEF OutInOrder, Out!Idle
  <2>3. OutDistinct(<<>>) /\ OutElements(<<>>) = {}
    BY <2>1 DEF OutDistinct, OutElements
  <2>4. OutTries(platform, Out!Idle)
    BY DEF OutTries, Out!Idle
  <2> QED BY <2>1, <2>2, <2>3, <2>4 DEF OutJobSound, Out!Idle, OutJobRecords
<1>3. OutJobs /\ OutJobInv /\ OutRest
  BY OutIsJobs DEF OutInv, Out!TypeOK, OutRest
<1>4. OutJobs' /\ OutJobInv'
  BY <1>2, <1>3, OutMoves DEF Out!Return
<1>5. OutRest' /\ UNCHANGED Out!wechatStage
  BY <1>3 DEF Out!Return, OutRest
<1> QED BY <1>4, <1>5, OutWhole

(* Everything a caller does between its call and its return.                *)
OutServe(k) ==
  \/ Out!TgRequest(k) \/ Out!TgUpload(k) \/ Out!WechatRequest(k)
  \/ Out!WechatGetUploadUrl(k) \/ Out!WechatUploadCiphertext(k)
  \/ Out!QqGetAccessToken(k) \/ Out!QqSend(k) \/ Out!QqUpload(k)
  \/ Out!FeishuGetTenantToken(k) \/ Out!FeishuApiCall(k) \/ Out!FeishuUpload(k)

LEMMA OutServes ==
  ASSUME OutInv, NEW k \in Callers, OutServe(k) PROVE OutInv'
<1>1. /\ job[k].pc # "idle" /\ job[k].todo # <<>> /\ UNCHANGED platform /\ UNCHANGED Out!wechatStage
      /\ OutTurn(k)
  BY DEF OutServe, OutTurn, Out!Perform, Out!AtRequest, Out!TgRequest, Out!TgUpload, Out!WechatRequest, Out!WechatGetUploadUrl,
         Out!WechatUploadCiphertext, Out!QqGetAccessToken, Out!QqSend, Out!QqUpload, Out!FeishuGetTenantToken,
         Out!FeishuApiCall, Out!FeishuUpload
<1>2. OutJobs' /\ OutJobInv' /\ OutRest'
  BY <1>1, OutToken
<1> QED BY <1>1, <1>2, OutWhole

LEMMA OutStep == Out!SendAssumption /\ OutInv /\ [Out!Next]_(Out!vars) => OutInv'
<1> SUFFICES ASSUME Out!SendAssumption, OutInv, [Out!Next]_(Out!vars) PROVE OutInv'
  OBVIOUS
<1>1. CASE Out!TokenRevoked \/ Out!TokenCleared \/ UNCHANGED Out!vars
  <2>1. UNCHANGED <<platform, job>> /\ UNCHANGED Out!wechatStage /\ accessToken' \in {accessToken, "none", "revoked"}
    BY <1>1 DEF Out!TokenRevoked, Out!TokenCleared, Out!vars, Out!wechatStage
  <2>2. OutJobs /\ OutJobInv /\ OutRest
    BY OutIsJobs DEF OutInv, Out!TypeOK, OutRest
  <2>3. OutJobs' /\ OutJobInv' /\ OutRest'
    BY <2>1, <2>2 DEF OutJobs, OutJobInv, OutRest
  <2> QED BY <2>1, <2>3, OutWhole
<1>2. ASSUME NEW k \in Callers,
             \/ Out!TgSendText(k) \/ Out!QqSendText(k) \/ Out!FeishuSendText(k) \/ Out!WechatSendText(k)
             \/ Out!TgSendMedia(k) \/ Out!QqSendMedia(k) \/ Out!FeishuSendMedia(k) \/ Out!WechatSendImage(k)
             \/ Out!FeishuSendMessage(k)
             \/ \E chat \in Chats : Out!SendStage(k, chat) \/ Out!SendFinal(k, chat)
             \/ OutServe(k) \/ Out!Return(k)
      PROVE  OutInv'
  <2>1. CASE Out!TgSendText(k) \/ Out!QqSendText(k) \/ Out!FeishuSendText(k) \/ Out!WechatSendText(k)
    BY <2>1, OutSendText DEF Out!TgSendText, Out!QqSendText, Out!FeishuSendText, Out!WechatSendText
  <2>2. CASE Out!TgSendMedia(k) \/ Out!QqSendMedia(k) \/ Out!FeishuSendMedia(k) \/ Out!WechatSendImage(k)
    BY <2>2, OutSendMedia
  <2>3. CASE Out!FeishuSendMessage(k)
    BY <2>3, OutSendMessage
  <2>4. ASSUME NEW chat \in Chats, Out!SendStage(k, chat) \/ Out!SendFinal(k, chat) PROVE OutInv'
    BY <2>4, OutSendStage, OutSendFinal
  <2>5. CASE OutServe(k)
    BY <2>5, OutServes
  <2>6. CASE Out!Return(k)
    BY <2>6, OutReturn
  <2> QED BY <1>2, <2>1, <2>2, <2>3, <2>4, <2>5, <2>6
<1> QED BY <1>1, <1>2 DEF Out!Next, OutServe

LEMMA OutSound ==
  Out!SendAssumption /\ OutInv => Out!TypeOK /\ Out!OkMeansDelivered /\ Out!ShownOnce /\ Out!StageLimitKept
<1> SUFFICES ASSUME Out!SendAssumption, OutInv
             PROVE  Out!TypeOK /\ Out!OkMeansDelivered /\ Out!ShownOnce /\ Out!StageLimitKept
  OBVIOUS
<1>1. Out!TypeOK /\ Out!StageLimitKept
  BY OutFiniteSets DEF OutInv, OutStageInv, Out!StageLimitKept
<1>2. ASSUME NEW k \in Callers
      PROVE  /\ job[k] \in OutJobRecords /\ OutJobSound(platform, job[k])
             /\ job[k].done \in Seq(Out!Request) /\ job[k].plan \in Seq(Out!Request)
  <2>1. job[k] \in OutJobRecords
    BY OutIsJobs DEF OutInv, OutJobs
  <2> QED BY <2>1 DEF OutInv, OutJobInv, OutJobRecords
<1>3. Out!OkMeansDelivered
  <2> SUFFICES ASSUME NEW k \in Callers, Out!Returned(k), ~job[k].failed
               PROVE  IF job[k].kind = "card"
                      THEN \/ job[k].done = SubSeq(job[k].plan, 1, 1)
                           \/ job[k].done \in {job[k].plan, Tail(job[k].plan)}
                      ELSE job[k].done = job[k].plan
    BY DEF Out!OkMeansDelivered
  <2>1. job[k].pc # "idle" /\ job[k].todo = <<>>
    BY DEF Out!Returned
  <2>2. OutInOrder(job[k]) /\ job[k].plan # <<>>
    BY <1>2, <2>1 DEF OutJobSound
  <2>3. job[k].done \o <<>> = job[k].done
    BY <1>2
  <2>4. SubSeq(job[k].plan, 1, 1) = <<job[k].plan[1]>>
    <3>1. PICK s \in Seq(Out!Request) : s = job[k].plan
      BY <1>2
    <3>2. s # <<>> /\ Len(s) \in Nat /\ Len(s) >= 1
      BY <2>2, <3>1
    <3>3. /\ SubSeq(s, 1, 1) \in Seq(Out!Request) /\ Len(SubSeq(s, 1, 1)) = 1
          /\ SubSeq(s, 1, 1)[1] = s[1]
      BY <3>2
    <3>4. s[1] \in Out!Request
      BY <3>2
    <3>5. /\ <<s[1]>> \in Seq(Out!Request) /\ Len(<<s[1]>>) = 1 /\ <<s[1]>>[1] = s[1]
      BY <3>4
    <3>6. SubSeq(s, 1, 1) = <<s[1]>>
      <4>1. PICK a \in Seq(Out!Request), b \in Seq(Out!Request) : a = SubSeq(s, 1, 1) /\ b = <<s[1]>>
        BY <3>3, <3>5
      <4>2. Len(a) = 1 /\ Len(b) = 1 /\ a[1] = b[1]
        BY <3>3, <3>5, <4>1
      <4>3. a = b
        BY <4>2, SeqEqual
      <4> QED BY <4>1, <4>3
    <3> QED BY <3>1, <3>6
  <2> QED BY <2>1, <2>2, <2>3, <2>4 DEF OutInOrder
<1>4. Out!ShownOnce
  <2> SUFFICES ASSUME NEW k \in Callers
               PROVE  /\ OutDistinct(job[k].done)
                      /\ (\E i \in DOMAIN job[k].done : job[k].done[i].what = "card") /\ Len(job[k].done) > 1
                           => job[k].lost
                      /\ job[k].extra <= (IF platform = "qq" THEN 2 ELSE 1)
                      /\ job[k].extra > 0 => job[k].lost
    BY DEF Out!ShownOnce, OutDistinct
  <2>1. PICK j \in OutJobRecords : j = job[k]
    BY <1>2
  <2>2. OutJobSound(platform, j) /\ j.done \in Seq(Out!Request)
    BY <1>2, <2>1
  <2>3. (\E i \in DOMAIN j.done : j.done[i].what = "card") /\ Len(j.done) > 1 => j.lost
    <3>1. (\E i \in DOMAIN j.done : j.done[i].what = "card") /\ ~j.lost => Len(j.done) = 1
      BY <2>2 DEF OutJobSound
    <3>2. Len(j.done) = 1 => ~(Len(j.done) > 1)
      OBVIOUS
    <3> QED BY <3>1, <3>2, Zenon
  <2>4. OutDistinct(j.done)
    BY <2>2 DEF OutJobSound
  <2>5. j.extra <= (IF platform = "qq" THEN 2 ELSE 1) /\ (j.extra > 0 => j.lost)
    <3>1. OutTries(platform, j) /\ j.extra \in 0..2
      BY <2>2 DEF OutJobSound, OutJobRecords
    <3> QED BY <3>1 DEF OutTries
  <2> QED BY <2>1, <2>3, <2>4, <2>5
<1> QED BY <1>1, <1>3, <1>4

-----------------------------------------------------------------------------
(***************************************************************************)
(* The login to WeChat.                                                    *)
(***************************************************************************)

LEMMA LoginFiniteSets ==
  \A S : (Login!IsFiniteSet(S) <=> IsFiniteSet(S)) /\ Login!Cardinality(S) = Cardinality(S)
  BY DEF Login!IsFiniteSet, IsFiniteSet, Login!Cardinality, Cardinality

LoginSessionRecords ==
  [active : BOOLEAN, completed : BOOLEAN, stop : BOOLEAN, code : Nat, token : Nat,
   session : Nat, refresh : Nat]

LoginTaskPlaces ==
  {"none", "top", "poll", "polling", "token", "completed", "polled", "expired", "failed",
   "fetch", "break", "unlocking"}

(* The types the proofs need.  The server numbers its codes.                *)
LoginTypes ==
  /\ qr \in LoginSessionRecords /\ qrTask \in LoginTaskPlaces /\ polledCode \in Nat
  /\ lockedBy \in {"none", "start", "task"}
  /\ {starting, qrHandle, stopWaiting, freed, taskReused} \subseteq BOOLEAN
  /\ confirmed \subseteq Nat
  /\ \E n \in Nat : DOMAIN codeOf = 1..n

(* A task without a handle is at its end; as long as the state lives, it    *)
(* and a start hold the lock.                                               *)
LoginHandleInv ==
  /\ ~qrHandle => qrTask \in {"none", "unlocking"}
  /\ qrTask = "unlocking" => ~qrHandle
  /\ freed => ~stopWaiting /\ (starting \/ qrTask = "unlocking")
  /\ ~freed => (starting <=> lockedBy = "start")
  /\ ~freed /\ qrTask = "unlocking" => lockedBy = "task"

(* A start that found no task has none beside it, and a task is at the end  *)
(* of its loop only when its session is over.                               *)
LoginSessionInv ==
  /\ qr.stop => ~qr.active
  /\ starting /\ ~taskReused => qrTask = "none" /\ ~qrHandle
  /\ ~taskReused /\ qrTask = "break" => ~qr.active
  /\ Login!ActiveIsPolled

(* Codes in use are codes of this session.                                  *)
LoginCodeIsOwn(code) == code \in DOMAIN codeOf /\ codeOf[code] = qr.session

LoginCodeInv ==
  ~taskReused =>
    /\ qr.code # 0 => LoginCodeIsOwn(qr.code)
    /\ qr.token # 0 => LoginCodeIsOwn(qr.token)
    /\ qrTask = "polling" => LoginCodeIsOwn(polledCode)

LoginInv == LoginTypes /\ LoginHandleInv /\ LoginSessionInv /\ LoginCodeInv

(* A code fetched is a new one, and the earlier ones stay.                  *)
LEMMA LoginNewCodeIsNew == ASSUME LoginTypes
                      PROVE \E n \in Nat : DOMAIN codeOf = 1..n /\ Login!NewCode = n + 1
<1>1. PICK n \in Nat : DOMAIN codeOf = 1..n
  BY DEF LoginTypes
<1>2. Cardinality(1..n) = n
  <2>1. 1 \in Int /\ n \in Int
    OBVIOUS
  <2>2. Cardinality(1..n) = (IF 1 > n THEN 0 ELSE n - 1 + 1)
    BY ONLY <2>1, FS_Interval
  <2> QED BY <2>2
<1> QED BY <1>1, <1>2, LoginFiniteSets DEF Login!NewCode

LEMMA LoginCodesStay ==
  ASSUME LoginTypes, NEW session, Login!Fetched(session)
  PROVE /\ Login!NewCode \in Nat \ {0} /\ \E n \in Nat : DOMAIN codeOf' = 1..n
        /\ Login!NewCode \in DOMAIN codeOf' /\ codeOf'[Login!NewCode] = session
        /\ \A c \in DOMAIN codeOf : c \in DOMAIN codeOf' /\ codeOf'[c] = codeOf[c]
<1>1. PICK n \in Nat : DOMAIN codeOf = 1..n /\ Login!NewCode = n + 1
  BY LoginNewCodeIsNew
<1>2. codeOf' = [c \in 1..(n + 1) |-> IF c = n + 1 THEN session ELSE codeOf[c]]
  BY <1>1 DEF Login!Fetched
<1> QED BY <1>1, <1>2

(* A code too old is replaced by the next, or ends the session.             *)
LEMMA LoginRefreshKeeps ==
  ASSUME LoginInv, NEW from \in {"top", "expired"}, qrTask = from, Login!Refresh(from), Login!Free,
         UNCHANGED <<starting, polledCode, Login!serverVars, Login!others>>
  PROVE LoginInv'
<1> USE DEF LoginInv, LoginTypes, LoginHandleInv, LoginSessionInv, LoginCodeInv, LoginCodeIsOwn, LoginSessionRecords,
            LoginTaskPlaces, Login!ActiveIsPolled, Login!Free, Login!Sound, Login!serverVars, Login!others
<1>1. CASE qr.refresh + 1 >= MaxRefresh
  <2>1. Login!Ends([qr EXCEPT !.active = FALSE])
    BY <1>1 DEF Login!Refresh
  <2> QED BY <2>1 DEF Login!Ends
<1>2. CASE ~(qr.refresh + 1 >= MaxRefresh)
  <2>1. qr' = [qr EXCEPT !.refresh = @ + 1] /\ qrTask' = "fetch" /\ UNCHANGED <<qrHandle, lockedBy>>
    BY <1>2 DEF Login!Refresh, Login!TaskAt
  <2>2. qr.refresh + 1 \in Nat
    OBVIOUS
  <2> QED BY <2>1, <2>2
<1> QED BY <1>1, <1>2

LEMMA LoginTypesStart == ASSUME Login!Init PROVE LoginInv
<1>1. ASSUME Login!Init PROVE LoginTypes
  <2>1. DOMAIN codeOf = 1..0
    BY <1>1 DEF Login!Init
  <2>2. \E n \in Nat : DOMAIN codeOf = 1..n
    BY <2>1
  <2>3. qr \in LoginSessionRecords
    BY <1>1 DEF Login!Init, LoginSessionRecords, Login!NoSession
  <2>4. qrTask \in LoginTaskPlaces /\ confirmed \subseteq Nat /\ polledCode \in Nat
    BY <1>1 DEF Login!Init, LoginTaskPlaces
  <2> QED BY <1>1, <2>2, <2>3, <2>4 DEF Login!Init, LoginTypes
<1>2. Login!Init => LoginHandleInv /\ LoginSessionInv /\ LoginCodeInv
  BY DEF Login!Init, LoginHandleInv, LoginSessionInv, LoginCodeInv, Login!ActiveIsPolled, Login!NoSession
<1> QED BY <1>1, <1>2 DEF LoginInv

LEMMA LoginInvStep == ASSUME LoginInv, [Login!Next]_(Login!qrVars) PROVE LoginInv'
<1> USE DEF LoginInv, LoginTypes, LoginHandleInv, LoginSessionInv, LoginCodeInv, LoginCodeIsOwn, LoginSessionRecords,
                 LoginTaskPlaces, Login!ActiveIsPolled, Login!serverVars, Login!others
<1>1. CASE Login!LoginStart
  <2>1. Login!NewCode \in Nat
    <3> HIDE DEF LoginTypes
    <3> QED BY LoginNewCodeIsNew
  <2> QED BY <1>1, <2>1 DEF Login!LoginStart, Login!Free, Login!Sound, Login!SessionReset, Login!NoSession
<1>2. CASE Login!LoginFetched
  <2>1. /\ Login!NewCode \in Nat \ {0} /\ \E n \in Nat : DOMAIN codeOf' = 1..n
        /\ Login!NewCode \in DOMAIN codeOf' /\ codeOf'[Login!NewCode] = qr.session
        /\ \A c \in DOMAIN codeOf : c \in DOMAIN codeOf' /\ codeOf'[c] = codeOf[c]
    <3> HIDE DEF LoginTypes
    <3> QED BY <1>2, LoginCodesStay DEF Login!LoginFetched
  <2> QED BY <1>2, <2>1 DEF Login!LoginFetched, Login!Sound
<1>3. CASE Login!LoginFails
  BY <1>3 DEF Login!LoginFails, Login!Sound
<1>4. CASE Login!Cancel
  BY <1>4 DEF Login!Cancel, Login!Free, Login!Sound
<1>5. CASE Login!UserConfirms
  <2>1. PICK n \in Nat : DOMAIN codeOf = 1..n
    OBVIOUS
  <2>2. PICK c \in 1..n : confirmed' = confirmed \cup {c}
    BY <1>5, <2>1 DEF Login!UserConfirms
  <2>3. confirmed' \subseteq Nat
    BY <2>2
  <2> QED BY <1>5, <2>3 DEF Login!UserConfirms
<1>6. CASE Login!QrTop
  <2>1. CASE Login!Ends(qr)
    BY <1>6, <2>1 DEF Login!QrTop, Login!Free, Login!Sound, Login!Ends
  <2>2. CASE ~qr.stop /\ qr.active /\ Login!TaskAt("top", "poll") /\ UNCHANGED <<qr, qrHandle, lockedBy>>
    BY <1>6, <2>2 DEF Login!QrTop, Login!Free, Login!Sound, Login!TaskAt
  <2> QED BY <1>6, <2>1, <2>2 DEF Login!QrTop
<1>7. CASE Login!QrTooOld
  BY <1>7, LoginRefreshKeeps DEF Login!QrTooOld
<1>8. CASE Login!QrFetched
  <2>1. /\ Login!NewCode \in Nat \ {0} /\ \E n \in Nat : DOMAIN codeOf' = 1..n
        /\ Login!NewCode \in DOMAIN codeOf' /\ codeOf'[Login!NewCode] = qr.session
        /\ \A c \in DOMAIN codeOf : c \in DOMAIN codeOf' /\ codeOf'[c] = codeOf[c]
    <3> HIDE DEF LoginTypes
    <3> QED BY <1>8, LoginCodesStay DEF Login!QrFetched
  <2> QED BY <1>8, <2>1 DEF Login!QrFetched, Login!Sound, Login!TaskAt
<1>9. CASE Login!QrFetchFails
  BY <1>9 DEF Login!QrFetchFails, Login!Sound, Login!TaskAt, Login!Ends
<1>10. CASE Login!QrPoll
  BY <1>10 DEF Login!QrPoll, Login!Sound, Login!TaskAt, Login!KeepsLock
<1>11. CASE Login!QrAnswer
  BY <1>11 DEF Login!QrAnswer, Login!Sound, Login!TaskAt, Login!KeepsLock
<1>12. CASE Login!QrCompletes
  BY <1>12 DEF Login!QrCompletes, Login!Sound, Login!TaskAt, Login!KeepsLock
<1>13. CASE Login!QrLeaves
  BY <1>13 DEF Login!QrLeaves, Login!Sound, Login!TaskAt, Login!KeepsLock
<1>14. CASE Login!QrAfterPoll
  <2>1. CASE qrTask = "expired" /\ Login!Refresh("expired")
    BY <1>14, <2>1, LoginRefreshKeeps DEF Login!QrAfterPoll
  <2>2. CASE Login!TaskAt("failed", "break") /\ qr' = [qr EXCEPT !.active = FALSE]
             /\ UNCHANGED <<qrHandle, lockedBy>>
    BY <1>14, <2>2 DEF Login!QrAfterPoll, Login!Free, Login!Sound, Login!TaskAt
  <2>3. CASE ~qr.active /\ Login!TaskAt("polled", "break") /\ UNCHANGED <<qr, qrHandle, lockedBy>>
    BY <1>14, <2>3 DEF Login!QrAfterPoll, Login!Free, Login!Sound, Login!TaskAt
  <2>4. CASE qr.active /\ Login!TaskAt("polled", "top") /\ UNCHANGED <<qr, qrHandle, lockedBy>>
    BY <1>14, <2>4 DEF Login!QrAfterPoll, Login!Free, Login!Sound, Login!TaskAt
  <2> QED BY <1>14, <2>1, <2>2, <2>3, <2>4 DEF Login!QrAfterPoll
<1>15. CASE Login!QrGivesUpLock
  BY <1>15 DEF Login!QrGivesUpLock, Login!Sound, Login!KeepsLock
<1>16. CASE Login!QrBreaks
  BY <1>16 DEF Login!QrBreaks, Login!Sound, Login!TaskAt, Login!Ends
<1>17. CASE Login!QrUnlocks
  BY <1>17 DEF Login!QrUnlocks, Login!Sound, Login!TaskAt
<1>18. CASE Login!StopBegins
  BY <1>18 DEF Login!StopBegins, Login!Sound
<1>19. CASE Login!StopTimesOut
  BY <1>19 DEF Login!StopTimesOut
<1>20. CASE Login!StopFrees
  BY <1>20 DEF Login!StopFrees, Login!NoSession
<1>21. CASE Login!Panic
  BY <1>21 DEF Login!Panic, Login!NoSession
<1>22. CASE UNCHANGED Login!qrVars
  BY <1>22 DEF Login!qrVars
<1> QED BY <1>1, <1>2, <1>3, <1>4, <1>5, <1>6, <1>7, <1>8, <1>9, <1>10, <1>11, <1>12, <1>13, <1>14, <1>15, <1>16, <1>17, <1>18, <1>19, <1>20, <1>21, <1>22 DEF Login!Next

(* Numbers stay within the bounds of the model.                             *)
LoginBounds ==
  /\ qr.code <= MaxCodes /\ qr.token <= MaxCodes /\ qr.session <= MaxCodes
  /\ qr.refresh <= MaxRefresh /\ polledCode <= MaxCodes
  /\ DOMAIN codeOf \subseteq 1..MaxCodes /\ confirmed \subseteq DOMAIN codeOf

LEMMA LoginBoundsFetch ==
  ASSUME Login!LoginAssumption, LoginInv, LoginBounds, NEW session, Login!Fetched(session), Login!NewCode <= MaxCodes
  PROVE  DOMAIN codeOf' \subseteq 1..MaxCodes /\ DOMAIN codeOf \subseteq DOMAIN codeOf'
<1>1. PICK n \in Nat : DOMAIN codeOf = 1..n /\ Login!NewCode = n + 1
  BY LoginNewCodeIsNew DEF LoginInv
<1>2. DOMAIN codeOf' = 1..(n + 1)
  BY <1>1 DEF Login!Fetched
<1>3. n + 1 <= MaxCodes /\ MaxCodes \in Nat
  BY <1>1 DEF Login!LoginAssumption
<1>4. 1..n \subseteq 1..(n + 1) /\ 1..(n + 1) \subseteq 1..MaxCodes
  BY <1>3
<1> QED BY <1>1, <1>2, <1>4

LEMMA LoginBoundsRefresh ==
  ASSUME Login!LoginAssumption, LoginInv, LoginBounds, NEW from, Login!Refresh(from), UNCHANGED <<polledCode, Login!serverVars>>
  PROVE  LoginBounds'
<1> USE DEF Login!serverVars
<1>1. qr \in LoginSessionRecords /\ MaxRefresh \in Nat
  BY DEF LoginInv, LoginTypes, Login!LoginAssumption
<1>2. CASE qr' = [qr EXCEPT !.active = FALSE]
  BY <1>1, <1>2 DEF LoginBounds, LoginSessionRecords
<1>3. CASE ~(qr.refresh + 1 >= MaxRefresh) /\ qr' = [qr EXCEPT !.refresh = @ + 1]
  <2>1. qr'.refresh = qr.refresh + 1 /\ qr.refresh \in Nat
    BY <1>1, <1>3 DEF LoginSessionRecords
  <2>2. qr'.refresh <= MaxRefresh
    BY <1>1, <1>3, <2>1
  <2> QED BY <1>1, <1>3, <2>2 DEF LoginBounds, LoginSessionRecords
<1> QED BY <1>2, <1>3 DEF Login!Refresh, Login!Ends

LEMMA LoginBoundsStep ==
  ASSUME Login!LoginAssumption, LoginInv, LoginBounds, [Login!Next]_(Login!qrVars)
  PROVE  LoginBounds'
<1>1. qr \in LoginSessionRecords /\ MaxCodes \in Nat /\ MaxRefresh \in Nat /\ Login!NewCode \in Nat
  <2>1. Login!NewCode \in Nat
    BY LoginNewCodeIsNew DEF LoginInv
  <2> QED BY <2>1 DEF LoginInv, LoginTypes, Login!LoginAssumption
<1> USE DEF Login!serverVars, Login!others
<1>2. ASSUME NEW p \in 0..MaxCodes, polledCode' = p, UNCHANGED Login!serverVars,
             \/ qr' = qr \/ qr' = [qr EXCEPT !.active = FALSE] \/ qr' = Login!NoSession
             \/ qr' = [qr EXCEPT !.stop = TRUE, !.active = FALSE]
             \/ qr' = [qr EXCEPT !.completed = TRUE]
             \/ qr' = [qr EXCEPT !.token = polledCode]
      PROVE LoginBounds'
  <2>1. /\ qr'.code \in {qr.code, 0} /\ qr'.token \in {qr.token, polledCode, 0}
        /\ qr'.session \in {qr.session, 0} /\ qr'.refresh \in {qr.refresh, 0}
    <3>1. CASE qr' = qr
      BY <3>1, Zenon
    <3>2. CASE qr' = [qr EXCEPT !.active = FALSE]
      BY <1>1, <3>2 DEF LoginSessionRecords
    <3>3. CASE qr' = Login!NoSession
      BY <3>3 DEF Login!NoSession
    <3>4. CASE qr' = [qr EXCEPT !.stop = TRUE, !.active = FALSE]
      BY <1>1, <3>4 DEF LoginSessionRecords
    <3>5. CASE qr' = [qr EXCEPT !.completed = TRUE]
      BY <1>1, <3>5 DEF LoginSessionRecords
    <3>6. CASE qr' = [qr EXCEPT !.token = polledCode]
      BY <1>1, <3>6 DEF LoginSessionRecords
    <3> QED BY <1>2, <3>1, <3>2, <3>3, <3>4, <3>5, <3>6
  <2>2. 0 <= MaxCodes /\ 0 <= MaxRefresh
    BY <1>1
  <2> QED BY <1>2, <2>1, <2>2 DEF LoginBounds
<1>3. polledCode \in 0..MaxCodes /\ 0 \in 0..MaxCodes /\ (qr.code # 0 => qr.code \in 0..MaxCodes)
  BY <1>1 DEF LoginBounds, LoginSessionRecords, LoginInv, LoginTypes
<1>4. CASE Login!LoginStart
  BY <1>1, <1>4 DEF Login!LoginStart, Login!SessionReset, Login!NoSession, LoginBounds
<1>5. CASE Login!LoginFetched
  <2>1. DOMAIN codeOf' \subseteq 1..MaxCodes /\ DOMAIN codeOf \subseteq DOMAIN codeOf'
    BY <1>5, LoginBoundsFetch DEF Login!LoginFetched
  <2> QED BY <1>1, <1>5, <2>1 DEF Login!LoginFetched, LoginBounds, LoginSessionRecords
<1>6. CASE Login!QrFetched
  <2>1. DOMAIN codeOf' \subseteq 1..MaxCodes /\ DOMAIN codeOf \subseteq DOMAIN codeOf'
    BY <1>6, LoginBoundsFetch DEF Login!QrFetched
  <2> QED BY <1>1, <1>6, <2>1 DEF Login!QrFetched, LoginBounds, LoginSessionRecords
<1>7. CASE Login!UserConfirms
  <2>1. confirmed' \subseteq DOMAIN codeOf'
    BY <1>7 DEF Login!UserConfirms, LoginBounds
  <2> QED BY <1>7, <2>1 DEF Login!UserConfirms, LoginBounds
<1>8. CASE Login!QrTooOld
  BY <1>8, LoginBoundsRefresh DEF Login!QrTooOld
<1>9. CASE Login!QrAfterPoll
  <2>1. CASE Login!Refresh("expired")
    BY <1>9, <2>1, LoginBoundsRefresh DEF Login!QrAfterPoll
  <2>2. CASE ~Login!Refresh("expired")
    BY <1>2, <1>3, <1>9, <2>2 DEF Login!QrAfterPoll
  <2> QED BY <2>1, <2>2
<1>10. CASE Login!LoginFails \/ Login!Cancel
  BY <1>2, <1>3, <1>10 DEF Login!LoginFails, Login!Cancel
<1>11. CASE Login!QrTop \/ Login!QrFetchFails \/ Login!QrBreaks
  BY <1>2, <1>3, <1>11 DEF Login!QrTop, Login!QrFetchFails, Login!QrBreaks, Login!Ends
<1>12. CASE Login!QrPoll
  BY <1>2, <1>3, <1>12 DEF Login!QrPoll, Login!KeepsLock
<1>13. CASE Login!QrAnswer \/ Login!QrCompletes \/ Login!QrLeaves \/ Login!QrGivesUpLock
  BY <1>2, <1>3, <1>13 DEF Login!QrAnswer, Login!QrCompletes, Login!QrLeaves, Login!QrGivesUpLock, Login!KeepsLock
<1>14. CASE Login!QrUnlocks \/ Login!StopBegins \/ Login!StopTimesOut \/ Login!StopFrees \/ Login!Panic
  BY <1>2, <1>3, <1>14 DEF Login!QrUnlocks, Login!StopBegins, Login!StopTimesOut, Login!StopFrees, Login!Panic
<1>15. CASE UNCHANGED Login!qrVars
  BY <1>2, <1>3, <1>15 DEF Login!qrVars
<1> QED BY <1>4, <1>5, <1>6, <1>7, <1>8, <1>9, <1>10, <1>11, <1>12, <1>13, <1>14, <1>15 DEF Login!Next

LEMMA LoginStart0 == ASSUME Login!LoginAssumption, Login!Init PROVE LoginInv /\ LoginBounds
<1>1. LoginBounds
  <2>1. MaxCodes \in Nat /\ MaxRefresh \in Nat /\ DOMAIN codeOf = {} /\ qr = Login!NoSession
    BY DEF Login!LoginAssumption, Login!Init
  <2> QED BY <2>1 DEF Login!Init, LoginBounds, Login!NoSession
<1> QED BY <1>1, LoginTypesStart

LEMMA LoginSound0 ==
  ASSUME Login!LoginAssumption, LoginInv, LoginBounds
  PROVE  Login!TypeOK /\ Login!ActiveIsPolled /\ Login!TokenIsOwn /\ Login!StateOutlivesTask
<1>1. Login!TypeOK
  <2>1. qr \in LoginSessionRecords /\ MaxCodes \in Nat /\ MaxRefresh \in Nat /\ polledCode \in 0..MaxCodes
    BY DEF LoginInv, LoginTypes, Login!LoginAssumption, LoginBounds
  <2>2. /\ qr.code \in 0..MaxCodes /\ qr.token \in 0..MaxCodes /\ qr.session \in 0..MaxCodes
        /\ qr.refresh \in 0..MaxRefresh
    BY <2>1 DEF LoginSessionRecords, LoginBounds
  <2>3. qr \in [active : BOOLEAN, completed : BOOLEAN, stop : BOOLEAN, code : 0..MaxCodes,
                token : 0..MaxCodes, session : 0..MaxCodes, refresh : 0..MaxRefresh]
    BY <2>1, <2>2 DEF LoginSessionRecords
  <2> QED BY <2>1, <2>3 DEF LoginInv, LoginTypes, LoginTaskPlaces, LoginBounds, Login!TypeOK
<1> QED BY <1>1 DEF LoginInv, LoginHandleInv, LoginSessionInv, LoginCodeInv, LoginCodeIsOwn, Login!TokenIsOwn, Login!StateOutlivesTask

-----------------------------------------------------------------------------
(* What holds of each of the three on its own.                              *)

(* A session that is active has a task that asks for its code, and the token *)
(* of a session is that of one of its codes, both unless its start found the *)
(* handle of an earlier task; the state is not freed under a task that asks  *)
(* or fetches, only under its last unlock and a start in progress            *)
(* (cap_im_wechat.c:2230, 2389, 2689 and 2812).                              *)
THEOREM LoginKeepsSessions ==
  Login!Spec =>
    [](Login!TypeOK /\ Login!ActiveIsPolled /\ Login!TokenIsOwn /\ Login!StateOutlivesTask)
<1>1. Login!Init => (LoginInv /\ LoginBounds)
  BY OutboundAssumption, LoginStart0
<1>2. (LoginInv /\ LoginBounds) /\ [Login!Next]_(Login!qrVars) => (LoginInv /\ LoginBounds)'
  BY OutboundAssumption, LoginInvStep, LoginBoundsStep
<1>3. (LoginInv /\ LoginBounds) => Login!TypeOK /\ Login!ActiveIsPolled /\ Login!TokenIsOwn /\ Login!StateOutlivesTask
  BY OutboundAssumption, LoginSound0
<1> QED BY <1>1, <1>2, <1>3, PTL DEF Login!Spec

(* A send function that returned ESP_OK has had every part accepted, in      *)
(* order; a part is shown again only by the transport or QQ's second token,  *)
(* after a lost answer, and at most once, on QQ twice; a chat on WeChat gets *)
(* no more stage messages than its limit and those that went without the     *)
(* lock (cap_im_tg.c:1485, cap_im_qq.c:1195 and 2070, cap_im_feishu.c:3331,  *)
(* cap_im_wechat.c:416, 424 and 2481, esp_http_client_reuse.c:641).          *)
THEOREM SendsWhatItSays ==
  Out!Spec =>
    [](Out!TypeOK /\ Out!OkMeansDelivered /\ Out!ShownOnce /\ Out!StageLimitKept)
<1>1. Out!Init => OutInv
  BY OutboundAssumption, OutStart
<1>2. OutInv /\ [Out!Next]_(Out!vars) => OutInv'
  BY OutboundAssumption, OutStep
<1>3. OutInv => Out!TypeOK /\ Out!OkMeansDelivered /\ Out!ShownOnce /\ Out!StageLimitKept
  BY OutboundAssumption, OutSound
<1> QED BY <1>1, <1>2, <1>3, PTL DEF Out!Spec

(* A client has one owner, a lease is held until its client is cleaned up, a *)
(* request goes to the host it is for, and again at most once                *)
(* (esp_http_client_reuse.c:286, 444, 538, 636 and 656).                     *)
THEOREM PoolKeepsClients ==
  Http!Spec =>
    [](Http!TypeOK /\ Http!ClientsHaveOneOwner /\ Http!LeasesAreHeld /\ Http!GoesWhereAsked /\ Http!RetriedOnce)
<1>1. Http!Init => HpInv
  BY OutboundAssumption, HpStart
<1>2. HpInv /\ [Http!Next]_(Http!vars) => HpInv'
  BY OutboundAssumption, HpStep
<1>3. HpInv => Http!TypeOK /\ Http!ClientsHaveOneOwner /\ Http!LeasesAreHeld /\ Http!GoesWhereAsked /\ Http!RetriedOnce
  BY OutboundAssumption, HpSound
<1> QED BY <1>1, <1>2, <1>3, PTL DEF Http!Spec

-----------------------------------------------------------------------------
(***************************************************************************)
(* The gateways side by side.                                              *)
(***************************************************************************)

(* What the behaviour is about keeps its invariant; the rest does not move. *)
GatewaysInv ==
  /\ On("telegram", TgInv)
  /\ On("qq", QqInv)
  /\ On("feishu", FsInv)
  /\ On("wechat", WxInv)
  /\ On("login", LoginInv /\ LoginBounds)
  /\ On("send", OutInv)
  /\ On("http", HpInv)

LEMMA GatewaysStart == Init => GatewaysInv
<1> SUFFICES ASSUME Init PROVE GatewaysInv
  OBVIOUS
<1>1. TgInv
  BY InboundAssumption, TgStart DEF Init
<1>2. QqInv
  BY InboundAssumption, QqStart DEF Init
<1>3. FsInv
  BY InboundAssumption, FsStart DEF Init
<1>4. WxInv
  BY InboundAssumption, WxStart DEF Init
<1>5. LoginInv /\ LoginBounds
  BY OutboundAssumption, LoginStart0 DEF Init
<1>6. OutInv
  BY OutboundAssumption, OutStart DEF Init
<1>7. HpInv
  BY OutboundAssumption, HpStart DEF Init
<1> QED BY <1>1, <1>2, <1>3, <1>4, <1>5, <1>6, <1>7 DEF GatewaysInv, On

(* A step is one of what the behaviour is about.                            *)
LEMMA GatewaysStep == GatewaysInv /\ [Next]_allVars => GatewaysInv'
<1> SUFFICES ASSUME GatewaysInv, [Next]_allVars PROVE GatewaysInv'
  OBVIOUS
<1>0. gateway' = gateway
  BY DEF Next, allVars
<1>1. On("telegram", TgInv)'
  <2> SUFFICES ASSUME gateway' = "telegram" PROVE TgInv'
    BY DEF On
  <2>1. gateway = "telegram" /\ TgInv
    BY <1>0 DEF GatewaysInv, On
  <2>2. [Tg!Next]_(Tg!tgVars)
    BY <2>1 DEF Next, allVars, inboundVars, telegramVars, Tg!tgVars, Tg!serverVars, Tg!offsetVars, Tg!jobVars
  <2> QED BY InboundAssumption, <2>1, <2>2, TgStep
<1>2. On("qq", QqInv)'
  <2> SUFFICES ASSUME gateway' = "qq" PROVE QqInv'
    BY DEF On
  <2>1. gateway = "qq" /\ QqInv
    BY <1>0 DEF GatewaysInv, On
  <2>2. [Qq!Next]_(Qq!qqVars)
    BY <2>1 DEF Next, allVars, inboundVars, qqVars, Qq!qqVars, Qq!serverSide, Qq!linkVars,
              Qq!assemblyVars, Qq!inboundVars, Qq!outVars
  <2> QED BY InboundAssumption, <2>1, <2>2, QqStep
<1>3. On("feishu", FsInv)'
  <2> SUFFICES ASSUME gateway' = "feishu" PROVE FsInv'
    BY DEF On
  <2>1. gateway = "feishu" /\ FsInv
    BY <1>0 DEF GatewaysInv, On
  <2>2. [Fs!Next]_(Fs!fsVars)
    BY <2>1 DEF Next, allVars, inboundVars, feishuVars, Fs!fsVars, Fs!serverVars, Fs!linkVars, Fs!outVars
  <2> QED BY InboundAssumption, <2>1, <2>2, FsStep
<1>4. On("wechat", WxInv)'
  <2> SUFFICES ASSUME gateway' = "wechat" PROVE WxInv'
    BY DEF On
  <2>1. gateway = "wechat" /\ WxInv
    BY <1>0 DEF GatewaysInv, On
  <2>2. [Wx!Next]_(Wx!wxVars)
    BY <2>1 DEF Next, allVars, inboundVars, wechatVars, Wx!wxVars, Wx!serverVars, Wx!stateVars, Wx!pollVars
  <2> QED BY InboundAssumption, <2>1, <2>2, WxStep
<1>5. On("login", LoginInv /\ LoginBounds)'
  <2> SUFFICES ASSUME gateway' = "login" PROVE (LoginInv /\ LoginBounds)'
    BY DEF On
  <2>1. gateway = "login" /\ LoginInv /\ LoginBounds
    BY <1>0 DEF GatewaysInv, On
  <2>2. [Login!Next]_(Login!qrVars)
    BY <2>1 DEF Next, allVars, outboundVars, loginVars, Login!qrVars
  <2> QED BY OutboundAssumption, <2>1, <2>2, LoginInvStep, LoginBoundsStep
<1>6. On("send", OutInv)'
  <2> SUFFICES ASSUME gateway' = "send" PROVE OutInv'
    BY DEF On
  <2>1. gateway = "send" /\ OutInv
    BY <1>0 DEF GatewaysInv, On
  <2>2. [Out!Next]_(Out!vars)
    BY <2>1 DEF Next, allVars, outboundVars, sendVars, Out!vars
  <2> QED BY OutboundAssumption, <2>1, <2>2, OutStep
<1>7. On("http", HpInv)'
  <2> SUFFICES ASSUME gateway' = "http" PROVE HpInv'
    BY DEF On
  <2>1. gateway = "http" /\ HpInv
    BY <1>0 DEF GatewaysInv, On
  <2>2. [Http!Next]_(Http!vars)
    BY <2>1 DEF Next, allVars, outboundVars, httpVars, Http!vars
  <2> QED BY OutboundAssumption, <2>1, <2>2, HpStep
<1> QED BY <1>1, <1>2, <1>3, <1>4, <1>5, <1>6, <1>7 DEF GatewaysInv

LEMMA GatewaysInvariant == Spec => []GatewaysInv
  BY GatewaysStart, GatewaysStep, PTL DEF Spec

(* What each of them promises follows from its invariant.                   *)
LEMMA GatewaysSound == ASSUME GatewaysInv PROVE
  /\ TypeOK /\ ForgottenIsHandled /\ PublishedOnce /\ FramesWhole
  /\ UsedIsKept /\ LoginSound /\ OkMeansDelivered /\ SentAsMeant
<1>1. gateway = "telegram" => Tg!TypeOK /\ Tg!ForgottenIsHandled /\ Tg!TextsOnceInOrder /\ Tg!QueueOutlivesTasks
  BY InboundAssumption, TgSound DEF GatewaysInv, On
<1>2. gateway = "qq" => Qq!TypeOK /\ Qq!FramesWhole /\ Qq!TextsOnce /\ Qq!QueueOutlivesTasks
  BY InboundAssumption, QqSound DEF GatewaysInv, On
<1>3. gateway = "feishu" => Fs!TypeOK /\ Fs!FramesWhole /\ Fs!AckedIsHandled /\ Fs!TextsOnce /\ Fs!QueueOutlivesTasks
  BY InboundAssumption, FsSound DEF GatewaysInv, On
<1>4. gateway = "wechat" => Wx!TypeOK /\ Wx!ForgottenIsHandled /\ Wx!TextsOnceInOrder /\ Wx!StateOutlivesTask
  BY InboundAssumption, WxSound DEF GatewaysInv, On
<1>5. gateway = "login" => Login!TypeOK /\ Login!ActiveIsPolled /\ Login!TokenIsOwn /\ Login!StateOutlivesTask
  BY OutboundAssumption, LoginSound0 DEF GatewaysInv, On
<1>6. gateway = "send" => Out!TypeOK /\ Out!OkMeansDelivered /\ Out!ShownOnce /\ Out!StageLimitKept
  BY OutboundAssumption, OutSound DEF GatewaysInv, On
<1>7. gateway = "http" => Http!TypeOK /\ Http!ClientsHaveOneOwner /\ Http!LeasesAreHeld /\ Http!GoesWhereAsked /\ Http!RetriedOnce
  BY OutboundAssumption, HpSound DEF GatewaysInv, On
<1> QED BY <1>1, <1>2, <1>3, <1>4, <1>5, <1>6, <1>7
        DEF TypeOK, ForgottenIsHandled, PublishedOnce, FramesWhole, UsedIsKept, LoginSound,
            OkMeansDelivered, SentAsMeant, On

(* Everything stays within its type: rings, queues and caches within their   *)
(* sizes, counters within their limits.                                      *)
THEOREM GatewaysKeepTypes == Spec => []TypeOK
  BY GatewaysInvariant, GatewaysSound, PTL

(* A message the server will not deliver again has been looked at by the     *)
(* device, through lost answers, broken connections, stops and resets, but   *)
(* for a token set during a poll of Telegram                                 *)
(* (cap_im_tg.c:627, cap_im_wechat.c:1594, cap_im_feishu.c:2362).            *)
THEOREM ForgottenStaysHandled == Spec => []ForgottenIsHandled
  BY GatewaysInvariant, GatewaysSound, PTL

(* A text is published once between two starts (on Telegram two tokens) of   *)
(* the device, however often it is delivered, as long as what is delivered   *)
(* again is no older than half the ring, no token is set during a poll, and  *)
(* one task handles QQ's frames (cap_im_tg.c:631, cap_im_qq.c:973,           *)
(* cap_im_feishu.c:2207, cap_im_wechat.c:1482).                              *)
THEOREM TextsArePublishedOnce == Spec => []PublishedOnce
  BY GatewaysInvariant, GatewaysSound, PTL

(* A frame that is handled is one the server sent, whole, whatever fragments *)
(* a broken connection left behind (cap_im_qq.c:240, cap_im_feishu.c:2408).  *)
THEOREM FramesStayWhole == Spec => []FramesWhole
  BY GatewaysInvariant, GatewaysSound, PTL

(* Neither a stop nor the pool frees what another task uses, except that a   *)
(* stop does so on Telegram and QQ once a task has outlived an earlier stop, *)
(* and on WeChat under a login's start and its task's last unlock            *)
(* (cap_im_tg.c:1226, cap_im_qq.c:1782, cap_im_feishu.c:3308,                *)
(* cap_im_wechat.c:2238, esp_http_client_reuse.c:286, 444 and 656).          *)
THEOREM UsedStaysKept == Spec => []UsedIsKept
  BY GatewaysInvariant, GatewaysSound, PTL

(* An active login is polled, and a token is of one of its own codes, unless *)
(* its start found the handle of an earlier task                             *)
(* (cap_im_wechat.c:2389 and 2689).                                          *)
THEOREM LoginStaysSound == Spec => []LoginSound
  BY GatewaysInvariant, GatewaysSound, PTL

(* ESP_OK of a send function means that all of it has been accepted, in      *)
(* order, for any number of chunks and any failures (cap_im_tg.c:1485,       *)
(* cap_im_qq.c:2070, cap_im_feishu.c:3331, cap_im_wechat.c:2481).            *)
THEOREM OkStaysTrue == Spec => []OkMeansDelivered
  BY GatewaysInvariant, GatewaysSound, PTL

(* What was accepted with an answer is not sent again, and what was accepted *)
(* without one shows at most once more, on QQ twice; stage messages keep     *)
(* their limit but for those that went without the lock; a request goes to   *)
(* its own host and again at most once (cap_im_qq.c:1195,                    *)
(* cap_im_wechat.c:416, esp_http_client_reuse.c:538 and 636).                *)
THEOREM SentOnceAsMeant == Spec => []SentAsMeant
  BY GatewaysInvariant, GatewaysSound, PTL
=============================================================================
