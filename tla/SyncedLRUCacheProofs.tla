------------------------- MODULE SyncedLRUCacheProofs -------------------------
(***************************************************************************)
(* Proofs about SyncedLRUCache for every set of threads and texts, every   *)
(* limit of the cache and every number of calls.                           *)
(***************************************************************************)
EXTENDS SyncedLRUCache, SequenceTheorems, FiniteSetTheorems, WellFoundedInduction, TLAPS

-----------------------------------------------------------------------------
(* Lists and addresses. *)

(* There is always an address that no node of the list has. *)
LEMMA FreshIsFresh ==
    ASSUME NEW list \in Seq(Node)
    PROVE  Fresh(list) \in Address /\ Fresh(list) \notin Addresses(list)
  <1> DEFINE n == Len(list)
             at == [a \in 1 .. n + 1 |-> CHOOSE i \in 1 .. n : list[i].at = a]
  <1>1. n \in Nat /\ DOMAIN list = 1 .. n
    BY LenProperties
  <1>2. \E a \in 1 .. n + 1 : a \notin Addresses(list)
    <2> SUFFICES ASSUME \A a \in 1 .. n + 1 : a \in Addresses(list)
                 PROVE  FALSE
      OBVIOUS
    <2>1. \A a \in 1 .. n + 1 : at[a] \in 1 .. n /\ list[at[a]].at = a
      BY <1>1 DEF Addresses
    <2>2. at \in [1 .. n + 1 -> 1 .. n]
      BY <2>1
    <2>3. IsFiniteSet(1 .. n + 1) /\ IsFiniteSet(1 .. n) /\ Cardinality(1 .. n) < Cardinality(1 .. n + 1)
      BY <1>1, FS_Interval
    <2> HIDE DEF n, at
    <2>4. \E a, b \in 1 .. n + 1 : a # b /\ at[a] = at[b]
      BY <2>2, <2>3, FS_PigeonHole
    <2> QED
      BY <2>1, <2>4
  <1> QED
    BY <1>1, <1>2 DEF Fresh, Address

(* Where a node of the list was before a hit moved the i-th to the front. *)
Before(i, j) == IF j = 1 THEN i ELSE IF j <= i THEN j - 1 ELSE j

LEMMA MoveToFrontPermutes ==
    ASSUME NEW list \in Seq(Node), NEW i \in 1 .. Len(list)
    PROVE  /\ MoveToFront(list, i) \in Seq(Node)
           /\ Len(MoveToFront(list, i)) = Len(list)
           /\ \A j \in 1 .. Len(list) : MoveToFront(list, i)[j] = list[Before(i, j)]
  <1> DEFINE front == SubSeq(list, 1, i - 1)
             back == SubSeq(list, i + 1, Len(list))
  <1>1. Len(list) \in Nat /\ \A j \in 1 .. Len(list) : list[j] \in Node
    BY LenProperties, ElementOfSeq
  <1>2. /\ front \in Seq(Node) /\ Len(front) = i - 1
        /\ \A j \in 1 .. i - 1 : front[j] = list[j]
    BY <1>1, SubSeqProperties
  <1>3. /\ back \in Seq(Node) /\ Len(back) = Len(list) - i
        /\ \A j \in 1 .. Len(list) - i : back[j] = list[i + j]
    BY <1>1, SubSeqProperties
  <1>4. <<list[i]>> \in Seq(Node) /\ Len(<<list[i]>>) = 1 /\ <<list[i]>>[1] = list[i]
    BY <1>1
  <1> HIDE DEF front, back
  <1>5. /\ front \o back \in Seq(Node) /\ Len(front \o back) = Len(list) - 1
        /\ \A j \in 1 .. Len(list) - 1 : (front \o back)[j] = IF j < i THEN list[j] ELSE list[j + 1]
    <2> DEFINE rest == front \o back
    <2>1. /\ rest \in Seq(Node) /\ Len(rest) = Len(list) - 1
          /\ \A j \in 1 .. Len(list) - 1 : rest[j] = IF j <= i - 1 THEN front[j] ELSE back[j - (i - 1)]
      <3>1. /\ rest \in Seq(Node) /\ Len(rest) = Len(front) + Len(back)
            /\ \A j \in 1 .. Len(front) + Len(back) : rest[j] = IF j <= Len(front) THEN front[j] ELSE back[j - Len(front)]
        BY <1>2, <1>3, ConcatProperties
      <3>2. Len(front) = i - 1 /\ Len(front) + Len(back) = Len(list) - 1
        BY <1>1, <1>2, <1>3
      <3> QED
        BY <3>1, <3>2
    <2> HIDE DEF rest
    <2>2. ASSUME NEW j \in 1 .. Len(list) - 1
          PROVE  rest[j] = IF j < i THEN list[j] ELSE list[j + 1]
      <3>1. CASE j < i
        BY <1>1, <1>2, <2>1, <3>1
      <3>2. CASE ~(j < i)
        <4>1. rest[j] = back[j - (i - 1)] /\ j - (i - 1) \in 1 .. Len(list) - i
          BY <1>1, <2>1, <3>2
        <4>2. i + (j - (i - 1)) = j + 1
          BY <1>1
        <4> QED
          BY <1>3, <3>2, <4>1, <4>2
      <3> QED
        BY <3>1, <3>2
    <2> QED
      BY <2>1, <2>2 DEF rest
  <1>6. MoveToFront(list, i) = <<list[i]>> \o (front \o back)
    BY DEF MoveToFront, RemoveAt, front, back
  <1> DEFINE rest == front \o back
             moved == <<list[i]>> \o rest
  <1> HIDE DEF rest
  <1>7. /\ moved \in Seq(Node) /\ Len(moved) = Len(list)
        /\ \A j \in 1 .. Len(list) : moved[j] = IF j <= 1 THEN <<list[i]>>[j] ELSE rest[j - 1]
    BY <1>1, <1>4, <1>5, ConcatProperties DEF rest
  <1> HIDE DEF moved
  <1>8. ASSUME NEW j \in 1 .. Len(list)
        PROVE  moved[j] = list[Before(i, j)]
    <2>1. CASE j = 1
      BY <1>4, <1>7, <2>1 DEF Before
    <2>2. CASE j # 1
      <3>1. moved[j] = rest[j - 1] /\ j - 1 \in 1 .. Len(list) - 1
        BY <1>1, <1>7, <2>2
      <3>2. rest[j - 1] = IF j - 1 < i THEN list[j - 1] ELSE list[j - 1 + 1]
        BY <1>5, <3>1 DEF rest
      <3>3. j - 1 + 1 = j /\ (j - 1 < i <=> j <= i)
        BY <1>1
      <3> QED
        BY <2>2, <3>1, <3>2, <3>3 DEF Before
    <2> QED
      BY <2>1, <2>2
  <1>9. MoveToFront(list, i) = moved
    BY <1>6 DEF moved, rest
  <1> QED
    BY <1>7, <1>8, <1>9

-----------------------------------------------------------------------------
(* Pruning. *)

LEMMA MinOfNaturals ==
    ASSUME NEW S \in SUBSET Nat, S # {}
    PROVE  Min(S) \in S /\ \A n \in S : Min(S) <= n
  <1>1. \E m \in S : \A n \in S : ~(<<n, m>> \in OpToRel(<, Nat))
    BY NatLessThanWellFounded, WFMin
  <1>2. \A n, m \in Nat : n < m => <<n, m>> \in OpToRel(<, Nat)
    BY DEF OpToRel
  <1>3. \E m \in S : \A n \in S : ~(n < m)
    BY <1>1, <1>2
  <1>4. \E m \in S : \A n \in S : m <= n
    BY <1>3
  <1> QED
    BY <1>4 DEF Min

LEMMA MaxOfTwo ==
    ASSUME NEW a \in Nat, NEW b \in Nat
    PROVE  Max({a, b}) = IF a >= b THEN a ELSE b
  <1>1. \E m \in {a, b} : \A n \in {a, b} : m >= n
    OBVIOUS
  <1> QED
    BY <1>1 DEF Max

(* Every key of the map belongs to a node of the list. *)
Backed(list, map) ==
    /\ IsFiniteSet(DOMAIN map) /\ map \in [DOMAIN map -> Address]
    /\ \A k \in DOMAIN map : \E i \in DOMAIN list : list[i].at = map[k] /\ list[i].key = k

(* A prune cuts nodes off the end, never the whole list, and takes their   *)
(* keys out of the map until it is within its limits.                      *)
LEMMA PruneCutsTheEnd ==
    ASSUME NEW list \in Seq(Node), NEW map, Backed(list, map), list # <<>>
    PROVE  \E n \in 0 .. Len(list) - 1 :
               /\ Prune(list, map).list = SubSeq(list, 1, Len(list) - n)
               /\ Prune(list, map).map = Restrict(map, DOMAIN map \ LastKeys(list, n))
               /\ MaxSize # 0 => Cardinality(DOMAIN map \ LastKeys(list, n)) < Max({MaxAllowedSize, MaxSize + 1})
               /\ LastKeys(list, n) = {} \/ Cardinality(DOMAIN map \ LastKeys(list, n)) >= MaxSize
  <1> DEFINE Left(n) == DOMAIN map \ LastKeys(list, n)
             enough == {n \in 0 .. Len(list) : Cardinality(Left(n)) <= MaxSize}
             unpruned == MaxSize = 0 \/ Cardinality(DOMAIN map) < MaxAllowedSize
             limit == Max({MaxAllowedSize, MaxSize + 1})
  <1>1. Len(list) \in Nat \ {0} /\ DOMAIN list = 1 .. Len(list)
    BY LenProperties, EmptySeq
  <1>2. \A n : IsFiniteSet(Left(n)) /\ Cardinality(Left(n)) \in Nat
    BY FS_Subset, FS_CardinalityType DEF Backed
  <1>3. limit \in Nat /\ MaxAllowedSize <= limit /\ MaxSize < limit /\ MaxSize \in Nat
    BY ConstantsAssumption, MaxOfTwo DEF MaxAllowedSize
  <1>4. CASE unpruned
    <2>1. Prune(list, map).list = list /\ Prune(list, map).map = map
      BY <1>4 DEF Prune
    <2>2. LastKeys(list, 0) = {}
      BY <1>1 DEF LastKeys
    <2>3. SubSeq(list, 1, Len(list) - 0) = list
      BY <1>1, SubSeqFull
    <2>4. Restrict(map, DOMAIN map \ {}) = map
      BY DEF Restrict, Backed
    <2>5. MaxSize # 0 => Cardinality(DOMAIN map \ {}) < limit
      <3> SUFFICES ASSUME MaxSize # 0
                   PROVE  Cardinality(DOMAIN map) < limit
        OBVIOUS
      <3>1. Cardinality(DOMAIN map) \in Nat
        BY FS_CardinalityType DEF Backed
      <3> QED
        BY <1>3, <1>4, <3>1, ConstantsAssumption DEF MaxAllowedSize
    <2>6. 0 \in 0 .. Len(list) - 1
      BY <1>1
    <2>7. Prune(list, map).list = SubSeq(list, 1, Len(list) - 0)
      BY <2>1, <2>3
    <2>8. Prune(list, map).map = Restrict(map, DOMAIN map \ LastKeys(list, 0))
      BY <2>1, <2>2, <2>4
    <2>9. MaxSize # 0 => Cardinality(DOMAIN map \ LastKeys(list, 0)) < Max({MaxAllowedSize, MaxSize + 1})
      BY <2>2, <2>5
    <2> WITNESS 0 \in 0 .. Len(list) - 1
    <2> QED
      BY <2>2, <2>7, <2>8, <2>9
  <1>5. CASE ~unpruned
    <2> DEFINE popped == Min(enough)
    <2>1. /\ Prune(list, map).list = SubSeq(list, 1, Len(list) - popped)
          /\ Prune(list, map).map = Restrict(map, Left(popped))
      BY <1>5 DEF Prune
    <2>2. \A n \in 0 .. Len(list) : n \in enough <=> Cardinality(Left(n)) <= MaxSize
      OBVIOUS
    <2>3. MaxSize \in Nat \ {0}
      BY <1>3, <1>5
    <2>4. Left(Len(list) - 1) \subseteq {list[1].key}
      BY <1>1 DEF LastKeys, Backed
    <2>5. Cardinality(Left(Len(list) - 1)) <= 1
      <3>1. IsFiniteSet({list[1].key}) /\ Cardinality({list[1].key}) = 1
        BY FS_Singleton
      <3> QED
        BY <2>4, <3>1, FS_Subset
    <2>6. enough \subseteq Nat
      BY <1>1
    <2> HIDE DEF enough, Left, limit
    <2>7. Len(list) - 1 \in enough
      BY <1>1, <1>2, <2>2, <2>3, <2>5
    <2>8. popped \in enough /\ \A n \in enough : popped <= n
      BY <2>6, <2>7, MinOfNaturals
    <2> HIDE DEF popped
    <2>9. popped \in 0 .. Len(list) - 1
      BY <1>1, <2>6, <2>7, <2>8
    <2>10. Cardinality(Left(popped)) <= MaxSize
      BY <1>1, <2>2, <2>8, <2>9
    <2>11. Cardinality(Left(popped)) < limit
      BY <1>2, <1>3, <2>10
    <2> WITNESS popped \in 0 .. Len(list) - 1
    <2>12. Prune(list, map).map = Restrict(map, DOMAIN map \ LastKeys(list, popped))
      BY <2>1 DEF Left
    <2>13. Cardinality(DOMAIN map \ LastKeys(list, popped)) < Max({MaxAllowedSize, MaxSize + 1})
      BY <2>11 DEF Left, limit
    <2>14. CASE popped = 0
      <3>1. LastKeys(list, popped) = {}
        BY <1>1, <2>14 DEF LastKeys
      <3> QED
        BY <2>1, <2>12, <2>13, <3>1
    <2>15. CASE popped # 0
      <3> DEFINE before == Left(popped - 1)
                 gone == list[Len(list) - popped + 1].key
      <3>1. popped - 1 \in 0 .. Len(list) /\ popped - 1 \notin enough
        BY <1>1, <2>8, <2>9, <2>15
      <3>2. Cardinality(before) > MaxSize
        BY <1>2, <1>3, <2>2, <3>1
      <3>3. before \ {gone} \subseteq Left(popped)
        BY <1>1, <2>9, <2>15 DEF Left, LastKeys
      <3>4. Cardinality(before \ {gone}) >= Cardinality(before) - 1
        <4>1. IsFiniteSet(before) /\ Cardinality(before) \in Nat
          BY <1>2
        <4> HIDE DEF before, gone
        <4>2. Cardinality(before \ {gone}) = IF gone \in before THEN Cardinality(before) - 1 ELSE Cardinality(before)
          BY <4>1, FS_RemoveElement
        <4> DEFINE b == Cardinality(before)  c == Cardinality(before \ {gone})
        <4>3. b \in Nat /\ (c = b - 1 \/ c = b)
          BY <4>1, <4>2, Zenon
        <4> HIDE DEF b, c
        <4>4. c >= b - 1
          BY <4>3
        <4> QED
          BY <4>4 DEF b, c
      <3>5. Cardinality(before \ {gone}) <= Cardinality(Left(popped)) /\ Cardinality(before \ {gone}) \in Nat
        BY <1>2, <3>3, FS_Subset, FS_CardinalityType
      <3>6. Cardinality(Left(popped)) >= MaxSize
        <4>1. Cardinality(before) \in Nat /\ Cardinality(Left(popped)) \in Nat /\ MaxSize \in Nat
          BY <1>2, <1>3
        <4> DEFINE b == Cardinality(before)  c == Cardinality(before \ {gone})  l == Cardinality(Left(popped))
        <4>2. b \in Nat /\ l \in Nat /\ c \in Nat /\ b > MaxSize /\ c >= b - 1 /\ c <= l
          BY <3>2, <3>4, <3>5, <4>1
        <4> HIDE DEF b, c, l
        <4>3. l >= MaxSize
          BY <4>1, <4>2
        <4> QED
          BY <4>3 DEF l
      <3> QED
        BY <2>1, <2>12, <2>13, <3>6 DEF Left
    <2> QED
      BY <2>14, <2>15
  <1> QED
    BY <1>4, <1>5

-----------------------------------------------------------------------------
(* What the three ways to change the list keep. *)

(* Addresses are unique and nodes hold the parse of their key. *)
Sound(list) ==
    /\ \A i, j \in DOMAIN list : list[i].at = list[j].at => i = j
    /\ \A i \in DOMAIN list : list[i].value = list[i].key

LEMMA MovingKeeps ==
    ASSUME NEW list \in Seq(Node), NEW map, Sound(list), Backed(list, map), NEW i \in 1 .. Len(list)
    PROVE  Sound(MoveToFront(list, i)) /\ Backed(MoveToFront(list, i), map)
  <1> DEFINE moved == MoveToFront(list, i)
  <1>1. Len(list) \in Nat /\ DOMAIN list = 1 .. Len(list)
    BY LenProperties
  <1>2. /\ moved \in Seq(Node) /\ DOMAIN moved = 1 .. Len(list)
        /\ \A j \in 1 .. Len(list) : moved[j] = list[Before(i, j)]
    BY MoveToFrontPermutes, LenProperties
  <1> HIDE DEF moved
  <1>3. \A j \in 1 .. Len(list) : Before(i, j) \in 1 .. Len(list)
    BY <1>1 DEF Before
  <1>4. \A j, l \in 1 .. Len(list) : Before(i, j) = Before(i, l) => j = l
    BY <1>1 DEF Before
  <1>5. \A j \in 1 .. Len(list) : \E l \in 1 .. Len(list) : Before(i, l) = j
    <2> TAKE j \in 1 .. Len(list)
    <2>1. CASE j = i
      BY <1>1, <2>1 DEF Before
    <2>2. CASE j < i
      <3>1. j + 1 \in 1 .. Len(list) /\ Before(i, j + 1) = j
        BY <1>1, <2>2 DEF Before
      <3> QED
        BY <3>1
    <2>3. CASE j > i
      BY <1>1, <2>3 DEF Before
    <2> QED
      BY <1>1, <2>1, <2>2, <2>3
  <1>6. Sound(moved)
    <2>1. ASSUME NEW j \in 1 .. Len(list), NEW l \in 1 .. Len(list), moved[j].at = moved[l].at
          PROVE  j = l
      <3>1. list[Before(i, j)].at = list[Before(i, l)].at
        BY <1>2, <2>1
      <3>2. Before(i, j) = Before(i, l)
        BY <1>1, <1>3, <3>1 DEF Sound
      <3> QED
        BY <1>4, <3>2
    <2>2. ASSUME NEW j \in 1 .. Len(list)
          PROVE  moved[j].value = moved[j].key
      <3>1. list[Before(i, j)].value = list[Before(i, j)].key
        BY <1>1, <1>3 DEF Sound
      <3> QED
        BY <1>2, <3>1
    <2> QED
      BY <1>2, <2>1, <2>2 DEF Sound
  <1>7. \A k \in DOMAIN map : \E j \in DOMAIN moved : moved[j].at = map[k] /\ moved[j].key = k
    <2> TAKE k \in DOMAIN map
    <2>1. PICK j \in 1 .. Len(list) : list[j].at = map[k] /\ list[j].key = k
      BY <1>1 DEF Backed
    <2>2. PICK l \in 1 .. Len(list) : Before(i, l) = j
      BY <1>5
    <2> QED
      BY <1>2, <2>1, <2>2
  <1> QED
    BY <1>6, <1>7 DEF Backed, moved

(* A new node in front is the one its key's entry leads to; every other    *)
(* entry leads where it led.                                               *)
Pushed(node, list) == <<node>> \o list

LEMMA PushingKeeps ==
    ASSUME NEW list \in Seq(Node), NEW map, Sound(list), Backed(list, map), NEW node \in Node,
           node.at \notin Addresses(list), node.value = node.key
    PROVE  /\ Pushed(node, list) \in Seq(Node) /\ Pushed(node, list) # <<>>
           /\ Pushed(node, list)[1] = node
           /\ Sound(Pushed(node, list))
           /\ Backed(Pushed(node, list), Assigned(map, node.key, node.at))
  <1> DEFINE pushed == Pushed(node, list)
             with == Assigned(map, node.key, node.at)
  <1>1. Len(list) \in Nat /\ DOMAIN list = 1 .. Len(list)
    BY LenProperties
  <1>2. <<node>> \in Seq(Node) /\ Len(<<node>>) = 1 /\ <<node>>[1] = node
    OBVIOUS
  <1>3. /\ pushed \in Seq(Node) /\ Len(pushed) = 1 + Len(list)
        /\ \A j \in 1 .. 1 + Len(list) : pushed[j] = IF j <= 1 THEN <<node>>[j] ELSE list[j - 1]
    BY <1>2, ConcatProperties DEF Pushed
  <1>4. DOMAIN pushed = 1 .. 1 + Len(list)
    BY <1>3, LenProperties
  <1> HIDE DEF pushed
  <1>5. pushed[1] = node /\ \A j \in 2 .. 1 + Len(list) : pushed[j] = list[j - 1]
    BY <1>1, <1>2, <1>3
  <1>6. Sound(pushed)
    <2>1. \A j \in 2 .. 1 + Len(list) : pushed[j].at # node.at
      BY <1>1, <1>5 DEF Addresses
    <2>2. \A i, j \in 2 .. 1 + Len(list) : pushed[i].at = pushed[j].at => i = j
      <3> TAKE i, j \in 2 .. 1 + Len(list)
      <3>1. i - 1 \in DOMAIN list /\ j - 1 \in DOMAIN list
        BY <1>1
      <3>2. list[i - 1].at = list[j - 1].at => i - 1 = j - 1
        BY <3>1 DEF Sound
      <3> QED
        BY <1>5, <3>2
    <2>3. \A j \in 2 .. 1 + Len(list) : pushed[j].value = pushed[j].key
      <3> TAKE j \in 2 .. 1 + Len(list)
      <3>1. j - 1 \in DOMAIN list
        BY <1>1
      <3> QED
        BY <1>5, <3>1 DEF Sound
    <2>4. \A j \in 1 .. 1 + Len(list) : j = 1 \/ j \in 2 .. 1 + Len(list)
      BY <1>1
    <2>5. \A i, j \in 1 .. 1 + Len(list) : pushed[i].at = pushed[j].at => i = j
      BY <1>5, <2>1, <2>2, <2>4
    <2> QED
      BY <1>4, <1>5, <2>3, <2>4, <2>5 DEF Sound
  <1>7. DOMAIN with = DOMAIN map \cup {node.key}
    BY DEF Assigned
  <1>8. \A k \in DOMAIN with : with[k] = IF k = node.key THEN node.at ELSE map[k]
    BY DEF Assigned
  <1>9. with \in [DOMAIN with -> Address]
    <2>1. with = [k \in DOMAIN with |-> with[k]]
      BY DEF Assigned
    <2>2. node.at \in Address
      BY DEF Node
    <2>3. \A k \in DOMAIN with : with[k] \in Address
      BY <1>7, <1>8, <2>2 DEF Backed
    <2> HIDE DEF with
    <2> QED
      BY <2>1, <2>3
  <1>10. IsFiniteSet(DOMAIN with)
    <2>1. IsFiniteSet(DOMAIN map \cup {node.key})
      BY FS_AddElement DEF Backed
    <2> QED
      BY <1>7, <2>1
  <1> HIDE DEF with
  <1>11. ASSUME NEW k \in DOMAIN with
         PROVE  \E j \in DOMAIN pushed : pushed[j].at = with[k] /\ pushed[j].key = k
    <2>1. CASE k = node.key
      BY <1>1, <1>4, <1>5, <1>8, <2>1
    <2>2. CASE k # node.key
      <3>1. PICK i \in 1 .. Len(list) : list[i].at = map[k] /\ list[i].key = k
        BY <1>1, <1>7, <2>2 DEF Backed
      <3>2. i + 1 \in 2 .. 1 + Len(list) /\ i + 1 \in DOMAIN pushed /\ i + 1 - 1 = i
        BY <1>1, <1>4
      <3>3. pushed[i + 1] = list[i]
        BY <1>5, <3>2
      <3> QED
        BY <1>8, <2>2, <3>1, <3>2, <3>3
    <2> QED
      BY <2>1, <2>2
  <1>12. Backed(pushed, with)
    BY <1>9, <1>10, <1>11 DEF Backed
  <1>13. pushed # <<>>
    BY <1>1, <1>3, EmptySeq
  <1> QED
    BY <1>3, <1>5, <1>6, <1>7, <1>12, <1>13 DEF pushed, with

LEMMA CuttingKeeps ==
    ASSUME NEW list \in Seq(Node), NEW map, Sound(list), Backed(list, map), NEW n \in 0 .. Len(list) - 1
    PROVE  LET cut == SubSeq(list, 1, Len(list) - n)
               left == Restrict(map, DOMAIN map \ LastKeys(list, n))
           IN  /\ cut \in Seq(Node) /\ cut # <<>> /\ cut[1] = list[1]
               /\ Sound(cut) /\ Backed(cut, left)
               /\ DOMAIN left = DOMAIN map \ LastKeys(list, n)
  <1> DEFINE cut == SubSeq(list, 1, Len(list) - n)
             left == Restrict(map, DOMAIN map \ LastKeys(list, n))
  <1>1. Len(list) \in Nat /\ DOMAIN list = 1 .. Len(list) /\ Len(list) - n \in 1 .. Len(list)
    BY LenProperties
  <1>2. \A i \in 1 .. Len(list) - n : list[i] \in Node
    BY <1>1, ElementOfSeq
  <1>3. /\ cut \in Seq(Node) /\ Len(cut) = Len(list) - n
        /\ \A i \in 1 .. Len(list) - n : cut[i] = list[i]
    BY <1>1, <1>2, SubSeqProperties
  <1>4. DOMAIN cut = 1 .. Len(list) - n
    BY <1>3, LenProperties
  <1>5. DOMAIN left = DOMAIN map \ LastKeys(list, n)
    BY DEF Restrict
  <1>6. \A k \in DOMAIN left : left[k] = map[k]
    BY DEF Restrict
  <1>7. left \in [DOMAIN left -> Address] /\ IsFiniteSet(DOMAIN left)
    <2>1. IsFiniteSet(DOMAIN left)
      BY <1>5, FS_Subset DEF Backed
    <2>2. left \in [DOMAIN map \ LastKeys(list, n) -> Address]
      BY DEF Restrict, Backed
    <2> QED
      BY <1>5, <2>1, <2>2
  <1> HIDE DEF cut, left
  <1>8. cut # <<>>
    BY <1>1, <1>3, EmptySeq
  <1>9. Sound(cut)
    <2>1. \A i \in DOMAIN cut : i \in DOMAIN list /\ cut[i] = list[i]
      BY <1>1, <1>3, <1>4
    <2>2. ASSUME NEW i \in DOMAIN cut, NEW j \in DOMAIN cut, cut[i].at = cut[j].at
          PROVE  i = j
      BY <2>1, <2>2 DEF Sound
    <2>3. ASSUME NEW i \in DOMAIN cut
          PROVE  cut[i].value = cut[i].key
      BY <2>1 DEF Sound
    <2> QED
      BY <2>2, <2>3 DEF Sound
  <1>10. ASSUME NEW k \in DOMAIN left
         PROVE  \E i \in DOMAIN cut : cut[i].at = left[k] /\ cut[i].key = k
    <2>1. PICK i \in 1 .. Len(list) : list[i].at = map[k] /\ list[i].key = k
      BY <1>1, <1>5 DEF Backed
    <2>2. i \notin Len(list) - n + 1 .. Len(list)
      BY <1>5, <2>1 DEF LastKeys
    <2>3. i \in 1 .. Len(list) - n
      BY <1>1, <2>2
    <2> QED
      BY <1>3, <1>4, <1>6, <2>1, <2>3
  <1>11. Backed(cut, left)
    BY <1>7, <1>10 DEF Backed
  <1> QED
    BY <1>1, <1>3, <1>5, <1>8, <1>9, <1>11 DEF cut, left

-----------------------------------------------------------------------------
(* The invariant: what the runs check is already inductive. *)
IInv == TypeOK /\ NoDanglingEntry /\ ResultIsTheParse /\ BelowHardLimit

LEMMA ListAndMap ==
    ASSUME IInv
    PROVE  lru_list \in Seq(Node) /\ Sound(lru_list) /\ Backed(lru_list, cache)
  BY DEF IInv, TypeOK, NoDanglingEntry, ResultIsTheParse, Sound, Backed

LEMMA InitInvariant == Init => IInv
  <1> SUFFICES ASSUME Init
               PROVE  IInv
    OBVIOUS
  <1>1. lru_list \in Seq(Node) /\ DOMAIN lru_list = {}
    BY EmptySeq DEF Init
  <1>2. DOMAIN cache = {} /\ cache \in [{} -> Address]
    BY DEF Init
  <1>3. IsFiniteSet({}) /\ Cardinality({}) = 0
    BY FS_EmptySet
  <1>4. BelowHardLimit
    BY <1>2, <1>3, MaxOfTwo, ConstantsAssumption DEF BelowHardLimit, MaxAllowedSize
  <1>5. TypeOK
    BY <1>1, <1>2, <1>3, ConstantsAssumption DEF TypeOK, Init
  <1> QED
    BY <1>1, <1>2, <1>4, <1>5 DEF IInv, NoDanglingEntry, ResultIsTheParse, Init

(* A hit returns the parse of the text that was asked for: the entry leads *)
(* to a node of the same key.                                              *)
LEMMA HitKeeps ==
    ASSUME IInv, NEW th \in Thread, Hit(th)
    PROVE  IInv'
  <1> PICK k \in DOMAIN cache :
          /\ lru_list' = MoveToFront(lru_list, At(lru_list, cache[k]))
          /\ result' = [result EXCEPT ![th] = [asked |-> k, value |-> lru_list[At(lru_list, cache[k])].value]]
    BY DEF Hit
  <1> DEFINE i == At(lru_list, cache[k])
  <1>1. lru_list \in Seq(Node) /\ Sound(lru_list) /\ Backed(lru_list, cache)
    BY ListAndMap
  <1>2. Len(lru_list) \in Nat /\ DOMAIN lru_list = 1 .. Len(lru_list)
    BY <1>1, LenProperties
  <1>3. i \in 1 .. Len(lru_list) /\ lru_list[i].at = cache[k]
    BY <1>1, <1>2 DEF At, Backed
  <1>4. lru_list[i].key = k
    BY <1>1, <1>2, <1>3 DEF Sound, Backed
  <1> HIDE DEF i
  <1>5. lru_list' \in Seq(Node) /\ Sound(lru_list') /\ Backed(lru_list', cache)
    BY <1>1, <1>3, MoveToFrontPermutes, MovingKeeps DEF i
  <1>6. lru_list[i].value = k /\ k \in Key
    BY <1>1, <1>2, <1>3, <1>4 DEF Sound, IInv, TypeOK
  <1>7. /\ cache' = cache /\ text' = text /\ calls' = [calls EXCEPT ![th] = @ + 1]
        /\ result' = [result EXCEPT ![th] = [asked |-> k, value |-> k]]
        /\ calls[th] < MaxCalls
    BY <1>6 DEF Hit, i
  <1>8. \A t \in Thread : result'[t] # None =>
            result'[t] \in [asked : Key, value : Key] /\ result'[t].value = result'[t].asked
    <2> TAKE t \in Thread
    <2>1. result'[t] = result[t] \/ result'[t] = [asked |-> k, value |-> k]
      BY <1>7 DEF IInv, TypeOK
    <2> QED
      BY <1>6, <2>1 DEF IInv, TypeOK, ResultIsTheParse
  <1>9. calls' \in [Thread -> 0 .. MaxCalls]
    BY <1>7, ConstantsAssumption DEF IInv, TypeOK
  <1>10. TypeOK'
    BY <1>5, <1>7, <1>8, <1>9 DEF IInv, TypeOK
  <1>11. NoDanglingEntry' /\ ResultIsTheParse' /\ BelowHardLimit'
    BY <1>5, <1>7, <1>8 DEF IInv, NoDanglingEntry, ResultIsTheParse, BelowHardLimit, Sound, Backed
  <1> QED
    BY <1>10, <1>11 DEF IInv

(* What insert does, in the terms of the lemmas. *)
LEMMA InsertCutsThePushedList ==
    ASSUME IInv, NEW th \in Thread, Insert(th)
    PROVE  /\ lru_list' \in Seq(Node) /\ lru_list' # <<>> /\ Sound(lru_list') /\ Backed(lru_list', cache')
           /\ lru_list'[1].key = text[th]
           /\ DOMAIN cache' \subseteq Key
           /\ MaxSize # 0 => Cardinality(DOMAIN cache') < Max({MaxAllowedSize, MaxSize + 1})
           /\ DOMAIN cache \subseteq DOMAIN cache' \/ Cardinality(DOMAIN cache') >= MaxSize
  <1> DEFINE k == text[th]
             node == [at |-> Fresh(lru_list), key |-> k, value |-> k]
             pushed == Pushed(node, lru_list)
             with == Assigned(cache, k, node.at)
  <1>1. lru_list \in Seq(Node) /\ Sound(lru_list) /\ Backed(lru_list, cache)
    BY ListAndMap
  <1>2. k \in Key /\ lru_list' = Prune(pushed, with).list /\ cache' = Prune(pushed, with).map
    BY DEF Insert, Pushed
  <1>3. node \in Node /\ node.at \notin Addresses(lru_list) /\ node.value = node.key /\ node.key = k
    BY <1>1, <1>2, FreshIsFresh DEF Node
  <1> HIDE DEF node, k
  <1>4. /\ pushed \in Seq(Node) /\ pushed # <<>> /\ pushed[1] = node /\ Sound(pushed) /\ Backed(pushed, with)
        /\ DOMAIN with = DOMAIN cache \cup {k}
    <2>1. DOMAIN with = DOMAIN cache \cup {k}
      BY DEF Assigned
    <2> HIDE DEF pushed
    <2>2. pushed = Pushed(node, lru_list) /\ with = Assigned(cache, node.key, node.at)
      BY <1>3 DEF pushed
    <2> HIDE DEF with
    <2>3. pushed \in Seq(Node) /\ pushed # <<>> /\ pushed[1] = node /\ Sound(pushed) /\ Backed(pushed, with)
      BY <1>1, <1>3, <2>2, PushingKeeps
    <2> QED
      BY <2>1, <2>3
  <1> HIDE DEF pushed, with
  <1>5. PICK n \in 0 .. Len(pushed) - 1 :
            /\ Prune(pushed, with).list = SubSeq(pushed, 1, Len(pushed) - n)
            /\ Prune(pushed, with).map = Restrict(with, DOMAIN with \ LastKeys(pushed, n))
            /\ MaxSize # 0 => Cardinality(DOMAIN with \ LastKeys(pushed, n)) < Max({MaxAllowedSize, MaxSize + 1})
            /\ LastKeys(pushed, n) = {} \/ Cardinality(DOMAIN with \ LastKeys(pushed, n)) >= MaxSize
    BY <1>4, PruneCutsTheEnd
  <1>6. /\ lru_list' \in Seq(Node) /\ lru_list' # <<>> /\ lru_list'[1] = pushed[1]
        /\ Sound(lru_list') /\ Backed(lru_list', cache')
        /\ DOMAIN cache' = DOMAIN with \ LastKeys(pushed, n)
    <2> DEFINE cut == SubSeq(pushed, 1, Len(pushed) - n)
               left == Restrict(with, DOMAIN with \ LastKeys(pushed, n))
    <2>1. lru_list' = cut /\ cache' = left
      BY <1>2, <1>5
    <2>2. /\ cut \in Seq(Node) /\ cut # <<>> /\ cut[1] = pushed[1] /\ Sound(cut) /\ Backed(cut, left)
          /\ DOMAIN left = DOMAIN with \ LastKeys(pushed, n)
      BY <1>4, CuttingKeeps, Zenon
    <2> HIDE DEF cut, left
    <2> QED
      BY <2>1, <2>2
  <1>7. DOMAIN cache' \subseteq Key
    BY <1>2, <1>4, <1>6 DEF IInv, TypeOK
  <1> QED
    BY <1>3, <1>4, <1>5, <1>6, <1>7 DEF k

LEMMA InsertKeeps ==
    ASSUME IInv, NEW th \in Thread, Insert(th)
    PROVE  IInv'
  <1>1. /\ lru_list' \in Seq(Node) /\ Sound(lru_list') /\ Backed(lru_list', cache')
        /\ DOMAIN cache' \subseteq Key
        /\ MaxSize # 0 => Cardinality(DOMAIN cache') < Max({MaxAllowedSize, MaxSize + 1})
    BY InsertCutsThePushedList
  <1>2. /\ text[th] \in Key /\ calls' = calls /\ text' = [text EXCEPT ![th] = None]
        /\ result' = [result EXCEPT ![th] = [asked |-> text[th], value |-> text[th]]]
    BY DEF Insert
  <1>3. \A t \in Thread : result'[t] # None =>
            result'[t] \in [asked : Key, value : Key] /\ result'[t].value = result'[t].asked
    <2> TAKE t \in Thread
    <2>1. result'[t] = result[t] \/ result'[t] = [asked |-> text[th], value |-> text[th]]
      BY <1>2 DEF IInv, TypeOK
    <2> QED
      BY <1>2, <2>1 DEF IInv, TypeOK, ResultIsTheParse
  <1>4. TypeOK'
    BY <1>1, <1>2, <1>3 DEF IInv, TypeOK, Backed
  <1>5. NoDanglingEntry' /\ ResultIsTheParse' /\ BelowHardLimit'
    BY <1>1, <1>3 DEF NoDanglingEntry, ResultIsTheParse, BelowHardLimit, Sound, Backed
  <1> QED
    BY <1>4, <1>5 DEF IInv

LEMMA StepKeeps ==
    ASSUME IInv, [Next]_vars
    PROVE  IInv'
  <1>1. CASE Clear
    <2>1. lru_list' \in Seq(Node) /\ DOMAIN lru_list' = {}
      BY <1>1, EmptySeq DEF Clear
    <2>2. DOMAIN cache' = {} /\ cache' \in [{} -> Address]
      BY <1>1 DEF Clear
    <2>3. IsFiniteSet({}) /\ Cardinality({}) = 0
      BY FS_EmptySet
    <2>4. BelowHardLimit'
      BY <2>2, <2>3, MaxOfTwo, ConstantsAssumption DEF BelowHardLimit, MaxAllowedSize
    <2>5. TypeOK'
      BY <1>1, <2>1, <2>2, <2>3 DEF TypeOK, IInv, Clear
    <2> QED
      BY <1>1, <2>1, <2>2, <2>4, <2>5 DEF IInv, NoDanglingEntry, ResultIsTheParse, Clear
  <1>2. CASE Stop \/ UNCHANGED vars
    BY <1>2 DEF Stop, vars, IInv, TypeOK, NoDanglingEntry, ResultIsTheParse, BelowHardLimit
  <1>3. ASSUME NEW th \in Thread, Miss(th)
        PROVE  IInv'
    <2>1. TypeOK'
      BY <1>3, ConstantsAssumption DEF Miss, IInv, TypeOK
    <2> QED
      BY <1>3, <2>1 DEF Miss, IInv, TypeOK, NoDanglingEntry, ResultIsTheParse, BelowHardLimit
  <1>4. ASSUME NEW th \in Thread, ParseError(th)
        PROVE  IInv'
    <2>1. TypeOK'
      BY <1>4 DEF ParseError, IInv, TypeOK
    <2> QED
      BY <1>4, <2>1 DEF ParseError, IInv, NoDanglingEntry, ResultIsTheParse, BelowHardLimit
  <1> QED
    BY <1>1, <1>2, <1>3, <1>4, HitKeeps, InsertKeeps DEF Next

-----------------------------------------------------------------------------
LEMMA Invariance == Spec => []IInv
  <1>1. IInv /\ [Next]_vars => IInv'
    BY StepKeeps
  <1> QED
    BY InitInvariant, <1>1, PTL DEF Spec

(* Every variable keeps its type, whatever the threads do. *)
THEOREM TypeCorrect == Spec => []TypeOK
  <1>1. IInv => TypeOK
    BY DEF IInv
  <1> QED
    BY Invariance, <1>1, PTL

(* No entry of the map leads to a node that was pruned or is another       *)
(* text's, for any number of racing parses of the same text.               *)
THEOREM EntriesNeverDangle == Spec => []NoDanglingEntry
  <1>1. IInv => NoDanglingEntry
    BY DEF IInv
  <1> QED
    BY Invariance, <1>1, PTL

(* Every caller gets the parse of the text it asked for. *)
THEOREM ResultsAreTheParse == Spec => []ResultIsTheParse
  <1>1. IInv => ResultIsTheParse
    BY DEF IInv
  <1> QED
    BY Invariance, <1>1, PTL

-----------------------------------------------------------------------------
(* Only insert gives a thread that parsed a query back to its caller.      *)
LEMMA ReturningIsInserting ==
    ASSUME IInv, [Next]_vars, NEW th \in Thread, text[th] \in Key, text'[th] = None
    PROVE  Insert(th)
  <1>1. text[th] # None /\ text[th] \notin Malformed
    BY ConstantsAssumption
  <1>2. PICK t \in Thread : Hit(t) \/ Miss(t) \/ ParseError(t) \/ Insert(t)
    BY <1>1 DEF Next, Clear, Stop, vars
  <1>3. t = th
    BY <1>1, <1>2 DEF Hit, Miss, ParseError, Insert, IInv, TypeOK
  <1> QED
    BY <1>1, <1>2, <1>3 DEF Hit, Miss, ParseError, IInv, TypeOK

(* For every max_size and elasticity the keys stay below the hard limit,   *)
(* and an insertion does not take them below the soft one, whatever        *)
(* duplicates there are in the list.                                       *)
THEOREM KeysStayWithinLimits == Spec => KeysWithinLimits
  <1>1. IInv => BelowHardLimit
    BY DEF IInv
  <1>2. ASSUME IInv, [Next]_vars
        PROVE  \A th \in Thread : DownToSoftLimit(th)
    BY <1>2, ReturningIsInserting, InsertCutsThePushedList DEF DownToSoftLimit
  <1>3. IInv /\ IInv' /\ [Next]_vars => [BelowHardLimit' /\ \A th \in Thread : DownToSoftLimit(th)]_vars
    <2>1. IInv' => BelowHardLimit'
      BY DEF IInv
    <2> QED
      BY <1>2, <2>1
  <1> QED
    BY Invariance, <1>3, PTL DEF Spec, KeysWithinLimits

(* The node that insert makes outlives its own prune, so the reference     *)
(* that insert reads after it is good.                                     *)
THEOREM InsertedNodesSurvive == Spec => InsertedNodeSurvives
  <1> DEFINE Survives(th) == text[th] \in Key /\ text'[th] = None =>
                                 lru_list' # <<>> /\ Head(lru_list').key = text[th]
  <1>1. ASSUME IInv, [Next]_vars, NEW th \in Thread
        PROVE  Survives(th)
    <2> SUFFICES ASSUME text[th] \in Key, text'[th] = None
                 PROVE  lru_list' # <<>> /\ Head(lru_list').key = text[th]
      OBVIOUS
    <2>4. Insert(th)
      BY <1>1, ReturningIsInserting
    <2>5. lru_list' \in Seq(Node) /\ lru_list' # <<>> /\ lru_list'[1].key = text[th]
      BY <1>1, <2>4, InsertCutsThePushedList
    <2>6. Head(lru_list') = lru_list'[1]
      BY <2>5
    <2> QED
      BY <2>5, <2>6
  <1>2. IInv /\ [Next]_vars => [\A th \in Thread : Survives(th)]_vars
    BY <1>1
  <1> QED
    BY Invariance, <1>2, PTL DEF Spec, InsertedNodeSurvives

=============================================================================
