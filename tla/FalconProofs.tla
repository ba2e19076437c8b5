---------------------------- MODULE FalconProofs ----------------------------
(***************************************************************************)
(* The fraud engine's cache and its velocity rules, for any accounts,      *)
(* tables, cache size, windows and workers.                                *)
(*                                                                         *)
(* What makes the duplicates' theorem inductive: a node of the list stands *)
(* for a row (NodesHaveRows), which was there when the node was made and   *)
(* stays, and so does a match on its way to the cache.                     *)
(*                                                                         *)
(* The velocity rule counts rows, and who is past the rule brings one more *)
(* (ExcessInv).  A request that passes found fewer rows than the limit,    *)
(* and no more can be past the rule with it than there are workers.        *)
(***************************************************************************)
EXTENDS Falcon, Sums, SequenceTheorems, TLAPS

LOCAL INSTANCE SequencesExt

(* Key k has a row in its table created at t or later. *)
RowSince(k, t) == \E u \in Times : u >= t /\ HasRow(k, u)

NodesHaveRows ==
  \A i \in 1..Len(lruList) : RowSince(lruList[i].cacheKey, lruList[i].timestamp - SameSecond)

Working ==
  \A w \in Workers :
    /\ pc[w] # "idle" => key[w] \in Keys
    /\ now[w] <= time
    /\ pc[w] = "fill" => RowSince(key[w], now[w] - SameSecond)

IInv == TypeOK /\ MapPointsIntoList /\ NodesHaveRows /\ Working

(***************************************************************************)
(* Lists                                                                   *)
(***************************************************************************)

Moved(q, i) == <<q[i]>> \o RemoveAt(q, i)

(* Element i is moved to the front, the others keep their order.           *)
LEMMA MoveToFront ==
  ASSUME NEW S, NEW q \in Seq(S), NEW i \in 1..Len(q)
  PROVE  /\ Moved(q, i) \in Seq(S) /\ Len(Moved(q, i)) = Len(q)
         /\ \A j \in 1..Len(q) :
              Moved(q, i)[j] = IF j = 1 THEN q[i] ELSE IF j <= i THEN q[j - 1] ELSE q[j]
<1> DEFINE p == Moved(q, i)
<1>1. Len(q) \in Nat /\ i \in Nat /\ 1 <= i /\ i <= Len(q) /\ q[i] \in S
  OBVIOUS
<1>2. /\ SubSeq(q, 1, i - 1) \in Seq(S) /\ Len(SubSeq(q, 1, i - 1)) = i - 1
      /\ \A j \in 1..(i - 1) : SubSeq(q, 1, i - 1)[j] = q[j]
  BY <1>1
<1>3. /\ SubSeq(q, i + 1, Len(q)) \in Seq(S) /\ Len(SubSeq(q, i + 1, Len(q))) = Len(q) - i
      /\ \A j \in 1..(Len(q) - i) : SubSeq(q, i + 1, Len(q))[j] = q[j + i]
  BY <1>1
<1>4. /\ RemoveAt(q, i) \in Seq(S) /\ Len(RemoveAt(q, i)) = Len(q) - 1
      /\ \A j \in 1..(Len(q) - 1) : RemoveAt(q, i)[j] = IF j < i THEN q[j] ELSE q[j + 1]
  <2> DEFINE a == SubSeq(q, 1, i - 1)
             b == SubSeq(q, i + 1, Len(q))
  <2>1. RemoveAt(q, i) = a \o b
    BY DEF RemoveAt
  <2> HIDE DEF a, b
  <2>2. /\ a \in Seq(S) /\ b \in Seq(S) /\ Len(a) = i - 1 /\ Len(b) = Len(q) - i
        /\ \A j \in 1..(i - 1) : a[j] = q[j]
        /\ \A j \in 1..(Len(q) - i) : b[j] = q[j + i]
    BY <1>2, <1>3 DEF a, b
  <2>3. a \o b \in Seq(S) /\ Len(a \o b) = Len(q) - 1
    <3>1. a \o b \in Seq(S) /\ Len(a \o b) = Len(a) + Len(b)
      BY <2>2, ConcatProperties
    <3>2. (i - 1) + (Len(q) - i) = Len(q) - 1
      BY <1>1
    <3>3. QED
      BY <2>2, <3>1, <3>2
  <2>4. ASSUME NEW j \in 1..(Len(q) - 1), j < i PROVE (a \o b)[j] = q[j]
    BY <1>1, <2>2, <2>4
  <2>5. ASSUME NEW j \in 1..(Len(q) - 1), ~(j < i) PROVE (a \o b)[j] = q[j + 1]
    <3>1. (a \o b)[j] = b[j - (i - 1)] /\ j - (i - 1) \in 1..(Len(q) - i)
      BY <1>1, <2>2, <2>5
    <3>2. (j - (i - 1)) + i = j + 1
      BY <1>1
    <3>3. QED
      BY <2>2, <3>1, <3>2
  <2>6. QED
    BY <2>1, <2>3, <2>4, <2>5
<1>5. p \in Seq(S) /\ Len(p) = Len(q) /\ p[1] = q[i]
  BY <1>1, <1>4 DEF Moved
<1>6. ASSUME NEW j \in 2..Len(q) PROVE p[j] = RemoveAt(q, i)[j - 1]
  BY <1>1, <1>4 DEF Moved
<1>7. ASSUME NEW j \in 2..Len(q) PROVE p[j] = IF j <= i THEN q[j - 1] ELSE q[j]
  <2>1. j - 1 \in 1..(Len(q) - 1) /\ (j - 1 < i <=> j <= i) /\ (j - 1) + 1 = j
    BY <1>1
  <2>2. QED
    BY <1>4, <1>6, <2>1
<1>8. QED
  BY <1>1, <1>5, <1>7

(* A node in front of the list.                                            *)
LEMMA InFront ==
  ASSUME NEW S, NEW q \in Seq(S), NEW x \in S
  PROVE  /\ <<x>> \o q \in Seq(S) /\ Len(<<x>> \o q) = Len(q) + 1
         /\ (<<x>> \o q)[1] = x
         /\ \A j \in 1..Len(q) : (<<x>> \o q)[j + 1] = q[j]
  OBVIOUS

(* All but the last.                                                       *)
LEMMA WithoutLast ==
  ASSUME NEW S, NEW q \in Seq(S), q # <<>>
  PROVE  /\ SubSeq(q, 1, Len(q) - 1) \in Seq(S)
         /\ Len(SubSeq(q, 1, Len(q) - 1)) = Len(q) - 1
         /\ \A j \in 1..(Len(q) - 1) : SubSeq(q, 1, Len(q) - 1)[j] = q[j]
  OBVIOUS

(***************************************************************************)
(* The invariant                                                           *)
(***************************************************************************)

LEMMA InitOK == Init => IInv
  BY FalconAssumption DEF FalconAssumption, Init, IInv, TypeOK, MapPointsIntoList, NodesHaveRows,
     Working, Times

(* Rows are never lost, so what a node or a match stands for stays.        *)
LEMMA RowsStay ==
  ASSUME \A k \in Keys : \A t \in Times : HasRow(k, t) => HasRow(k, t)',
         NEW k \in Keys, NEW t, RowSince(k, t)
  PROVE  RowSince(k, t)'
  BY DEF RowSince

(* The node the map holds for a key has its place in the list, and a hit   *)
(* moves it to the front.                                                  *)
LEMMA PlaceOK ==
  ASSUME IInv, NEW k \in Keys, lruMap[k] # NoNode
  PROVE  /\ Place(lruMap[k]) \in 1..Len(lruList)
         /\ lruList[Place(lruMap[k])].at = lruMap[k]
         /\ lruList[Place(lruMap[k])].cacheKey = k
<1>1. PICK i \in 1..Len(lruList) : lruList[i].at = lruMap[k] /\ lruList[i].cacheKey = k
  BY DEF IInv, MapPointsIntoList
<1>2. Place(lruMap[k]) \in 1..Len(lruList) /\ lruList[Place(lruMap[k])].at = lruMap[k]
  BY <1>1 DEF Place
<1>3. Place(lruMap[k]) = i
  BY <1>1, <1>2 DEF IInv, MapPointsIntoList
<1>4. QED
  BY <1>1, <1>2, <1>3

LEMMA HitStep ==
  ASSUME IInv, NEW w \in Workers, Hit(w)
  PROVE  IInv'
<1> DEFINE i == Place(lruMap[key[w]])
           q == lruList
<1>1. key[w] \in Keys
  BY DEF IInv, Working, Hit
<1>2. i \in 1..Len(q) /\ q \in Seq(CacheNode)
  BY <1>1, PlaceOK DEF Hit, IInv, TypeOK
<1>3. lruList' = Moved(q, i)
  BY DEF Hit, Spliced, NodeAt, Moved
<1>4. /\ lruList' \in Seq(CacheNode) /\ Len(lruList') = Len(q)
      /\ \A j \in 1..Len(q) : lruList'[j] = IF j = 1 THEN q[i] ELSE IF j <= i THEN q[j - 1] ELSE q[j]
  BY <1>2, <1>3, MoveToFront
<1>5. Len(q) \in Nat /\ i \in Nat
  BY <1>2
<1>6. TypeOK'
  <2>1. pc' \in [Workers -> {"idle", "lookup", "query", "fill", "velocity", "cross",
                            "passed", "written", "refund", "returned"}]
    BY DEF Hit, End, Goto, IInv, TypeOK
  <2>2. key' \in [Workers -> Keys \cup {NoKey}]
    BY DEF Hit, End, IInv, TypeOK
  <2>3. now' \in [Workers -> Times]
    BY FalconAssumption DEF FalconAssumption, Hit, End, IInv, TypeOK, Times
  <2>4. QED
    BY <1>4, <2>1, <2>2, <2>3 DEF Hit, IInv, TypeOK
<1>7. MapPointsIntoList'
  <2>1. ASSUME NEW k \in Keys, lruMap[k] # NoNode
        PROVE  \E j \in 1..Len(lruList') : lruList'[j].at = lruMap[k] /\ lruList'[j].cacheKey = k
    <3>1. PICK j \in 1..Len(q) : q[j].at = lruMap[k] /\ q[j].cacheKey = k
      BY <2>1 DEF IInv, MapPointsIntoList
    <3>2. CASE j = i
      BY <1>4, <1>5, <3>1, <3>2
    <3>3. CASE j < i
      <4>1. j + 1 \in 1..Len(q) /\ lruList'[j + 1] = q[j]
        BY <1>2, <1>4, <1>5, <3>3
      <4>2. QED
        BY <1>4, <3>1, <4>1
    <3>4. CASE j > i
      BY <1>2, <1>4, <1>5, <3>1, <3>4
    <3>5. QED
      BY <1>5, <3>2, <3>3, <3>4
  <2>2. ASSUME NEW j \in 1..Len(q), NEW l \in 1..Len(q), lruList'[j].at = lruList'[l].at
        PROVE  j = l
    <3> DEFINE from(x) == IF x = 1 THEN i ELSE IF x <= i THEN x - 1 ELSE x
    <3>1. /\ from(j) \in 1..Len(q) /\ lruList'[j] = q[from(j)]
          /\ from(l) \in 1..Len(q) /\ lruList'[l] = q[from(l)]
      BY <1>2, <1>4, <1>5
    <3>2. from(j) = from(l)
      BY <2>2, <3>1 DEF IInv, MapPointsIntoList
    <3>3. QED
      BY <1>2, <1>5, <3>2
  <2>3. QED
    BY <1>4, <2>1, <2>2 DEF MapPointsIntoList, Hit
<1>8. NodesHaveRows'
  <2>1. UNCHANGED <<rows, refunds>>
    BY DEF Hit
  <2>2. \A k \in Keys : \A t : RowSince(k, t) => RowSince(k, t)'
    BY <2>1 DEF RowSince, HasRow
  <2>3. \A j \in 1..Len(q) :
          q[j].cacheKey \in Keys /\ RowSince(q[j].cacheKey, q[j].timestamp - SameSecond)
    <3>1. \A j \in 1..Len(q) : q[j] \in CacheNode
      BY DEF IInv, TypeOK
    <3>2. QED
      BY <3>1 DEF CacheNode, IInv, NodesHaveRows
  <2>4. \A j \in 1..Len(q) : \E l \in 1..Len(q) : lruList'[j] = q[l]
    BY <1>2, <1>4, <1>5
  <2>5. QED
    BY <1>4, <2>2, <2>3, <2>4, SMTT(20) DEF NodesHaveRows
<1>9. Working'
  BY DEF Hit, End, Goto, IInv, TypeOK, Working, RowSince, HasRow, Times
<1>10. QED
  BY <1>6, <1>7, <1>8, <1>9 DEF IInv

LEMMA FillStep ==
  ASSUME IInv, NEW w \in Workers, Fill(w)
  PROVE  IInv'
<1>1. key[w] \in Keys /\ now[w] \in Times /\ RowSince(key[w], now[w] - SameSecond)
  BY DEF IInv, Working, TypeOK, Fill
<1>2. PICK n \in Nodes \ InUse :
        LET node == [at |-> n, cacheKey |-> key[w], timestamp |-> now[w]]
            left == Evicted(<<node>> \o lruList, [lruMap EXCEPT ![key[w]] = n])
        IN lruList' = left[1] /\ lruMap' = left[2]
  BY DEF Fill
<1> DEFINE node == [at |-> n, cacheKey |-> key[w], timestamp |-> now[w]]
           q == <<node>> \o lruList
           map == [lruMap EXCEPT ![key[w]] = n]
<1>3. node \in CacheNode /\ node.at = n /\ node.cacheKey = key[w] /\ node.timestamp = now[w]
  BY <1>1 DEF CacheNode
<1>4. /\ q \in Seq(CacheNode) /\ Len(q) = Len(lruList) + 1 /\ Len(lruList) \in Nat /\ q[1] = node
      /\ \A j \in 1..Len(lruList) : q[j + 1] = lruList[j]
  BY <1>3, InFront DEF IInv, TypeOK
<1>5. map \in [Keys -> Nodes \cup {NoNode}] /\ map[key[w]] = n
      /\ \A k \in Keys \ {key[w]} : map[k] = lruMap[k]
  BY <1>1 DEF IInv, TypeOK
<1> HIDE DEF q, map, node
<1>6. \A j \in 2..Len(q) : j - 1 \in 1..Len(lruList) /\ q[j] = lruList[j - 1]
  BY <1>4
<1>7. \A j, l \in 1..Len(q) : q[j].at = q[l].at => j = l
  <2>1. ASSUME NEW j \in 2..Len(q) PROVE q[j].at # n
    BY <1>6 DEF InUse
  <2>2. ASSUME NEW j \in 2..Len(q), NEW l \in 2..Len(q), q[j].at = q[l].at PROVE j = l
    <3>1. /\ j - 1 \in 1..Len(lruList) /\ q[j] = lruList[j - 1]
          /\ l - 1 \in 1..Len(lruList) /\ q[l] = lruList[l - 1]
      BY <1>6
    <3>2. lruList[j - 1].at = lruList[l - 1].at
      BY <2>2, <3>1
    <3>3. j - 1 = l - 1
      BY <3>1, <3>2 DEF IInv, MapPointsIntoList
    <3>4. QED
      BY <3>3, <1>4
  <2>3. QED
    BY <1>3, <1>4, <2>1, <2>2
<1>8. \A k \in Keys : map[k] # NoNode => \E j \in 1..Len(q) : q[j].at = map[k] /\ q[j].cacheKey = k
  <2>1. ASSUME NEW k \in Keys \ {key[w]}, map[k] # NoNode
        PROVE  \E j \in 1..Len(q) : q[j].at = map[k] /\ q[j].cacheKey = k
    <3>1. PICK j \in 1..Len(lruList) : lruList[j].at = lruMap[k] /\ lruList[j].cacheKey = k
      BY <1>5, <2>1 DEF IInv, MapPointsIntoList
    <3>2. j + 1 \in 1..Len(q) /\ q[j + 1] = lruList[j]
      BY <1>4
    <3>3. QED
      BY <1>5, <3>1, <3>2
  <2>2. QED
    BY <1>3, <1>4, <1>5, <2>1
<1>9. \A j \in 1..Len(q) : RowSince(q[j].cacheKey, q[j].timestamp - SameSecond)
  <2>1. ASSUME NEW j \in 2..Len(q) PROVE RowSince(q[j].cacheKey, q[j].timestamp - SameSecond)
    BY <1>6 DEF IInv, NodesHaveRows
  <2>2. QED
    BY <1>1, <1>3, <1>4, <2>1
<1> DEFINE Good(list, m) ==
      /\ list \in Seq(CacheNode)
      /\ m \in [Keys -> Nodes \cup {NoNode}]
      /\ \A k \in Keys : m[k] # NoNode => \E j \in 1..Len(list) : list[j].at = m[k] /\ list[j].cacheKey = k
      /\ \A j, l \in 1..Len(list) : list[j].at = list[l].at => j = l
      /\ \A j \in 1..Len(list) : RowSince(list[j].cacheKey, list[j].timestamp - SameSecond)
<1>10. Good(lruList', lruMap')
  <2>1. lruList' = Evicted(q, map)[1] /\ lruMap' = Evicted(q, map)[2]
    BY <1>2 DEF q, map, node
  <2>2. CASE ~(Cardinality(Cached(map)) > MaxCacheSize)
    <3>1. lruList' = q /\ lruMap' = map
      BY <2>1, <2>2 DEF Evicted
    <3>2. QED
      BY <1>4, <1>5, <1>7, <1>8, <1>9, <3>1
  <2>3. CASE Cardinality(Cached(map)) > MaxCacheSize
    <3> DEFINE front == SubSeq(q, 1, Len(q) - 1)
               last == q[Len(q)]
    <3>1. lruList' = front /\ lruMap' = [map EXCEPT ![last.cacheKey] = NoNode]
      BY <2>1, <2>3 DEF Evicted
    <3>2. /\ front \in Seq(CacheNode) /\ Len(front) = Len(q) - 1
          /\ \A j \in 1..(Len(q) - 1) : front[j] = q[j]
      BY <1>4, WithoutLast
    <3>3. last \in CacheNode /\ last.cacheKey \in Keys /\ Len(q) \in Nat
      <4>1. Len(q) \in Nat /\ Len(q) \in 1..Len(q)
        BY <1>4
      <4>2. last \in CacheNode
        BY <1>4, <4>1
      <4>3. QED
        BY <4>1, <4>2 DEF CacheNode
    <3> HIDE DEF front, last
    <3>4. lruMap' \in [Keys -> Nodes \cup {NoNode}]
          /\ \A k \in Keys : lruMap'[k] = IF k = last.cacheKey THEN NoNode ELSE map[k]
      BY <1>5, <3>1, <3>3
    <3>5. ASSUME NEW k \in Keys, lruMap'[k] # NoNode
          PROVE  \E j \in 1..Len(front) : front[j].at = lruMap'[k] /\ front[j].cacheKey = k
      <4>1. k # last.cacheKey /\ lruMap'[k] = map[k]
        BY <3>4, <3>5
      <4>2. PICK j \in 1..Len(q) : q[j].at = map[k] /\ q[j].cacheKey = k
        BY <1>8, <3>5, <4>1
      <4>3. j # Len(q)
        BY <4>1, <4>2 DEF last
      <4>4. j \in 1..(Len(q) - 1)
        BY <3>3, <4>3
      <4>5. QED
        BY <3>2, <4>1, <4>2, <4>4
    <3>6. \A j \in 1..Len(front) : j \in 1..Len(q) /\ front[j] = q[j]
      BY <3>2, <3>3
    <3>7. QED
      BY <1>7, <1>9, <3>1, <3>2, <3>4, <3>5, <3>6
  <2>4. QED
    BY <2>2, <2>3
<1>11. TypeOK'
  <2>1. pc' \in [Workers -> {"idle", "lookup", "query", "fill", "velocity", "cross",
                            "passed", "written", "refund", "returned"}]
    BY DEF Fill, End, Goto, IInv, TypeOK
  <2>2. key' \in [Workers -> Keys \cup {NoKey}]
    BY DEF Fill, End, IInv, TypeOK
  <2>3. now' \in [Workers -> Times]
    BY FalconAssumption DEF FalconAssumption, Fill, End, IInv, TypeOK, Times
  <2>4. QED
    BY <1>10, <2>1, <2>2, <2>3 DEF Fill, IInv, TypeOK
<1>12. MapPointsIntoList'
  BY <1>10 DEF MapPointsIntoList
<1>13. NodesHaveRows'
  BY <1>10 DEF NodesHaveRows, Fill, RowSince, HasRow
<1>14. Working'
  BY DEF Fill, End, Goto, IInv, TypeOK, Working, RowSince, HasRow, Times
<1>15. QED
  BY <1>11, <1>12, <1>13, <1>14 DEF IInv

(* The other steps leave the list alone, and of the map drop keys only.    *)
LEMMA OtherStep ==
  ASSUME IInv, UNCHANGED lruList,
         \A k \in Keys : lruMap'[k] = lruMap[k] \/ lruMap'[k] = NoNode,
         lruMap' \in [Keys -> Nodes \cup {NoNode}],
         \A k \in Keys : \A t \in Times : HasRow(k, t) => HasRow(k, t)'
  PROVE  MapPointsIntoList' /\ NodesHaveRows'
<1>1. MapPointsIntoList'
  BY DEF IInv, MapPointsIntoList
<1>2. \A i \in 1..Len(lruList) : lruList[i].cacheKey \in Keys
  <2>1. \A i \in 1..Len(lruList) : lruList[i] \in CacheNode
    BY DEF IInv, TypeOK
  <2>2. QED
    BY <2>1 DEF CacheNode
<1>3. NodesHaveRows'
  BY <1>2 DEF IInv, NodesHaveRows, RowSince, HasRow
<1>4. QED
  BY <1>1, <1>3

LEMMA StepOK == IInv /\ [Next]_vars => IInv'
<1> SUFFICES ASSUME IInv, [Next]_vars PROVE IInv'
  OBVIOUS
<1> DEFINE Rest == UNCHANGED <<lruList, rows, refunds>> /\ lruMap' \in [Keys -> Nodes \cup {NoNode}]
                   /\ \A k \in Keys : lruMap'[k] = lruMap[k] \/ lruMap'[k] = NoNode
<1>0. Rest => MapPointsIntoList' /\ NodesHaveRows'
  BY OtherStep DEF HasRow
<1> USE FalconAssumption DEF FalconAssumption, Goto, End, GoOn, cache, Times
<1>1. ASSUME NEW w \in Workers, Hit(w) PROVE IInv'
  BY <1>1, HitStep
<1>2. ASSUME NEW w \in Workers, Fill(w) PROVE IInv'
  BY <1>2, FillStep
<1>3. ASSUME NEW w \in Workers, Arrive(w) PROVE IInv'
  <2>1. TypeOK'
    <3>1. /\ pc' = [pc EXCEPT ![w] = "lookup"] /\ now' = [now EXCEPT ![w] = time]
          /\ \E k \in Keys : key' = [key EXCEPT ![w] = k]
          /\ requests < MaxRequests /\ requests' = requests + 1
          /\ UNCHANGED <<time, rows, refunds, lruList, lruMap, failures>>
      BY <1>3 DEF Arrive
    <3>2. requests' \in 0..MaxRequests
      BY <3>1 DEF IInv, TypeOK
    <3>3. key' \in [Workers -> Keys \cup {NoKey}]
      BY <3>1 DEF IInv, TypeOK
    <3>4. QED
      BY <3>1, <3>2, <3>3 DEF IInv, TypeOK
  <2>2. Rest
    BY <1>3 DEF Arrive, IInv, TypeOK
  <2>3. Working'
    BY <1>3 DEF Arrive, IInv, TypeOK, Working, RowSince, HasRow
  <2>4. QED
    BY <1>0, <2>1, <2>2, <2>3 DEF IInv
<1>4. ASSUME NEW w \in Workers, Stale(w) PROVE IInv'
  <2>1. TypeOK'
    BY <1>4 DEF Stale, IInv, TypeOK
  <2>2. Rest
    BY <1>4 DEF Stale, IInv, TypeOK
  <2>3. Working'
    BY <1>4 DEF Stale, IInv, TypeOK, Working, RowSince, HasRow
  <2>4. QED
    BY <1>0, <2>1, <2>2, <2>3 DEF IInv
<1>5. ASSUME NEW w \in Workers, Miss(w) PROVE IInv'
  <2>1. TypeOK'
    BY <1>5 DEF Miss, IInv, TypeOK
  <2>2. Rest
    BY <1>5 DEF Miss, IInv, TypeOK
  <2>3. Working'
    BY <1>5 DEF Miss, IInv, TypeOK, Working, RowSince, HasRow
  <2>4. QED
    BY <1>0, <2>1, <2>2, <2>3 DEF IInv
<1>6. ASSUME NEW w \in Workers, Query(w) PROVE IInv'
  <2>1. TypeOK'
    BY <1>6 DEF Query, IInv, TypeOK
  <2>2. Rest
    BY <1>6 DEF Query, IInv, TypeOK
  <2>3. Working'
    <3>0. /\ pc[w] = "query" /\ UNCHANGED <<time, rows, refunds, key, now>>
          /\ \E l \in {"fill", "velocity"} :
               /\ pc' = [pc EXCEPT ![w] = l]
               /\ l = "fill" => \E t \in Times : t >= time - SameSecond /\ HasRow(key[w], t)
      BY <1>6 DEF Query, GoOn, Goto
    <3>1. /\ pc[w] = "query" /\ UNCHANGED <<time, rows, refunds, key, now>>
          /\ pc'[w] = "fill" => \E t \in Times : t >= time - SameSecond /\ HasRow(key[w], t)
          /\ \A v \in Workers : v # w => pc'[v] = pc[v]
      BY <3>0 DEF IInv, TypeOK
    <3>2. now[w] \in Int /\ time \in Int /\ SameSecond \in Int /\ \A t \in Times : t \in Int
      BY FalconAssumption DEF FalconAssumption, IInv, TypeOK, Times
    <3>3. now[w] <= time
      BY DEF IInv, Working
    <3>4. pc'[w] = "fill" => RowSince(key[w], now[w] - SameSecond)
      BY <3>1, <3>2, <3>3 DEF RowSince
    <3>5. \A k, t : RowSince(k, t)' <=> RowSince(k, t)
      BY <3>1 DEF RowSince, HasRow
    <3>6. ASSUME NEW v \in Workers
          PROVE  (/\ pc[v] # "idle" => key[v] \in Keys
                  /\ now[v] <= time
                  /\ pc[v] = "fill" => RowSince(key[v], now[v] - SameSecond))'
      <4>1. CASE v = w
        BY <3>1, <3>4, <3>5, <4>1 DEF IInv, Working
      <4>2. CASE v # w
        <5>1. pc'[v] = pc[v]
          BY <3>1, <4>2
        <5>2. QED
          BY <3>1, <3>5, <5>1 DEF IInv, Working
      <4>3. QED
        BY <4>1, <4>2
    <3>7. QED
      BY <3>6 DEF Working
  <2>4. QED
    BY <1>0, <2>1, <2>2, <2>3 DEF IInv
<1>7. ASSUME NEW w \in Workers, Velocity(w) PROVE IInv'
  <2>1. /\ pc[w] = "velocity" /\ (End(w) \/ GoOn(w, "cross"))
        /\ UNCHANGED <<time, rows, refunds, cache, requests, failures>>
    BY <1>7 DEF Velocity
  <2>2. TypeOK'
    <3>1. CASE End(w)
      BY <2>1, <3>1, SMTT(20) DEF IInv, TypeOK
    <3>2. CASE GoOn(w, "cross")
      BY <2>1, <3>2 DEF IInv, TypeOK
    <3>3. QED
      BY <2>1, <3>1, <3>2
  <2>3. Rest
    BY <2>1 DEF IInv, TypeOK
  <2>4. Working'
    <3>1. CASE End(w)
      BY <2>1, <3>1 DEF IInv, TypeOK, Working, RowSince, HasRow
    <3>2. CASE GoOn(w, "cross")
      BY <2>1, <3>2 DEF IInv, TypeOK, Working, RowSince, HasRow
    <3>3. QED
      BY <2>1, <3>1, <3>2
  <2>5. QED
    BY <1>0, <2>2, <2>3, <2>4 DEF IInv
<1>8. ASSUME NEW w \in Workers, CrossVelocity(w) PROVE IInv'
  <2>1. /\ pc[w] = "cross" /\ (End(w) \/ GoOn(w, "passed"))
        /\ UNCHANGED <<time, rows, refunds, cache, requests, failures>>
    BY <1>8 DEF CrossVelocity
  <2>2. TypeOK'
    <3>1. CASE End(w)
      BY <2>1, <3>1, SMTT(20) DEF IInv, TypeOK
    <3>2. CASE GoOn(w, "passed")
      BY <2>1, <3>2 DEF IInv, TypeOK
    <3>3. QED
      BY <2>1, <3>1, <3>2
  <2>3. Rest
    BY <2>1 DEF IInv, TypeOK
  <2>4. Working'
    <3>1. CASE End(w)
      BY <2>1, <3>1 DEF IInv, TypeOK, Working, RowSince, HasRow
    <3>2. CASE GoOn(w, "passed")
      BY <2>1, <3>2 DEF IInv, TypeOK, Working, RowSince, HasRow
    <3>3. QED
      BY <2>1, <3>1, <3>2
  <2>5. QED
    BY <1>0, <2>2, <2>3, <2>4 DEF IInv
<1>9. ASSUME NEW w \in Workers, QueryFails(w) PROVE IInv'
  <2>1. TypeOK'
    BY <1>9 DEF QueryFails, IInv, TypeOK
  <2>2. Rest
    BY <1>9 DEF QueryFails, IInv, TypeOK
  <2>3. Working'
    <3> DEFINE next == [query |-> "velocity", velocity |-> "cross", cross |-> "passed"][pc[w]]
    <3>1. /\ pc[w] \in {"query", "velocity", "cross"} /\ pc' = [pc EXCEPT ![w] = next]
          /\ UNCHANGED <<time, rows, refunds, key, now>>
      BY <1>9 DEF QueryFails
    <3>2. next \in {"velocity", "cross", "passed"}
      BY <3>1
    <3> HIDE DEF next
    <3>3. DOMAIN pc = Workers /\ \A v \in Workers : pc'[v] = IF v = w THEN next ELSE pc[v]
      BY <3>1 DEF IInv, TypeOK
    <3>4. QED
      BY <3>1, <3>2, <3>3 DEF IInv, Working, RowSince, HasRow
  <2>4. QED
    BY <1>0, <2>1, <2>2, <2>3 DEF IInv
<1>10. ASSUME NEW w \in Workers, Refuse(w) PROVE IInv'
  <2>1. TypeOK'
    BY <1>10 DEF Refuse, IInv, TypeOK
  <2>2. Rest
    BY <1>10 DEF Refuse, IInv, TypeOK
  <2>3. Working'
    BY <1>10 DEF Refuse, IInv, TypeOK, Working, RowSince, HasRow
  <2>4. QED
    BY <1>0, <2>1, <2>2, <2>3 DEF IInv
<1>11. ASSUME NEW w \in Workers, Write(w) PROVE IInv'
  <2>1. TypeOK'
    BY <1>11 DEF Write, IInv, TypeOK
  <2>2. Rest
    BY <1>11 DEF Write, IInv, TypeOK
  <2>3. Working'
    BY <1>11 DEF Write, IInv, TypeOK, Working, RowSince, HasRow
  <2>4. QED
    BY <1>0, <2>1, <2>2, <2>3 DEF IInv
<1>12. ASSUME NEW w \in Workers, Commit(w) PROVE IInv'
  <2>1. key[w] \in Keys /\ now[w] \in Times /\ rows[key[w]][now[w]] \in Nat
    BY <1>12 DEF Commit, IInv, TypeOK, Working
  <2>2. /\ rows' \in [Keys -> [Times -> Nat]]
        /\ \A k \in Keys : \A t \in Times : HasRow(k, t) => HasRow(k, t)'
    BY <1>12, <2>1, SMTT(20) DEF Commit, IInv, TypeOK, HasRow
  <2>3. TypeOK'
    <3>1. /\ pc' = [pc EXCEPT ![w] = "idle"] /\ key' = [key EXCEPT ![w] = NoKey]
          /\ now' = [now EXCEPT ![w] = 0] /\ 0 \in Times
          /\ UNCHANGED <<time, refunds, lruList, lruMap, requests, failures>>
      BY <1>12 DEF Commit
    <3>2. QED
      BY <2>2, <3>1 DEF IInv, TypeOK
  <2>4. MapPointsIntoList' /\ NodesHaveRows'
    BY <1>12, <2>2, OtherStep DEF Commit, IInv, TypeOK
  <2>5. Working'
    <3>1. \A k \in Keys : \A t : RowSince(k, t) => RowSince(k, t)'
      BY <2>2 DEF RowSince, HasRow
    <3>2. Working /\ TypeOK /\ time \in Nat
      BY DEF IInv, TypeOK
    <3>3. QED
      BY <1>12, <3>1, <3>2 DEF Commit, TypeOK, Working
  <2>6. QED
    BY <2>3, <2>4, <2>5 DEF IInv
<1>13. CASE Tick
  <2>1. TypeOK'
    BY <1>13 DEF Tick, IInv, TypeOK
  <2>2. Rest
    BY <1>13 DEF Tick, IInv, TypeOK
  <2>3. Working'
    BY <1>13 DEF Tick, IInv, TypeOK, Working, RowSince, HasRow
  <2>4. QED
    BY <1>0, <2>1, <2>2, <2>3 DEF IInv
<1>14. CASE UNCHANGED vars
  BY <1>14 DEF vars, IInv, TypeOK, MapPointsIntoList, NodesHaveRows, Working, RowSince, HasRow
<1>16. ASSUME NEW w \in Workers, CommitRefund(w) PROVE IInv'
  <2>1. key[w] \in Keys /\ now[w] \in Times /\ refunds[key[w]][now[w]] \in Nat
    BY <1>16 DEF CommitRefund, IInv, TypeOK, Working
  <2>2. /\ refunds' \in [Keys -> [Times -> Nat]]
        /\ \A k \in Keys : \A t \in Times : HasRow(k, t) => HasRow(k, t)'
    BY <1>16, <2>1, SMTT(20) DEF CommitRefund, IInv, TypeOK, HasRow
  <2>3. TypeOK'
    <3>1. /\ pc' = [pc EXCEPT ![w] = "idle"] /\ key' = [key EXCEPT ![w] = NoKey]
          /\ now' = [now EXCEPT ![w] = 0] /\ 0 \in Times
          /\ UNCHANGED <<time, rows, lruList, lruMap, requests, failures>>
      BY <1>16 DEF CommitRefund
    <3>2. QED
      BY <2>2, <3>1 DEF IInv, TypeOK
  <2>4. MapPointsIntoList' /\ NodesHaveRows'
    BY <1>16, <2>2, OtherStep DEF CommitRefund, IInv, TypeOK
  <2>5. Working'
    <3>1. \A k \in Keys : \A t : RowSince(k, t) => RowSince(k, t)'
      BY <2>2 DEF RowSince, HasRow
    <3>2. Working /\ TypeOK /\ time \in Nat
      BY DEF IInv, TypeOK
    <3>3. QED
      BY <1>16, <3>1, <3>2 DEF CommitRefund, TypeOK, Working
  <2>6. QED
    BY <2>3, <2>4, <2>5 DEF IInv
<1>17. ASSUME NEW w \in Workers, RefundArrives(w) PROVE IInv'
  <2>1. TypeOK'
    <3>1. /\ pc' = [pc EXCEPT ![w] = "refund"] /\ now' = now
          /\ \E k \in Keys : key' = [key EXCEPT ![w] = k]
          /\ requests < MaxRequests /\ requests' = requests + 1
          /\ UNCHANGED <<time, rows, refunds, lruList, lruMap, failures>>
      BY <1>17 DEF RefundArrives
    <3>2. requests' \in 0..MaxRequests
      BY <3>1 DEF IInv, TypeOK
    <3>3. key' \in [Workers -> Keys \cup {NoKey}]
      BY <3>1 DEF IInv, TypeOK
    <3>4. QED
      BY <3>1, <3>2, <3>3 DEF IInv, TypeOK
  <2>2. Rest
    BY <1>17 DEF RefundArrives, IInv, TypeOK
  <2>3. Working'
    BY <1>17 DEF RefundArrives, IInv, TypeOK, Working, RowSince, HasRow
  <2>4. QED
    BY <1>0, <2>1, <2>2, <2>3 DEF IInv
<1>18. QED
  BY <1>1, <1>2, <1>3, <1>4, <1>5, <1>6, <1>7, <1>8, <1>9, <1>10, <1>11, <1>12, <1>13, <1>14,
     <1>16, <1>17
  DEF Next, Check, Finished

LEMMA Invariance == Spec => []IInv
  BY InitOK, StepOK, PTL DEF Spec

(* The state of the engine's checks keeps its type.                        *)
THEOREM TypeCorrect == Spec => []TypeOK
<1>1. IInv => TypeOK
  BY DEF IInv
<1>2. QED
  BY <1>1, Invariance, PTL

(* No iterator of the map dangles, in any order of hits, fills and         *)
(* evictions.                                                              *)
THEOREM NothingDangles == Spec => []MapPointsIntoList
<1>1. IInv => MapPointsIntoList
  BY DEF IInv
<1>2. QED
  BY <1>1, Invariance, PTL

(* A declined duplicate follows a row at most two windows old.             *)
THEOREM DeclinedForARow == Spec => DuplicatesFollowARow
<1> DEFINE Justified ==
      \A w \in Workers :
        pc[w] \in {"lookup", "fill"} /\ pc'[w] = "idle" =>
          \E t \in Times : HasRow(key[w], t) /\ t >= now[w] - 2 * SameSecond
<1>1. ASSUME IInv, [Next]_vars PROVE Justified
  <2> SUFFICES ASSUME NEW w \in Workers, pc[w] \in {"lookup", "fill"}, pc'[w] = "idle"
               PROVE  \E t \in Times : HasRow(key[w], t) /\ t >= now[w] - 2 * SameSecond
    OBVIOUS
  <2>1. key[w] \in Keys /\ now[w] \in Int /\ SameSecond \in Nat
    BY <1>1, FalconAssumption DEF FalconAssumption, IInv, TypeOK, Working, Times
  <2>2. CASE pc[w] = "fill"
    BY <1>1, <2>1, <2>2 DEF IInv, Working, RowSince, HasRow, Times
  <2>3. CASE Hit(w)
    <3>1. /\ NodeAt(lruMap[key[w]]) = lruList[Place(lruMap[key[w]])]
          /\ Place(lruMap[key[w]]) \in 1..Len(lruList)
          /\ NodeAt(lruMap[key[w]]).cacheKey = key[w]
      BY <1>1, <2>1, <2>3, PlaceOK DEF Hit, NodeAt
    <3>2. RowSince(key[w], NodeAt(lruMap[key[w]]).timestamp - SameSecond)
      BY <1>1, <3>1 DEF IInv, NodesHaveRows
    <3>3. NodeAt(lruMap[key[w]]).timestamp \in Int
      <4>1. NodeAt(lruMap[key[w]]) \in CacheNode
        BY <1>1, <3>1 DEF IInv, TypeOK
      <4>2. QED
        BY <4>1 DEF CacheNode, Times
    <3>4. QED
      BY <2>1, <2>3, <3>2, <3>3 DEF Hit, Fresh, RowSince, HasRow, Times
  <2>4. CASE ~Hit(w) /\ pc[w] = "lookup"
    <3>1. ASSUME NEW v \in Workers, Hit(v) PROVE FALSE
      BY <1>1, <2>4, <3>1 DEF Hit, End, Goto, IInv, TypeOK
    <3>2. CASE \E v \in Workers : \/ Arrive(v) \/ Stale(v) \/ Miss(v) \/ Query(v) \/ Fill(v)
                                  \/ Velocity(v) \/ CrossVelocity(v)
      BY <1>1, <2>4, <3>2 DEF Arrive, Stale, Miss, Query, Fill, Velocity, CrossVelocity, End, GoOn,
         Goto, IInv, TypeOK
    <3>3. CASE \E v \in Workers : \/ QueryFails(v) \/ RefundArrives(v) \/ Refuse(v) \/ Write(v)
                                  \/ Commit(v) \/ CommitRefund(v)
      BY <1>1, <2>4, <3>3 DEF QueryFails, RefundArrives, Refuse, Write, Commit,
          CommitRefund, End, GoOn, Goto, IInv, TypeOK
    <3>4. CASE Tick \/ UNCHANGED vars
      BY <2>4, <3>4 DEF Tick, vars
    <3>5. QED
      BY <1>1, <3>1, <3>2, <3>3, <3>4 DEF Next, Check, Finished
  <2>5. QED
    BY <2>2, <2>3, <2>4
<1>2. IInv /\ [Next]_vars => [Justified]_vars
  BY <1>1
<1>3. QED
  BY <1>2, Invariance, PTL DEF Spec, DuplicatesFollowARow

(***************************************************************************)
(* Velocity: the rows of an account in the window, with the requests that  *)
(* have passed the rule and may still add one, are the limit's rest, a row *)
(* for each worker and one for each query that failed.                     *)
(***************************************************************************)

Young(t) == {x \in Times : x >= t - VelocityWindow}
KeysOf(a) == {k \in Keys : k[1] = a}

(* With rows r at time t: the young rows of k, and those of account a.     *)
RowsOf(r, t, k) == Total(r[k], Young(t))
Counted(r, t, a) == Total([k \in Keys |-> RowsOf(r, t, k)], KeysOf(a))

(* The workers that have passed the rules with a request of account a.     *)
Past(a) == {w \in Workers : pc[w] \in {"passed", "written"} /\ key[w] \in KeysOf(a)}

ExcessInv ==
  \A a \in Accounts :
    Counted(rows, time, a) + Cardinality(Past(a))
      <= VelocityLimit - 1 + Cardinality(Workers) + failures

Stored == [Keys -> [Times -> Nat]]

LEMMA CountedIs ==
  ASSUME NEW a PROVE CheckedOf(a, VelocityWindow) = Counted(rows, time, a)
<1>1. \A k : Younger(rows[k], VelocityWindow) = RowsOf(rows, time, k)
  BY DEF Younger, RowsOf, Young, SumFunctionOnSet, FoldFunctionOnSet, MapThenFoldSet, Total, Adds,
         First
<1> DEFINE f == [k \in Keys |-> Younger(rows[k], VelocityWindow)]
           g == [k \in Keys |-> RowsOf(rows, time, k)]
<1>2. f = g
  BY <1>1
<1>3. CheckedOf(a, VelocityWindow) = SumFunctionOnSet(f, KeysOf(a))
  BY DEF CheckedOf, KeysOf
<1> HIDE DEF f, g
<1>4. SumFunctionOnSet(f, KeysOf(a)) = Total(f, KeysOf(a))
  BY DEF SumFunctionOnSet, FoldFunctionOnSet, MapThenFoldSet, Total, Adds, First
<1>5. QED
  BY <1>2, <1>3, <1>4 DEF Counted, g

LEMMA FiniteHere ==
  /\ IsFiniteSet(Workers) /\ \A t : IsFiniteSet(Young(t))
  /\ \A a \in Accounts : IsFiniteSet(KeysOf(a))
  /\ VelocityLimit \in Nat /\ VelocityWindow \in Nat /\ MaxTime \in Nat
<1> USE FalconAssumption DEF FalconAssumption
<1>1. IsFiniteSet(Times)
  BY FS_Interval DEF Times
<1>2. ASSUME NEW t PROVE IsFiniteSet(Young(t))
  <2>1. Young(t) \subseteq Times
    BY DEF Young
  <2>2. QED
    BY <1>1, <2>1, FS_Subset
<1>3. ASSUME NEW a \in Accounts PROVE IsFiniteSet(KeysOf(a))
  <2>1. IsFiniteSet({a}) /\ IsFiniteSet(Tables)
    BY FS_Singleton
  <2>2. IsFiniteSet({a} \X Tables)
    BY <2>1, FS_Product
  <2>3. KeysOf(a) \subseteq {a} \X Tables
    BY DEF KeysOf, Keys
  <2>4. QED
    BY <2>2, <2>3, FS_Subset
<1>4. QED
  BY <1>2, <1>3

LEMMA RowsNat ==
  ASSUME NEW r \in Stored, NEW t, NEW k \in Keys
  PROVE  RowsOf(r, t, k) \in Nat
<1>1. \A x \in Young(t) : r[k][x] \in Nat
  BY DEF Stored, Young
<1>2. QED
  BY <1>1, FiniteHere, TotalNat DEF RowsOf

(* The rule counts at least the rows of checked requests.                  *)
LEMMA RuleCountsThem ==
  ASSUME IInv, NEW a \in Accounts
  PROVE  Counted(rows, time, a) <= RecentOf(a, VelocityWindow)
         /\ RecentOf(a, VelocityWindow) \in Int
<1> DEFINE f == [k \in Keys |-> RowsOf(rows, time, k)]
           g == [k \in Keys |-> Recent(k, VelocityWindow)]
<1>1. rows \in Stored /\ refunds \in Stored
  BY DEF IInv, TypeOK, Stored
<1>2. \A k : Younger(rows[k], VelocityWindow) = RowsOf(rows, time, k)
            /\ Younger(refunds[k], VelocityWindow) = RowsOf(refunds, time, k)
  BY DEF Younger, RowsOf, Young, SumFunctionOnSet, FoldFunctionOnSet, MapThenFoldSet, Total, Adds,
         First
<1>3. \A k \in KeysOf(a) : f[k] \in Int /\ g[k] \in Int /\ f[k] <= g[k]
  <2> SUFFICES ASSUME NEW k \in KeysOf(a) PROVE f[k] \in Int /\ g[k] \in Int /\ f[k] <= g[k]
    OBVIOUS
  <2>1. k \in Keys /\ RowsOf(rows, time, k) \in Nat /\ RowsOf(refunds, time, k) \in Nat
    BY <1>1, RowsNat DEF KeysOf
  <2>2. g[k] = RowsOf(rows, time, k) + RowsOf(refunds, time, k) /\ f[k] = RowsOf(rows, time, k)
    BY <1>2, <2>1 DEF Recent
  <2>3. QED
    BY <2>1, <2>2
<1>4. RecentOf(a, VelocityWindow) = SumFunctionOnSet(g, KeysOf(a))
  BY DEF RecentOf, KeysOf
<1> HIDE DEF f, g
<1>5. SumFunctionOnSet(g, KeysOf(a)) = Total(g, KeysOf(a))
  BY DEF SumFunctionOnSet, FoldFunctionOnSet, MapThenFoldSet, Total, Adds, First
<1>6. Total(f, KeysOf(a)) <= Total(g, KeysOf(a)) /\ Total(g, KeysOf(a)) \in Int
  BY <1>3, FiniteHere, TotalLess, TotalInt
<1>7. QED
  BY <1>4, <1>5, <1>6 DEF Counted, f

LEMMA CountedNat ==
  ASSUME NEW r \in Stored, NEW t, NEW a \in Accounts
  PROVE  Counted(r, t, a) \in Nat
<1> DEFINE f == [k \in Keys |-> RowsOf(r, t, k)]
<1>1. \A k \in KeysOf(a) : f[k] \in Nat
  BY RowsNat DEF KeysOf
<1> HIDE DEF f
<1>2. Total(f, KeysOf(a)) \in Nat
  BY <1>1, FiniteHere, TotalNat
<1>3. QED
  BY <1>2 DEF Counted, f

(* Nothing but a tick makes rows old, and it makes none young.             *)
LEMMA CountedLater ==
  ASSUME NEW r \in Stored, NEW t \in Nat, NEW a \in Accounts
  PROVE  Counted(r, t + 1, a) <= Counted(r, t, a)
<1> DEFINE f == [k \in Keys |-> RowsOf(r, t + 1, k)]
           g == [k \in Keys |-> RowsOf(r, t, k)]
<1>1. ASSUME NEW k \in Keys PROVE RowsOf(r, t + 1, k) <= RowsOf(r, t, k)
  <2>1. \A x \in Young(t) : r[k][x] \in Nat
    BY DEF Stored, Young
  <2>2. Young(t + 1) \subseteq Young(t)
    BY FiniteHere DEF Young, Times
  <2>3. QED
    BY <2>1, <2>2, FiniteHere, TotalMore DEF RowsOf
<1>2. \A k \in KeysOf(a) : f[k] \in Int /\ g[k] \in Int /\ f[k] <= g[k]
  BY <1>1, RowsNat DEF KeysOf
<1> HIDE DEF f, g
<1>3. Total(f, KeysOf(a)) <= Total(g, KeysOf(a))
  BY <1>2, FiniteHere, TotalLess
<1>4. QED
  BY <1>3 DEF Counted, f, g

(* A row of k that was created at u becomes visible.                       *)
Added(r, k, u) == [r EXCEPT ![k][u] = @ + 1]

LEMMA CountedAdded ==
  ASSUME NEW r \in Stored, NEW t, NEW k \in Keys, NEW u \in Times, NEW a \in Accounts
  PROVE  Counted(Added(r, k, u), t, a)
           <= IF k \in KeysOf(a) THEN Counted(r, t, a) + 1 ELSE Counted(r, t, a)
<1> DEFINE s == Added(r, k, u)
           f == [x \in Keys |-> RowsOf(r, t, x)]
           g == [x \in Keys |-> RowsOf(s, t, x)]
           d == RowsOf(s, t, k) - RowsOf(r, t, k)
<1>1. /\ s \in Stored /\ s[k][u] = r[k][u] + 1 /\ \A x \in Times \ {u} : s[k][x] = r[k][x]
      /\ \A x \in Keys \ {k} : s[x] = r[x]
  BY DEF Added, Stored
<1>2. RowsOf(r, t, k) \in Nat /\ RowsOf(s, t, k) \in Nat
  BY <1>1, RowsNat
<1>3. d \in Int /\ d <= 1
  <2>1. \A x \in Young(t) : r[k][x] \in Int
    BY DEF Stored, Young
  <2>2. /\ \A x \in Young(t) \ {u} : s[k][x] = r[k][x]
        /\ u \in Young(t) => s[k][u] = r[k][u] + 1
    BY <1>1 DEF Young
  <2> DEFINE p == r[k]
             q == s[k]
             Y == Young(t)
  <2>3. IsFiniteSet(Y) /\ \A x \in Y : p[x] \in Int
    BY <2>1, FiniteHere
  <2>4. (\A x \in Y \ {u} : q[x] = p[x]) /\ (u \in Y => q[u] = p[u] + 1)
    BY <2>2
  <2> HIDE DEF p, q, Y, s
  <2>5. Total(q, Y) = IF u \in Y THEN Total(p, Y) + 1 ELSE Total(p, Y)
    <3>1. 1 \in Int
      OBVIOUS
    <3>2. QED
      BY <2>3, <2>4, <3>1, TotalChange
  <2>6. RowsOf(r, t, k) = Total(p, Y) /\ RowsOf(s, t, k) = Total(q, Y)
    BY DEF RowsOf, p, q, Y
  <2>7. QED
    BY <1>2, <2>5, <2>6
<1>4. \A x \in KeysOf(a) : f[x] \in Int
  BY RowsNat DEF KeysOf
<1>5. (\A x \in KeysOf(a) \ {k} : g[x] = f[x]) /\ g[k] = f[k] + d
  BY <1>1, <1>2 DEF KeysOf, RowsOf
<1> HIDE DEF f, g, d
<1>6. Total(g, KeysOf(a)) = IF k \in KeysOf(a) THEN Total(f, KeysOf(a)) + d ELSE Total(f, KeysOf(a))
  BY <1>3, <1>4, <1>5, FiniteHere, TotalChange
<1>7. Counted(r, t, a) = Total(f, KeysOf(a)) /\ Counted(s, t, a) = Total(g, KeysOf(a))
  BY DEF Counted, f, g
<1>8. Counted(r, t, a) \in Nat
  BY CountedNat
<1>9. QED
  BY <1>3, <1>6, <1>7, <1>8

LEMMA PastFinite ==
  ASSUME NEW a
  PROVE  IsFiniteSet(Past(a)) /\ Cardinality(Past(a)) \in Nat
<1>1. Past(a) \subseteq Workers
  BY DEF Past
<1>2. QED
  BY <1>1, FiniteHere, FS_Subset, FS_CardinalityType

LEMMA ExcessInit == Init => ExcessInv
<1> SUFFICES ASSUME Init, NEW a \in Accounts
             PROVE  Counted(rows, time, a) + Cardinality(Past(a))
                      <= VelocityLimit - 1 + Cardinality(Workers) + failures
  BY DEF ExcessInv
<1>1. Past(a) = {} /\ failures = 0 /\ time = 0
  BY DEF Init, Past
<1>2. Cardinality(Past(a)) = 0
  BY <1>1, FS_EmptySet
<1> DEFINE f == [k \in Keys |-> RowsOf(rows, time, k)]
<1>3. \A k \in KeysOf(a) : f[k] = 0
  <2> SUFFICES ASSUME NEW k \in KeysOf(a) PROVE RowsOf(rows, time, k) = 0
    BY DEF KeysOf
  <2>1. \A x \in Young(time) : rows[k][x] = 0
    BY DEF Init, Young, KeysOf
  <2>2. QED
    BY <2>1, FiniteHere, TotalZero DEF RowsOf
<1> HIDE DEF f
<1>4. Total(f, KeysOf(a)) = 0
  BY <1>3, FiniteHere, TotalZero
<1>5. Counted(rows, time, a) = 0
  BY <1>4 DEF Counted, f
<1>6. Cardinality(Workers) \in Nat
  BY FiniteHere, FS_CardinalityType
<1>7. VelocityLimit > 0
  BY FalconAssumption DEF FalconAssumption
<1>8. QED
  BY <1>1, <1>2, <1>5, <1>6, <1>7, FiniteHere

(* A step changes the rows of one account a at most by more, those that    *)
(* have passed by past and the failures by failed.                         *)
Balance(a, more, past, failed) ==
  /\ Counted(rows', time', a) <= Counted(rows, time, a) + more
  /\ Cardinality(Past(a)') <= Cardinality(Past(a)) + past
  /\ failures' = failures + failed

LEMMA Balanced ==
  ASSUME IInv, ExcessInv, TypeOK', NEW a \in Accounts,
         NEW m \in Int, NEW p \in Int, NEW d \in Nat, m + p <= d, Balance(a, m, p, d)
  PROVE  Counted(rows', time', a) + Cardinality(Past(a)')
           <= VelocityLimit - 1 + Cardinality(Workers) + failures'
<1>1. Counted(rows, time, a) \in Nat /\ Counted(rows', time', a) \in Nat
  BY CountedNat DEF IInv, TypeOK, Stored
<1>2. Cardinality(Past(a)) \in Nat /\ Cardinality(Past(a)') \in Nat
  <2>1. Past(a)' \subseteq Workers
    BY DEF Past
  <2>2. QED
    BY <2>1, PastFinite, FiniteHere, FS_Subset, FS_CardinalityType
<1>3. Cardinality(Workers) \in Nat /\ failures \in Nat
  BY FiniteHere, FS_CardinalityType DEF IInv, TypeOK
<1>4. QED
  BY <1>1, <1>2, <1>3, FiniteHere DEF Balance, ExcessInv

(* Who has passed does not grow.                                           *)
LEMMA PastLess ==
  ASSUME NEW a, Past(a)' \subseteq Past(a)
  PROVE  Cardinality(Past(a)') <= Cardinality(Past(a)) + 0
<1>1. Cardinality(Past(a)') <= Cardinality(Past(a)) /\ Cardinality(Past(a)') \in Nat
  BY PastFinite, FS_Subset, FS_CardinalityType
<1>2. QED
  BY <1>1, PastFinite

LEMMA CountedStands ==
  ASSUME IInv, UNCHANGED <<rows, time>>, NEW a \in Accounts
  PROVE  /\ Counted(rows', time', a) <= Counted(rows, time, a) + 0
         /\ Counted(rows, time, a) \in Nat
<1>1. Counted(rows, time, a) \in Nat
  BY CountedNat DEF IInv, TypeOK, Stored
<1>2. QED
  BY <1>1

LEMMA QuietStep ==
  ASSUME IInv, UNCHANGED <<rows, time, failures>>, NEW a \in Accounts, Past(a)' \subseteq Past(a)
  PROVE  Balance(a, 0, 0, 0)
<1>1. failures \in Nat
  BY DEF IInv, TypeOK
<1>2. QED
  BY <1>1, PastLess, CountedStands DEF Balance

(* A step that sends its worker elsewhere, but not past the rules.         *)
LEMMA StaysBefore ==
  ASSUME IInv, NEW w \in Workers, NEW a, NEW l, l \notin {"passed", "written"},
         pc' = [pc EXCEPT ![w] = l],
         \A v \in Workers \ {w} : key'[v] = key[v]
  PROVE  Past(a)' \subseteq Past(a)
  BY DEF Past, IInv, TypeOK

LEMMA ExcessStep == IInv /\ ExcessInv /\ [Next]_vars => ExcessInv'
<1> SUFFICES ASSUME IInv, ExcessInv, [Next]_vars, NEW a \in Accounts
             PROVE  Counted(rows', time', a) + Cardinality(Past(a)')
                      <= VelocityLimit - 1 + Cardinality(Workers) + failures'
  BY DEF ExcessInv
<1> DEFINE Goal == Counted(rows', time', a) + Cardinality(Past(a)')
                     <= VelocityLimit - 1 + Cardinality(Workers) + failures'
<1>0. TypeOK'
  BY StepOK DEF IInv
<1>1. Balance(a, 0, 0, 0) => Goal
  BY <1>0, Balanced
<1> HIDE DEF Goal
<1>2. ASSUME NEW w \in Workers,
             Hit(w) \/ Stale(w) \/ Miss(w) \/ Query(w) \/ Fill(w) \/ Velocity(w) \/ Refuse(w)
             \/ Arrive(w) \/ RefundArrives(w) \/ CommitRefund(w)
      PROVE  Goal
  <2>1. UNCHANGED <<rows, time, failures>>
    BY <1>2 DEF Hit, Stale, Miss, Query, Fill, Velocity, Refuse, Arrive, RefundArrives,
             CommitRefund, cache
  <2>2. /\ \E l \in {"idle", "lookup", "query", "fill", "velocity", "cross", "refund"} :
             pc' = [pc EXCEPT ![w] = l]
        /\ \A v \in Workers \ {w} : key'[v] = key[v]
    BY <1>2 DEF Hit, Stale, Miss, Query, Fill, Velocity, Refuse, Arrive, RefundArrives,
                CommitRefund, End, GoOn, Goto,
                IInv, TypeOK
  <2>3. Past(a)' \subseteq Past(a)
    BY <2>2, StaysBefore
  <2>4. QED
    BY <1>1, <2>1, <2>3, QuietStep
<1>3. ASSUME NEW w \in Workers, CrossVelocity(w) PROVE Goal
  <2>1. UNCHANGED <<rows, time, failures>>
    BY <1>3 DEF CrossVelocity
  <2>2. CASE End(w)
    <3>1. Past(a)' \subseteq Past(a)
      BY <2>2 DEF End, Goto, Past, IInv, TypeOK
    <3>2. QED
      BY <1>1, <2>1, <3>1, QuietStep
  <2>3. CASE GoOn(w, "passed") /\ key[w] \in KeysOf(a)
    <3>1. ~(RecentOf(key[w][1], VelocityWindow) >= VelocityLimit)
      <4>1. ~End(w)
        BY <1>3, <2>3 DEF CrossVelocity, End, GoOn, Goto, IInv, TypeOK
      <4>2. QED
        BY <1>3, <4>1 DEF CrossVelocity
    <3>2. Counted(rows, time, a) < VelocityLimit
      <4>1. key[w][1] = a
        BY <2>3 DEF KeysOf
      <4>2. Counted(rows, time, a) \in Nat
        BY <2>1, CountedStands
      <4>3. QED
        BY <3>1, <4>1, <4>2, RuleCountsThem, FiniteHere
    <3>3. Cardinality(Past(a)') <= Cardinality(Workers) /\ Cardinality(Past(a)') \in Nat
      <4>1. Past(a)' \subseteq Workers
        BY DEF Past
      <4>2. QED
        BY <4>1, FiniteHere, FS_Subset, FS_CardinalityType
    <3>4. /\ Cardinality(Workers) \in Nat /\ failures' \in Nat
          /\ Counted(rows', time', a) = Counted(rows, time, a)
          /\ Counted(rows, time, a) \in Nat
      BY <1>0, <2>1, FiniteHere, FS_CardinalityType, CountedStands DEF TypeOK
    <3>5. QED
      BY <3>2, <3>3, <3>4, FiniteHere DEF Goal
  <2>4. CASE GoOn(w, "passed") /\ key[w] \notin KeysOf(a)
    <3>1. Past(a)' \subseteq Past(a)
      BY <2>4 DEF GoOn, Goto, Past, IInv, TypeOK
    <3>2. QED
      BY <1>1, <2>1, <3>1, QuietStep
  <2>5. QED
    BY <1>3, <2>2, <2>3, <2>4 DEF CrossVelocity
<1>4. ASSUME NEW w \in Workers, QueryFails(w) PROVE Goal
  <2>1. /\ failures' = failures + 1 /\ UNCHANGED <<rows, time, key>>
        /\ \A v \in Workers \ {w} : pc'[v] = pc[v]
    BY <1>4 DEF QueryFails, GoOn, Goto, IInv, TypeOK
  <2>2. Past(a)' \subseteq Past(a) \cup {w} /\ Past(a)' \subseteq Workers
    BY <2>1 DEF Past
  <2>3. Cardinality(Past(a)') <= Cardinality(Past(a)) + 1
    <3>1. /\ IsFiniteSet(Past(a) \cup {w})
          /\ Cardinality(Past(a) \cup {w}) <= Cardinality(Past(a)) + 1
      <4>1. CASE w \in Past(a)
        <5>1. Past(a) \cup {w} = Past(a)
          BY <4>1
        <5>2. IsFiniteSet(Past(a)) /\ Cardinality(Past(a)) <= Cardinality(Past(a)) + 1
          BY PastFinite
        <5>3. QED
          BY <5>1, <5>2
      <4>2. CASE w \notin Past(a)
        BY <4>2, CardMore, PastFinite
      <4>3. QED
        BY <4>1, <4>2
    <3>2. /\ Cardinality(Past(a)') <= Cardinality(Past(a) \cup {w})
          /\ Cardinality(Past(a)') \in Nat /\ Cardinality(Past(a) \cup {w}) \in Nat
      BY <2>2, <3>1, FS_Subset, FS_CardinalityType
    <3>3. QED
      BY <3>1, <3>2, PastFinite
  <2>4. Balance(a, 0, 1, 1)
    BY <2>1, <2>3, CountedStands DEF Balance
  <2>5. QED
    BY <1>0, <2>4, Balanced DEF Goal
<1>5. ASSUME NEW w \in Workers, Write(w) PROVE Goal
  <2>1. UNCHANGED <<rows, time, failures>>
    BY <1>5 DEF Write
  <2>2. Past(a)' \subseteq Past(a)
    BY <1>5 DEF Write, Goto, Past, IInv, TypeOK
  <2>3. QED
    BY <1>1, <2>1, <2>2, QuietStep
<1>6. ASSUME NEW w \in Workers, Commit(w) PROVE Goal
  <2>1. /\ pc[w] = "written" /\ rows' = Added(rows, key[w], now[w])
        /\ pc' = [pc EXCEPT ![w] = "idle"] /\ \A v \in Workers \ {w} : key'[v] = key[v]
        /\ UNCHANGED <<time, failures>>
    BY <1>6 DEF Commit, End, Goto, Added, IInv, TypeOK
  <2>2. key[w] \in Keys /\ now[w] \in Times /\ rows \in Stored /\ failures \in Nat
    BY <2>1 DEF IInv, TypeOK, Working, Stored
  <2>3. /\ Counted(rows', time', a)
             <= IF key[w] \in KeysOf(a) THEN Counted(rows, time, a) + 1 ELSE Counted(rows, time, a)
        /\ Counted(rows, time, a) \in Nat
    BY <2>1, <2>2, CountedAdded, CountedNat
  <2>4. CASE key[w] \in KeysOf(a)
    <3>1. w \in Past(a) /\ Past(a)' \subseteq Past(a) \ {w}
      BY <2>1, <2>4 DEF Past, IInv, TypeOK
    <3>2. Cardinality(Past(a)') <= Cardinality(Past(a)) - 1
      <4>1. /\ IsFiniteSet(Past(a) \ {w})
            /\ Cardinality(Past(a) \ {w}) = Cardinality(Past(a)) - 1
        BY <3>1, CardLess, PastFinite
      <4>2. Cardinality(Past(a)') <= Cardinality(Past(a) \ {w})
        BY <3>1, <4>1, FS_Subset
      <4>3. QED
        BY <4>1, <4>2
    <3>3. Cardinality(Past(a)') <= Cardinality(Past(a)) + (-1)
      BY <3>2, PastFinite
    <3>4. Balance(a, 1, -1, 0)
      BY <2>1, <2>2, <2>3, <2>4, <3>3 DEF Balance
    <3>5. QED
      BY <1>0, <3>4, Balanced DEF Goal
  <2>5. CASE key[w] \notin KeysOf(a)
    <3>1. Past(a)' \subseteq Past(a)
      BY <2>1, StaysBefore
    <3>2. Balance(a, 0, 0, 0)
      BY <2>1, <2>2, <2>3, <2>5, <3>1, PastLess DEF Balance
    <3>3. QED
      BY <1>1, <3>2
  <2>6. QED
    BY <2>4, <2>5
<1>7. CASE Tick
  <2>1. time' = time + 1 /\ UNCHANGED <<rows, pc, key, failures>>
    BY <1>7 DEF Tick
  <2>2. rows \in Stored /\ time \in Nat /\ failures \in Nat
    BY DEF IInv, TypeOK, Stored, Times
  <2>3. /\ Counted(rows', time', a) <= Counted(rows, time, a)
        /\ Counted(rows, time, a) \in Nat
    BY <2>1, <2>2, CountedLater, CountedNat
  <2>4. Past(a)' \subseteq Past(a)
    BY <2>1 DEF Past
  <2>5. Balance(a, 0, 0, 0)
    BY <2>1, <2>2, <2>3, <2>4, PastLess DEF Balance
  <2>6. QED
    BY <1>1, <2>5 DEF Goal
<1>8. CASE UNCHANGED vars
  <2>1. UNCHANGED <<rows, time, failures>> /\ Past(a)' \subseteq Past(a)
    BY <1>8 DEF vars, Past
  <2>2. QED
    BY <1>1, <2>1, QuietStep DEF Goal
<1>9. QED
  BY <1>2, <1>3, <1>4, <1>5, <1>6, <1>7, <1>8 DEF Next, Check, Finished, Goal

(* The excess is bounded, for any number of tables, workers and requests:  *)
(* whoever passes the rule finds less than the limit, and no more can have *)
(* passed with it than there are threads.                                  *)
THEOREM ExcessIsBounded == Spec => []VelocityExcessBounded
<1>1. ExcessInv /\ IInv => VelocityExcessBounded
  <2> SUFFICES ASSUME ExcessInv, IInv, NEW a \in Accounts
               PROVE  Counted(rows, time, a)
                        <= VelocityLimit - 1 + Cardinality(Workers) + failures
    BY CountedIs DEF VelocityExcessBounded
  <2>1. Counted(rows, time, a) \in Nat /\ Cardinality(Workers) \in Nat /\ failures \in Nat
    <3>1. rows \in Stored /\ failures \in Nat
      BY DEF IInv, TypeOK, Stored
    <3>2. Counted(rows, time, a) \in Nat
      BY <3>1, CountedNat
    <3>3. Cardinality(Workers) \in Nat
      BY FiniteHere, FS_CardinalityType
    <3>4. QED
      BY <3>1, <3>2, <3>3
  <2>2. QED
    BY <2>1, PastFinite, FiniteHere DEF ExcessInv
<1>2. QED
  BY <1>1, ExcessInit, ExcessStep, InitOK, StepOK, PTL DEF Spec

=============================================================================
