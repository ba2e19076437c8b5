------------------------------- MODULE Falcon -------------------------------
(***************************************************************************)
(* The fraud engine (falcon.cpp) as the channels use it: a request is      *)
(* checked before the account is locked, and its row is written long after *)
(* the check, while other requests of the account are being checked.  A    *)
(* POS refund is not checked at all, but its row is one more of those that *)
(* the rules count.                                                        *)
(*                                                                         *)
(* The same-second rule has a cache: lruList_, a list of nodes, and        *)
(* lruMap_, from keys to nodes of the list.  lruMutex_ guards both, but    *)
(* looking a key up, asking the database and filling the cache are three   *)
(* steps with other threads in between.  A node is its address, which can  *)
(* be used again once the node is destroyed.                               *)
(*                                                                         *)
(* A tick of time is a second, the precision of created_at; both clocks    *)
(* the code reads, the engine's and the database's, are this one, and an   *)
(* age in milliseconds is taken for the seconds between.  The rules on the *)
(* request's own data (AI score, amount spike) are outcomes without a      *)
(* cause: no other rule reads what they read.                              *)
(***************************************************************************)
EXTENDS Integers, Sequences, FiniteSets, Functions

LOCAL INSTANCE SequencesExt

CONSTANTS
  Workers,        \* threads that run a channel's task
  Accounts,
  Tables,         \* the channels' tables, one per FalconChannel
  Unchecked,      \* those that get rows without a check: transaction_pos
  Nodes,          \* the addresses of list nodes (a bound)
  NoNode,
  MaxCacheSize,   \* MAX_CACHE_SIZE
  VelocityLimit,  \* FALCON_VELOCITY_LIMIT
  VelocityWindow, \* FALCON_VELOCITY_WINDOW
  SameSecond,     \* the same-second rule's window
  MaxTime,        \* how long the model runs (a bound)
  MaxRequests,    \* how many requests arrive (a bound)
  MaxFailures     \* how many of the rules' queries fail (a bound)

(* There are finitely many threads, and a table for each channel. *)
ASSUME FalconAssumption ==
  /\ IsFiniteSet(Workers) /\ IsFiniteSet(Tables) /\ Unchecked \subseteq Tables
  /\ NoNode \notin Nodes
  /\ MaxCacheSize \in Nat \ {0} /\ VelocityLimit \in Nat \ {0}
  /\ VelocityWindow \in Nat /\ SameSecond \in Nat
  /\ MaxTime \in Nat /\ MaxRequests \in Nat /\ MaxFailures \in Nat

(* cacheKey: an account and a table. *)
Keys == Accounts \X Tables
NoKey == <<>>
Times == 0..MaxTime

VARIABLES
  time,
  rows,        \* rows[k][t]: rows of checked requests in k's table, created at t
  refunds,     \* refunds[k][t]: rows next to them that no check came before
  lruList,     \* the nodes, most recent first
  lruMap,      \* lruMap[k]: the node the map holds for k, or NoNode
  pc, key,     \* where a worker is, and the account and table of its request
  now,         \* the time a worker read last
  requests, failures

cache == <<lruList, lruMap>>
vars == <<time, rows, refunds, cache, pc, key, now, requests, failures>>

(* A node of the list as the code declares it, with its address. *)
CacheNode == [at : Nodes, cacheKey : Keys, timestamp : Times]

(* The addresses in use, and the place and node of one of them. *)
InUse == {lruList[i].at : i \in 1..Len(lruList)}
Place(n) == CHOOSE i \in 1..Len(lruList) : lruList[i].at = n
NodeAt(n) == lruList[Place(n)]

(* Keys the map holds: lruMap_.size() is their number. *)
Cached(map) == {k \in Keys : map[k] # NoNode}

(* A row of k that was created at t, whoever wrote it. *)
HasRow(k, t) == rows[k][t] > 0 \/ refunds[k][t] > 0

(* How many of count are not older than window. *)
Younger(count, window) == SumFunctionOnSet(count, {t \in Times : t >= time - window})

(* The COUNT of the rows of k that are not older than window. *)
Recent(k, window) == Younger(rows[k], window) + Younger(refunds[k], window)

Init ==
  /\ time = 0
  /\ rows = [k \in Keys |-> [t \in Times |-> 0]]
  /\ refunds = rows
  /\ lruList = <<>>
  /\ lruMap = [k \in Keys |-> NoNode]
  /\ pc = [w \in Workers |-> "idle"]
  /\ key = [w \in Workers |-> NoKey]
  /\ now = [w \in Workers |-> 0]
  /\ requests = 0 /\ failures = 0

Goto(w, l) == pc' = [pc EXCEPT ![w] = l]

(* The task ends: what it kept of the request is gone. *)
End(w) ==
  /\ Goto(w, "idle")
  /\ key' = [key EXCEPT ![w] = NoKey]
  /\ now' = [now EXCEPT ![w] = 0]

GoOn(w, l) == Goto(w, l) /\ UNCHANGED <<key, now>>

(* A request that the AI score does not decline, and whose account and     *)
(* card exist, enters sameSecond_, which reads the clock first.            *)
Arrive(w) ==
  /\ pc[w] = "idle" /\ requests < MaxRequests
  /\ requests' = requests + 1
  /\ \E k \in Keys : key' = [key EXCEPT ![w] = k]
  /\ now' = [now EXCEPT ![w] = time]
  /\ Goto(w, "lookup")
  /\ UNCHANGED <<time, rows, refunds, cache, failures>>

(***************************************************************************)
(* Rule 1: another transaction of the account in its table within a second *)
(***************************************************************************)

(* The age is negative if another thread cached a later reading. *)
Fresh(w, n) == now[w] - NodeAt(n).timestamp <= SameSecond

(* splice: node n becomes the first, the others keep their order. *)
Spliced(n) == <<NodeAt(n)>> \o RemoveAt(lruList, Place(n))

(* A slip in Hit: the node is given the time of its use. *)
HitRefreshing(w) ==
  /\ pc[w] = "lookup"
  /\ LET n == lruMap[key[w]] IN
     /\ n # NoNode /\ Fresh(w, n)
     /\ lruList' = [Spliced(n) EXCEPT ![1].timestamp = now[w]]
  /\ End(w)
  /\ UNCHANGED <<time, rows, refunds, lruMap, requests, failures>>

Hit(w) ==
  /\ pc[w] = "lookup"
  /\ LET n == lruMap[key[w]] IN
     /\ n # NoNode /\ Fresh(w, n)
     /\ lruList' = Spliced(n)
  /\ End(w)
  /\ UNCHANGED <<time, rows, refunds, lruMap, requests, failures>>

(* A stale entry leaves the map; its node stays in the list. *)
Stale(w) ==
  /\ pc[w] = "lookup"
  /\ lruMap[key[w]] # NoNode /\ ~Fresh(w, lruMap[key[w]])
  /\ lruMap' = [lruMap EXCEPT ![key[w]] = NoNode]
  /\ GoOn(w, "query")
  /\ UNCHANGED <<time, rows, refunds, lruList, requests, failures>>

Miss(w) ==
  /\ pc[w] = "lookup"
  /\ lruMap[key[w]] = NoNode
  /\ GoOn(w, "query")
  /\ UNCHANGED <<time, rows, refunds, cache, requests, failures>>

(* The database's answer: is there a row as young as that? *)
Query(w) ==
  /\ pc[w] = "query"
  /\ GoOn(w, IF \E t \in Times : t >= time - SameSecond /\ HasRow(key[w], t)
             THEN "fill" ELSE "velocity")
  /\ UNCHANGED <<time, rows, refunds, cache, requests, failures>>

(* A slip in Evicted: the list's last node is destroyed, the map untouched. *)
EvictedFromList(list, map) ==
  IF Cardinality(Cached(map)) > MaxCacheSize
  THEN <<SubSeq(list, 1, Len(list) - 1), map>>
  ELSE <<list, map>>

(* A map too large loses the key of the list's last node, whichever node   *)
(* the map holds for it, and the list that node.                           *)
Evicted(list, map) ==
  IF Cardinality(Cached(map)) > MaxCacheSize
  THEN <<SubSeq(list, 1, Len(list) - 1), [map EXCEPT ![list[Len(list)].cacheKey] = NoNode]>>
  ELSE <<list, map>>

(* A match is cached with the time read at the entry of sameSecond_. *)
Fill(w) ==
  /\ pc[w] = "fill"
  /\ \E n \in Nodes \ InUse :
       LET node == [at |-> n, cacheKey |-> key[w], timestamp |-> now[w]]
           left == Evicted(<<node>> \o lruList, [lruMap EXCEPT ![key[w]] = n])
       IN lruList' = left[1] /\ lruMap' = left[2]
  /\ End(w)
  /\ UNCHANGED <<time, rows, refunds, requests, failures>>

(***************************************************************************)
(* Rules 2 and 3: transactions of the last minute, in the request's table  *)
(* and in all tables                                                       *)
(***************************************************************************)
Velocity(w) ==
  /\ pc[w] = "velocity"
  /\ IF Recent(key[w], VelocityWindow) >= VelocityLimit
     THEN End(w) ELSE GoOn(w, "cross")
  /\ UNCHANGED <<time, rows, refunds, cache, requests, failures>>

(* The rows of account a in all tables that are not older than window. *)
RecentOf(a, window) ==
  SumFunctionOnSet([k \in Keys |-> Recent(k, window)], {k \in Keys : k[1] = a})

(* A slip in CrossVelocity: more than the limit, as its reason says. *)
CrossVelocityAbove(w) ==
  /\ pc[w] = "cross"
  /\ IF RecentOf(key[w][1], VelocityWindow) > VelocityLimit
     THEN End(w) ELSE GoOn(w, "passed")
  /\ UNCHANGED <<time, rows, refunds, cache, requests, failures>>

CrossVelocity(w) ==
  /\ pc[w] = "cross"
  /\ IF RecentOf(key[w][1], VelocityWindow) >= VelocityLimit
     THEN End(w) ELSE GoOn(w, "passed")
  /\ UNCHANGED <<time, rows, refunds, cache, requests, failures>>

(* A query that fails matches nothing: the next rule is asked. *)
QueryFails(w) ==
  /\ pc[w] \in {"query", "velocity", "cross"} /\ failures < MaxFailures
  /\ failures' = failures + 1
  /\ GoOn(w, [query |-> "velocity", velocity |-> "cross", cross |-> "passed"][pc[w]])
  /\ UNCHANGED <<time, rows, refunds, cache, requests>>

(***************************************************************************)
(* After the check                                                         *)
(***************************************************************************)

(* A refund goes straight to its channel's own guards. *)
RefundArrives(w) ==
  /\ pc[w] = "idle" /\ requests < MaxRequests
  /\ requests' = requests + 1
  /\ \E k \in Keys : k[2] \in Unchecked /\ key' = [key EXCEPT ![w] = k]
  /\ Goto(w, "refund")
  /\ UNCHANGED <<time, rows, refunds, cache, now, failures>>

(* The amount is a spike, or the channel refuses or fails. *)
Refuse(w) ==
  /\ pc[w] \in {"passed", "written", "refund", "returned"}
  /\ End(w)
  /\ UNCHANGED <<time, rows, refunds, cache, requests, failures>>

(* The channel inserts its row, which gets its created_at ... *)
Write(w) ==
  /\ pc[w] \in {"passed", "refund"}
  /\ now' = [now EXCEPT ![w] = time]
  /\ Goto(w, IF pc[w] = "passed" THEN "written" ELSE "returned")
  /\ UNCHANGED <<time, rows, refunds, cache, key, requests, failures>>

(* ... and commits, which shows the row to others. *)
Commit(w) ==
  /\ pc[w] = "written"
  /\ rows' = [rows EXCEPT ![key[w]][now[w]] = @ + 1]
  /\ End(w)
  /\ UNCHANGED <<time, refunds, cache, requests, failures>>

CommitRefund(w) ==
  /\ pc[w] = "returned"
  /\ refunds' = [refunds EXCEPT ![key[w]][now[w]] = @ + 1]
  /\ End(w)
  /\ UNCHANGED <<time, rows, cache, requests, failures>>

Tick ==
  /\ time < MaxTime
  /\ time' = time + 1
  /\ UNCHANGED <<rows, refunds, cache, pc, key, now, requests, failures>>

(* Nothing more comes: the bounds are reached.  The addresses can run out  *)
(* because nodes of stale keys stay in the list (falcon.cpp:317).          *)
Finished ==
  /\ time = MaxTime /\ requests = MaxRequests
  /\ \A w \in Workers : pc[w] = "idle" \/ (pc[w] = "fill" /\ Nodes = InUse)
  /\ UNCHANGED vars

Check(w) ==
  \/ Hit(w) \/ Stale(w) \/ Miss(w) \/ Query(w) \/ Fill(w)
  \/ Velocity(w) \/ CrossVelocity(w)

Next ==
  \/ \E w \in Workers :
       \/ Arrive(w) \/ Check(w) \/ QueryFails(w)
       \/ RefundArrives(w) \/ Refuse(w)
       \/ Write(w) \/ Commit(w) \/ CommitRefund(w)
  \/ Tick
  \/ Finished

Spec == Init /\ [][Next]_vars

(***************************************************************************)
(* Properties                                                              *)
(***************************************************************************)

TypeOK ==
  /\ time \in Times
  /\ rows \in [Keys -> [Times -> Nat]]
  /\ refunds \in [Keys -> [Times -> Nat]]
  /\ lruList \in Seq(CacheNode)
  /\ lruMap \in [Keys -> Nodes \cup {NoNode}]
  /\ pc \in [Workers -> {"idle", "lookup", "query", "fill", "velocity", "cross",
                         "passed", "written", "refund", "returned"}]
  /\ key \in [Workers -> Keys \cup {NoKey}]
  /\ now \in [Workers -> Times]
  /\ requests \in 0..MaxRequests /\ failures \in 0..MaxFailures

(* The iterators in lruMap_ are never left dangling: each leads to a node  *)
(* of the list that holds its own key, although stale nodes stay behind in *)
(* the list, a key can have several nodes, and eviction erases the key of  *)
(* the last node whatever the map holds for it (falcon.cpp:331-339).       *)
MapPointsIntoList ==
  /\ \A k \in Keys :
       lruMap[k] # NoNode => \E i \in 1..Len(lruList) :
                               lruList[i].at = lruMap[k] /\ lruList[i].cacheKey = k
  /\ \A i, j \in 1..Len(lruList) : lruList[i].at = lruList[j].at => i = j

(* A request declined as a duplicate really follows another one: its       *)
(* account has a row in its table at most two windows old when the request *)
(* came, also when the cache declines it: the entry may have been made     *)
(* long after its timestamp was read, hits do not prolong it.              *)
DuplicatesFollowARow ==
  [][\A w \in Workers :
       pc[w] \in {"lookup", "fill"} /\ pc'[w] = "idle" =>
         \E t \in Times : HasRow(key[w], t) /\ t >= now[w] - 2 * SameSecond]_vars

(* The rows of checked requests of account a that are not older than window. *)
CheckedOf(a, window) ==
  SumFunctionOnSet([k \in Keys |-> Younger(rows[k], window)], {k \in Keys : k[1] = a})

(* The velocity rule counts rows that are committed, and is asked before   *)
(* the account is locked: requests that are checked together pass          *)
(* together.  But the excess is bounded: of the requests the rule is asked *)
(* about, each worker brings one row over, and each query that failed      *)
(* another.  The rows of POS refunds come on top, without any bound: no    *)
(* rule is asked before them (pos.cpp:361-445).                            *)
VelocityExcessBounded ==
  \A a \in Accounts :
    CheckedOf(a, VelocityWindow) <= VelocityLimit - 1 + Cardinality(Workers) + failures
=============================================================================
