--------------------------- MODULE DatabaseProofs ---------------------------
(***************************************************************************)
(* Database.cpp and DbConfig.cpp.  What holds of the pool for any threads, *)
(* size and addresses, and any number of uses and faults; and of every     *)
(* start of the engine (Startup), for any pool size, number of attempts    *)
(* and number of faults.                                                   *)
(*                                                                         *)
(* ExclusiveUse speaks of the threads that may use a session.  To make it  *)
(* inductive a thread must be counted in as soon as it has made a session  *)
(* in healing the old one, before the slot knows of it (Holders); and no   *)
(* session that was lost to a failing USE may be held or queued.           *)
(***************************************************************************)
EXTENDS ConnectionPool, Startup, Sums, TLAPS

Making(t) == pc[t] \in {"selecting", "relinking"}
Holders == {t \in Threads : pc[t] \in {"pinging", "using"} \/ Making(t)}

(* The session a holder holds. *)
Session(t) == IF Making(t) THEN healed[t] ELSE sess[t]

Exclusive ==
  /\ \A t, u \in Holders : Session(t) = Session(u) => t = u
  /\ \A t \in Holders : Session(t) \in live \ (leaked \cup ToSet(free))
  /\ IsInjective(free)
  /\ ToSet(free) \subseteq live \ leaked

(* Where a thread has no session, it has none left over. *)
Cleared ==
  \A t \in Threads :
    pc[t] \in {"healing", "selecting", "relinking", "unlinking"} => sess[t] \in Addrs

IInv == TypeOK /\ Exclusive /\ Cleared

(***************************************************************************)
(* The free queue                                                          *)
(***************************************************************************)

(* Taking the head of a queue without duplicates. *)
LEMMA QueueTail ==
  ASSUME NEW S, NEW q \in Seq(S), q # <<>>, IsInjective(q)
  PROVE  /\ Head(q) \in ToSet(q) /\ Head(q) \in S
         /\ Tail(q) \in Seq(S) /\ IsInjective(Tail(q))
         /\ ToSet(Tail(q)) = ToSet(q) \ {Head(q)}
<1>1. Len(q) \in Nat /\ Len(q) > 0 /\ Head(q) = q[1] /\ DOMAIN q = 1..Len(q)
  OBVIOUS
<1>2. Tail(q) \in Seq(S) /\ DOMAIN Tail(q) = 1..(Len(q) - 1)
      /\ \A i \in 1..(Len(q) - 1) : Tail(q)[i] = q[i + 1]
  BY <1>1
<1>3. IsInjective(Tail(q))
  BY <1>1, <1>2 DEF IsInjective
<1>4. ToSet(Tail(q)) \subseteq ToSet(q) \ {Head(q)}
  BY <1>1, <1>2 DEF ToSet, IsInjective
<1>5. ASSUME NEW i \in 1..Len(q), q[i] # q[1] PROVE q[i] \in ToSet(Tail(q))
  <2>1. i - 1 \in 1..(Len(q) - 1) /\ Tail(q)[i - 1] = q[i]
    BY <1>1, <1>2, <1>5
  <2>2. QED
    BY <1>2, <2>1 DEF ToSet
<1>6. ToSet(q) \ {Head(q)} \subseteq ToSet(Tail(q))
  BY <1>1, <1>5 DEF ToSet
<1>7. Head(q) \in ToSet(q) /\ Head(q) \in S
  BY <1>1 DEF ToSet
<1>8. QED
  BY <1>2, <1>3, <1>4, <1>6, <1>7

(* Putting back at its end what is not in it. *)
LEMMA QueueAppend ==
  ASSUME NEW S, NEW q \in Seq(S), NEW x \in S, IsInjective(q), x \notin ToSet(q)
  PROVE  /\ Append(q, x) \in Seq(S) /\ IsInjective(Append(q, x))
         /\ ToSet(Append(q, x)) = ToSet(q) \cup {x}
<1>1. /\ Append(q, x) \in Seq(S) /\ Len(q) \in Nat
      /\ DOMAIN Append(q, x) = 1..(Len(q) + 1) /\ DOMAIN q = 1..Len(q)
      /\ \A i \in 1..Len(q) : Append(q, x)[i] = q[i]
      /\ Append(q, x)[Len(q) + 1] = x
  OBVIOUS
<1>2. IsInjective(Append(q, x))
  BY <1>1 DEF IsInjective, ToSet
<1>3. ToSet(Append(q, x)) = ToSet(q) \cup {x}
  BY <1>1 DEF ToSet
<1>4. QED
  BY <1>1, <1>2, <1>3

(***************************************************************************)
(* The invariant                                                           *)
(***************************************************************************)

LEMMA InitOK == Init => IInv
<1> SUFFICES ASSUME Init PROVE IInv
  OBVIOUS
<1>0. PICK k \in 1..PoolSize : \E s \in [1..k -> Addrs] :
        /\ IsInjective(s) /\ slots = s /\ free = s
        /\ leaked \in SUBSET (Addrs \ ToSet(s)) /\ live = ToSet(s) \cup leaked
  BY DEF Init
<1>1. PICK s \in [1..k -> Addrs] :
        /\ IsInjective(s) /\ slots = s /\ free = s
        /\ leaked \in SUBSET (Addrs \ ToSet(s)) /\ live = ToSet(s) \cup leaked
  BY <1>0
<1>2. leaked \subseteq Addrs \ ToSet(s)
  BY <1>1
<1>3. s \in Seq(Addrs) /\ s \in Seq(Addrs \cup {NoSession}) /\ ToSet(s) \subseteq Addrs
  BY <1>1, PoolAssumption DEF PoolAssumption, ToSet
<1>4. TypeOK
  <2>1. slots \in Seq(Addrs \cup {NoSession}) /\ free \in Seq(Addrs) /\ live \subseteq Addrs
    BY <1>1, <1>2, <1>3
  <2>2. QED
    BY <1>2, <2>1, PoolAssumption DEF Init, TypeOK, PoolAssumption
<1>5. Exclusive /\ Cleared
  BY <1>1, <1>2 DEF Init, Exclusive, Cleared, Holders, Making
<1>6. QED
  BY <1>4, <1>5 DEF IInv

(* A thread takes the head of the queue. *)
LEMMA PopStep ==
  ASSUME IInv, NEW t \in Threads, pc[t] \in {"idle", "waiting"}, free # <<>>,
         sess' = [sess EXCEPT ![t] = Head(free)], free' = Tail(free),
         pc' = [pc EXCEPT ![t] = "pinging"] \/ pc' = [pc EXCEPT ![t] = "using"],
         UNCHANGED <<slots, poolReady, live, leaked, serverVars, healed>>
  PROVE  Exclusive' /\ Cleared' /\ free' \in Seq(Addrs)
         /\ sess' \in [Threads -> Addrs \cup {NoSession}]
<1> USE DEF IInv, TypeOK
<1>1. /\ Head(free) \in ToSet(free) /\ Head(free) \in Addrs
      /\ Tail(free) \in Seq(Addrs) /\ IsInjective(Tail(free))
      /\ ToSet(Tail(free)) = ToSet(free) \ {Head(free)}
  BY QueueTail DEF Exclusive
<1>2. Exclusive'
  BY <1>1 DEF Exclusive, Holders, Making, Session
<1>3. QED
  BY <1>1, <1>2 DEF Cleared

(* A failed attempt is counted; the last one sends the thread on.          *)
LEMMA FailedTyped ==
  ASSUME TypeOK, NEW t \in Threads, AttemptFailed(t)
  PROVE  /\ attempts' \in [Threads -> 0..(Retries - 1)]
         /\ pc' \in [Threads -> {"idle", "waiting", "pinging", "healing", "selecting",
                                "relinking", "unlinking", "using", "notifying"}]
  BY PoolAssumption DEF PoolAssumption, TypeOK, AttemptFailed

(* What ReplaceStale leaves in the slots is a session's address or none.   *)
LEMMA ReplaceTyped ==
  ASSUME slots \in Seq(Addrs \cup {NoSession}), NEW old, NEW new \in Addrs \cup {NoSession},
         ReplaceStale(old, new)
  PROVE  slots' \in Seq(Addrs \cup {NoSession})
<1>1. Len(slots) \in Nat /\ DOMAIN slots = 1..Len(slots)
  OBVIOUS
<1>2. slots' \in [1..Len(slots) -> Addrs \cup {NoSession}]
  BY <1>1 DEF ReplaceStale
<1>3. QED
  BY <1>1, <1>2

(* When the pool is destroyed no slot has a lost session's address.        *)
LEMMA StepOK ==
  ASSUME IInv, [Next]_vars, Destroy => leaked \cap ToSet(slots) = {}
  PROVE  IInv'
<1> USE PoolAssumption DEF IInv, TypeOK, PoolAssumption, serverVars, poolVars
<1>1. ASSUME NEW t \in Threads, Ask(t) PROVE IInv'
  <2>1. CASE Pop(t)
    <3>1. Exclusive' /\ Cleared' /\ free' \in Seq(Addrs)
          /\ sess' \in [Threads -> Addrs \cup {NoSession}]
      BY <1>1, <2>1, PopStep DEF Ask, Pop
    <3>2. TypeOK'
      BY <1>1, <2>1, <3>1 DEF Ask, Pop
    <3>3. QED
      BY <3>1, <3>2
  <2>2. CASE ~Pop(t)
    <3>1. TypeOK'
      <4>1. pc' \in [Threads -> {"idle", "waiting", "pinging", "healing", "selecting",
                                "relinking", "unlinking", "using", "notifying"}]
        BY <1>1, <2>2 DEF Ask
      <4>2. uses' \in 0..MaxUses
        BY <1>1, <2>2 DEF Ask
      <4>3. QED
        BY <1>1, <2>2, <4>1, <4>2 DEF Ask
    <3>2. /\ pc' = [pc EXCEPT ![t] = "waiting"] /\ pc[t] = "idle"
          /\ UNCHANGED <<free, live, leaked, sess, healed>>
      BY <1>1, <2>2 DEF Ask
    <3>3. Exclusive'
      BY <3>2 DEF Exclusive, Holders, Making, Session
    <3>4. Cleared'
      BY <3>2 DEF Cleared
    <3>5. QED
      BY <3>1, <3>3, <3>4
  <2>3. QED
    BY <2>1, <2>2
<1>2. ASSUME NEW t \in Threads, Recheck(t) PROVE IInv'
  <2>1. CASE Pop(t)
    <3>1. Exclusive' /\ Cleared' /\ free' \in Seq(Addrs)
          /\ sess' \in [Threads -> Addrs \cup {NoSession}]
      BY <1>2, <2>1, PopStep DEF Recheck, Pop
    <3>2. QED
      BY <1>2, <2>1, <3>1 DEF Recheck, Pop
  <2>2. CASE ~Pop(t)
    BY <1>2, <2>2 DEF Recheck, Exclusive, Cleared, Holders, Making, Session
  <2>3. QED
    BY <2>1, <2>2
<1>3. ASSUME NEW t \in Threads, TimeOut(t) PROVE IInv'
  <2>1. CASE Pop(t)
    <3>1. Exclusive' /\ Cleared' /\ free' \in Seq(Addrs)
          /\ sess' \in [Threads -> Addrs \cup {NoSession}]
      BY <1>3, <2>1, PopStep DEF TimeOut, Pop
    <3>2. QED
      BY <1>3, <2>1, <3>1 DEF TimeOut, Pop
  <2>2. CASE ~Pop(t)
    <3>1. /\ pc' = [pc EXCEPT ![t] = "idle"] /\ pc[t] = "waiting"
          /\ UNCHANGED <<free, live, leaked, sess, healed>>
      BY <1>3, <2>2 DEF TimeOut
    <3>2. TypeOK'
      BY <1>3, <2>2, <3>1 DEF TimeOut
    <3>3. Exclusive'
      BY <3>1 DEF Exclusive, Holders, Making, Session
    <3>4. Cleared'
      BY <3>1 DEF Cleared
    <3>5. QED
      BY <3>2, <3>3, <3>4
  <2>3. QED
    BY <2>1, <2>2
<1>4. ASSUME NEW t \in Threads, TryAcquire(t) PROVE IInv'
  <2>1. Exclusive' /\ Cleared' /\ free' \in Seq(Addrs)
        /\ sess' \in [Threads -> Addrs \cup {NoSession}]
    BY <1>4, PopStep DEF TryAcquire
  <2>2. QED
    BY <1>4, <2>1 DEF TryAcquire
<1>5. ASSUME NEW t \in Threads, PingOk(t) PROVE IInv'
  BY <1>5 DEF PingOk, Exclusive, Cleared, Holders, Making, Session
<1>6. ASSUME NEW t \in Threads, PingFail(t) PROVE IInv'
  BY <1>6 DEF PingFail, Exclusive, Cleared, Holders, Making, Session
<1>7. ASSUME NEW t \in Threads, NewSession(t) PROVE IInv'
  BY <1>7 DEF NewSession, Exclusive, Cleared, Holders, Making, Session
<1>8. ASSUME NEW t \in Threads, NewSessionFails(t) PROVE IInv'
  <2>1. TypeOK'
    BY <1>8, FailedTyped DEF NewSessionFails, AttemptFailed
  <2>2. QED
    BY <1>8, <2>1 DEF NewSessionFails, AttemptFailed, Exclusive, Cleared, Holders, Making, Session
<1>17. ASSUME NEW t \in Threads, UseSchema(t) PROVE IInv'
  BY <1>17 DEF UseSchema, Exclusive, Cleared, Holders, Making, Session
<1>18. ASSUME NEW t \in Threads, UseSchemaFails(t) PROVE IInv'
  <2>1. healed[t] \in live /\ healed[t] \notin ToSet(free)
        /\ \A u \in Holders \ {t} : Session(u) # healed[t]
    BY <1>18 DEF UseSchemaFails, Exclusive, Holders, Making, Session
  <2>2. TypeOK'
    <3>1. faults' \in 0..MaxFaults /\ leaked' \subseteq live'
      BY <1>18, <2>1 DEF UseSchemaFails
    <3>2. /\ attempts' \in [Threads -> 0..(Retries - 1)]
          /\ pc' \in [Threads -> {"idle", "waiting", "pinging", "healing", "selecting",
                                 "relinking", "unlinking", "using", "notifying"}]
      BY <1>18, FailedTyped DEF UseSchemaFails
    <3>3. healed' \in [Threads -> Addrs \cup {NoSession}]
      BY <1>18 DEF UseSchemaFails
    <3>4. UNCHANGED <<slots, free, poolReady, live, dbUp, broken, sess, notified, uses>>
      BY <1>18 DEF UseSchemaFails
    <3>5. poolReady' \in BOOLEAN /\ dbUp' \in BOOLEAN
      BY <3>4
    <3>6. broken' \subseteq live' /\ live' \subseteq Addrs /\ notified' \subseteq Threads
          /\ slots' \in Seq(Addrs \cup {NoSession}) /\ free' \in Seq(Addrs)
          /\ sess' \in [Threads -> Addrs \cup {NoSession}] /\ uses' \in 0..MaxUses
      BY <3>4
    <3>7. QED
      BY <3>1, <3>2, <3>3, <3>5, <3>6
  <2>3. Exclusive'
    BY <1>18, <2>1 DEF UseSchemaFails, AttemptFailed, Exclusive, Holders, Making, Session
  <2>4. QED
    BY <1>18, <2>2, <2>3 DEF UseSchemaFails, AttemptFailed, Cleared
<1>9. ASSUME NEW t \in Threads, Relink(t) PROVE IInv'
  <2>1. slots' \in Seq(Addrs \cup {NoSession})
    BY <1>9, ReplaceTyped DEF Relink
  <2>2. QED
    BY <1>9, <2>1 DEF Relink, Exclusive, Cleared, Holders, Making, Session
<1>10. ASSUME NEW t \in Threads, Unlink(t) PROVE IInv'
  <2>1. slots' \in Seq(Addrs \cup {NoSession})
    BY <1>10, ReplaceTyped DEF Unlink
  <2>2. QED
    BY <1>10, <2>1 DEF Unlink, Exclusive, Cleared, Holders, Making, Session
<1>11. ASSUME NEW t \in Threads, Push(t) PROVE IInv'
  <2>1. /\ Append(free, sess[t]) \in Seq(Addrs) /\ IsInjective(Append(free, sess[t]))
        /\ ToSet(Append(free, sess[t])) = ToSet(free) \cup {sess[t]}
    BY <1>11, QueueAppend, SMTT(20) DEF Push, Exclusive, Holders, Making, Session
  <2>2. /\ pc[t] = "using" /\ pc' = [pc EXCEPT ![t] = "notifying"]
        /\ free' = Append(free, sess[t]) /\ sess' = [sess EXCEPT ![t] = NoSession]
        /\ UNCHANGED <<live, leaked, healed>>
    BY <1>11 DEF Push
  <2>3. TypeOK'
    BY <1>11, <2>1, <2>2 DEF Push
  <2>4. Exclusive'
    <3>1. sess[t] \in live \ leaked /\ \A u \in Holders \ {t} : Session(u) # sess[t]
      BY <2>2 DEF Exclusive, Holders, Making, Session
    <3>2. \A u \in Holders' : u \in Holders \ {t} /\ Session(u)' = Session(u)
      BY <2>2 DEF Holders, Making, Session
    <3>3. QED
      BY <2>1, <2>2, <3>1, <3>2 DEF Exclusive
  <2>5. Cleared'
    BY <2>2 DEF Cleared
  <2>6. QED
    BY <2>3, <2>4, <2>5
<1>12. ASSUME NEW t \in Threads, Notify(t) PROVE IInv'
  BY <1>12 DEF Notify, Exclusive, Cleared, Holders, Making, Session, Waiting
<1>13. CASE Destroy
  <2>1. Holders' = {} /\ ToSet(free') = {} /\ IsInjective(free') /\ free' \in Seq(Addrs)
        /\ slots' \in Seq(Addrs \cup {NoSession})
    BY <1>13 DEF Destroy, Holders, Making, ToSet, IsInjective
  <2>2. leaked' \subseteq live'
    BY <1>13 DEF Destroy, Exclusive
  <2>3. QED
    BY <1>13, <2>1, <2>2 DEF Destroy, Exclusive, Cleared
<1>14. CASE ServerDown \/ ServerUp \/ ConnectionLost
  <2>1. TypeOK'
    <3>1. CASE ServerDown
      <4>1. broken' \subseteq live' /\ dbUp' \in BOOLEAN /\ poolReady' = poolReady
        BY <3>1 DEF ServerDown
      <4>2. faults' \in 0..MaxFaults
        BY <3>1 DEF ServerDown
      <4>3. QED
        BY <3>1, <4>1, <4>2 DEF ServerDown
    <3>2. CASE ServerUp
      <4>1. dbUp' \in BOOLEAN /\ poolReady' \in BOOLEAN
        BY <3>2 DEF ServerUp
      <4>2. QED
        BY <3>2, <4>1 DEF ServerUp
    <3>3. CASE ConnectionLost
      <4>1. broken' \subseteq live' /\ dbUp' = dbUp /\ poolReady' = poolReady
        BY <3>3 DEF ConnectionLost
      <4>2. faults' \in 0..MaxFaults
        BY <3>3 DEF ConnectionLost
      <4>3. QED
        BY <3>3, <4>1, <4>2 DEF ConnectionLost
    <3>4. QED
      BY <1>14, <3>1, <3>2, <3>3
  <2>2. Exclusive' /\ Cleared'
    BY <1>14 DEF ServerDown, ServerUp, ConnectionLost, Exclusive, Cleared, Holders, Making, Session
  <2>3. QED
    BY <2>1, <2>2
<1>15. CASE UNCHANGED vars
  BY <1>15 DEF vars, Exclusive, Cleared, Holders, Making, Session
<1>16. QED
  BY <1>1, <1>2, <1>3, <1>4, <1>5, <1>6, <1>7, <1>8, <1>9, <1>10, <1>11, <1>12, <1>13, <1>14,
     <1>15, <1>17, <1>18 DEF Next, Proceed, Stopped

(***************************************************************************)
(* The slots and the sessions                                              *)
(***************************************************************************)

Replacing == {t \in Threads : pc[t] \in {"healing", "selecting", "relinking", "unlinking"}}
Linked == live \ (leaked \cup {healed[t] : t \in Replacing})
SlotsOf(x) == {i \in DOMAIN slots : slots[i] = x}
ReplacersOf(x) == {t \in Replacing : sess[t] = x}

(* How many slots ought to have the address x. *)
Due(x) == (IF x \in Linked THEN 1 ELSE 0) + Cardinality(ReplacersOf(x))

Owned == \A x \in Addrs : Cardinality(SlotsOf(x)) = Due(x)

(* Only between its making and its entry in a slot is a session healed.    *)
Hidden == \A t \in Threads : ~Making(t) => healed[t] = NoSession

SlotsInv == IInv /\ Hidden /\ Owned

LEMMA OwnedIs == Owned <=> SlotsOwnSessions
  BY DEF Owned, SlotsOwnSessions, Due, SlotsOf, ReplacersOf, Linked, Replacing

LEMMA Finite ==
  ASSUME TypeOK, NEW x
  PROVE  /\ IsFiniteSet(SlotsOf(x)) /\ IsFiniteSet(ReplacersOf(x))
         /\ Cardinality(SlotsOf(x)) \in Nat /\ Cardinality(ReplacersOf(x)) \in Nat
<1>1. IsFiniteSet(1..Len(slots)) /\ DOMAIN slots = 1..Len(slots)
  BY FS_Interval DEF TypeOK
<1>2. IsFiniteSet(SlotsOf(x))
  BY <1>1, FS_Subset DEF SlotsOf
<1>3. IsFiniteSet(ReplacersOf(x))
  BY PoolAssumption, FS_Subset DEF PoolAssumption, ReplacersOf, Replacing
<1>4. QED
  BY <1>2, <1>3, FS_CardinalityType

(* Only a thread that makes a session has one, which no other knows.       *)
LEMMA MadeByOne ==
  ASSUME SlotsInv, NEW t \in Replacing
  PROVE  /\ t \in Threads
         /\ ~Making(t) => healed[t] = NoSession /\ healed[t] \notin live
         /\ Making(t) => healed[t] \in live \ leaked /\ healed[t] \in Addrs
         /\ Making(t) => \A u \in Replacing \ {t} : healed[u] # healed[t]
  BY PoolAssumption
  DEF PoolAssumption, SlotsInv, IInv, TypeOK, Exclusive, Hidden, Replacing, Holders, Making, Session

LEMMA SlotsInit == Init => SlotsInv
<1> SUFFICES ASSUME Init PROVE SlotsInv
  OBVIOUS
<1>0. PICK k \in 1..PoolSize : \E s \in [1..k -> Addrs] :
        /\ IsInjective(s) /\ slots = s /\ free = s
        /\ leaked \in SUBSET (Addrs \ ToSet(s)) /\ live = ToSet(s) \cup leaked
  BY DEF Init
<1>1. PICK s \in [1..k -> Addrs] :
        /\ IsInjective(s) /\ slots = s /\ free = s
        /\ leaked \in SUBSET (Addrs \ ToSet(s)) /\ live = ToSet(s) \cup leaked
  BY <1>0
<1>2. IsInjective(s) /\ slots = s
  BY <1>1
<1>3. Replacing = {} /\ Linked = ToSet(s)
  BY <1>1 DEF Init, Replacing, Linked
<1>4. ASSUME NEW x \in Addrs PROVE Cardinality(SlotsOf(x)) = Due(x)
  <2>1. Cardinality(ReplacersOf(x)) = 0
    BY <1>3, FS_EmptySet DEF ReplacersOf
  <2>2. CASE x \in ToSet(s)
    <3>1. PICK i \in DOMAIN s : s[i] = x
      BY <2>2 DEF ToSet
    <3>2. SlotsOf(x) = {i}
      BY <1>2, <3>1 DEF SlotsOf, IsInjective
    <3>3. Cardinality(SlotsOf(x)) = 1
      BY <3>2, FS_Singleton
    <3>4. QED
      BY <1>3, <2>1, <2>2, <3>3 DEF Due
  <2>3. CASE x \notin ToSet(s)
    <3>1. SlotsOf(x) = {}
      BY <1>2, <2>3 DEF SlotsOf, ToSet
    <3>2. QED
      BY <1>3, <2>1, <2>3, <3>1, FS_EmptySet DEF Due
  <2>4. QED
    BY <2>2, <2>3
<1>5. QED
  BY <1>4, InitOK DEF SlotsInv, Owned, Hidden, Making, Init

(* What does not touch the slots, the linked sessions or the threads that  *)
(* replace one leaves the bookkeeping as it is.                            *)
LEMMA Unconcerned ==
  ASSUME SlotsInv, slots' = slots, Linked' = Linked, Replacing' = Replacing,
         \A t \in Replacing : sess'[t] = sess[t]
  PROVE  Owned'
<1>1. ASSUME NEW x \in Addrs PROVE SlotsOf(x)' = SlotsOf(x) /\ ReplacersOf(x)' = ReplacersOf(x)
  BY DEF SlotsOf, ReplacersOf
<1>2. QED
  BY <1>1 DEF SlotsInv, Owned, Due

(* A ping fails: the session is not linked any more, but replaced.         *)
LEMMA PingFailOwned ==
  ASSUME SlotsInv, NEW t \in Threads, PingFail(t)
  PROVE  Owned'
<1> DEFINE old == sess[t]
<1>0. /\ TypeOK /\ t \notin Replacing /\ old \in live \ leaked /\ old \in Addrs
      /\ live' = live \ {old} /\ pc' = [pc EXCEPT ![t] = "healing"]
      /\ UNCHANGED <<slots, leaked, sess, healed>> /\ healed[t] = NoSession
  BY DEF SlotsInv, IInv, Hidden, TypeOK, Exclusive, Holders, Making, Session, PingFail, Replacing
<1>1. Replacing' = Replacing \cup {t}
  BY <1>0 DEF TypeOK, Replacing
<1>2. \A u \in Replacing : healed[u] # old
  <2> SUFFICES ASSUME NEW u \in Replacing PROVE healed[u] # old
    OBVIOUS
  <2>1. CASE Making(u)
    <3>1. t \in Holders /\ u \in Holders /\ t # u /\ Session(t) = old /\ Session(u) = healed[u]
      BY <1>0, <2>1 DEF PingFail, Holders, Making, Session, Replacing
    <3>2. QED
      BY <3>1 DEF SlotsInv, IInv, Exclusive
  <2>2. CASE ~Making(u)
    BY <1>0, <2>2, PoolAssumption DEF PoolAssumption, SlotsInv, Hidden, Replacing
  <2>3. QED
    BY <2>1, <2>2
<1>3. old \in Linked /\ Linked' = Linked \ {old}
  <2>1. NoSession \notin live
    BY <1>0, PoolAssumption DEF PoolAssumption, TypeOK
  <2>2. {healed[u] : u \in Replacing'} = {healed[u] : u \in Replacing} \cup {NoSession}
    BY <1>0, <1>1
  <2>3. QED
    BY <1>0, <1>2, <2>1, <2>2 DEF Linked
<1>4. ASSUME NEW x \in Addrs PROVE Cardinality(SlotsOf(x))' = Due(x)'
  <2>1. SlotsOf(x)' = SlotsOf(x) /\ Cardinality(SlotsOf(x)) = Due(x)
    BY <1>0 DEF SlotsOf, SlotsInv, Owned
  <2>2. CASE x = old
    <3>1. ReplacersOf(x)' = ReplacersOf(x) \cup {t} /\ t \notin ReplacersOf(x)
      BY <1>0, <1>1, <2>2 DEF ReplacersOf
    <3>2. Cardinality(ReplacersOf(x)') = Cardinality(ReplacersOf(x)) + 1
      BY <1>0, <3>1, Finite, CardMore
    <3>3. QED
      BY <1>0, <1>3, <2>1, <2>2, <3>2, Finite DEF Due
  <2>3. CASE x # old
    <3>1. ReplacersOf(x)' = ReplacersOf(x)
      BY <1>0, <1>1, <2>3 DEF ReplacersOf
    <3>2. QED
      BY <1>3, <2>1, <2>3, <3>1 DEF Due
  <2>4. QED
    BY <2>2, <2>3
<1>5. QED
  BY <1>4 DEF Owned

(* One slot of old, the first, gets new.                                   *)
LEMMA Replaced ==
  ASSUME TypeOK, NEW old \in Addrs, NEW new, ReplaceStale(old, new), SlotsOf(old) # {}
  PROVE  \E i \in SlotsOf(old) :
           \A x : SlotsOf(x)' = (SlotsOf(x) \ {i}) \cup (IF x = new THEN {i} ELSE {})
<1>1. Len(slots) \in Nat /\ DOMAIN slots = 1..Len(slots)
  BY DEF TypeOK
<1>2. SlotsOf(old) \subseteq Nat
  BY <1>1 DEF SlotsOf
<1>3. PICK i \in SlotsOf(old) : \A j \in SlotsOf(old) : i <= j
  BY <1>2, LeastNat
<1>4. slots' = [j \in DOMAIN slots |-> IF j = i THEN new ELSE slots[j]]
  <2>1. \A j \in DOMAIN slots : (j \in SlotsOf(old) /\ \A h \in SlotsOf(old) : j <= h) <=> j = i
    BY <1>1, <1>2, <1>3
  <2>2. slots' = [j \in DOMAIN slots |->
                   IF j \in SlotsOf(old) /\ \A h \in SlotsOf(old) : j <= h THEN new ELSE slots[j]]
    BY DEF ReplaceStale, SlotsOf
  <2>3. QED
    BY <2>1, <2>2
<1>5. i \in DOMAIN slots
  BY <1>3 DEF SlotsOf
<1>6. ASSUME NEW x PROVE SlotsOf(x)' = (SlotsOf(x) \ {i}) \cup (IF x = new THEN {i} ELSE {})
  BY <1>4, <1>5 DEF SlotsOf
<1>7. QED
  BY <1>3, <1>6

(* A thread that replaces the address old has a slot to find: its slot     *)
(* gets new, be it a session or none, and the thread is done.              *)
LEMMA ReplaceOwned ==
  ASSUME SlotsInv, TypeOK', NEW t \in Replacing, NEW new, ReplaceStale(sess[t], new),
         Replacing' = Replacing \ {t}, \A u \in Replacing' : sess'[u] = sess[u],
         \/ new \in Addrs \ Linked /\ Linked' = Linked \cup {new}
         \/ new \notin Addrs /\ Linked' = Linked
  PROVE  Owned'
<1> DEFINE old == sess[t]
<1>0. TypeOK /\ old \in Addrs
  BY DEF SlotsInv, IInv, Cleared, Replacing
<1>1. Cardinality(ReplacersOf(old)) # 0
  <2>1. t \in ReplacersOf(old)
    BY DEF ReplacersOf
  <2>2. QED
    BY <1>0, <2>1, Finite, FS_EmptySet
<1>2. SlotsOf(old) # {}
  <2>1. Cardinality(SlotsOf(old)) # 0
    BY <1>0, <1>1, Finite DEF SlotsInv, Owned, Due
  <2>2. QED
    BY <2>1, FS_EmptySet
<1>3. PICK i \in SlotsOf(old) :
        \A x : SlotsOf(x)' = (SlotsOf(x) \ {i}) \cup (IF x = new THEN {i} ELSE {})
  BY <1>0, <1>2, Replaced
<1>4. ASSUME NEW x \in Addrs PROVE Cardinality(SlotsOf(x))' = Due(x)'
  <2>0. /\ IsFiniteSet(SlotsOf(x)) /\ IsFiniteSet(ReplacersOf(x))
        /\ Cardinality(SlotsOf(x)) \in Nat /\ Cardinality(ReplacersOf(x)) \in Nat
        /\ Cardinality(SlotsOf(x)) = Due(x)
    BY <1>0, Finite DEF SlotsInv, Owned
  <2>1. Cardinality(ReplacersOf(x)') = Cardinality(ReplacersOf(x)) - (IF x = old THEN 1 ELSE 0)
    <3>1. CASE x = old
      <4>1. ReplacersOf(x)' = ReplacersOf(x) \ {t} /\ t \in ReplacersOf(x)
        BY <3>1 DEF ReplacersOf
      <4>2. Cardinality(ReplacersOf(x) \ {t}) = Cardinality(ReplacersOf(x)) - 1
        BY <2>0, <4>1, CardLess
      <4>3. QED
        BY <3>1, <4>1, <4>2
    <3>2. CASE x # old
      <4>1. ReplacersOf(x)' = ReplacersOf(x)
        BY <3>2 DEF ReplacersOf
      <4>2. QED
        BY <2>0, <3>2, <4>1
    <3>3. QED
      BY <3>1, <3>2
  <2>2. (IF x \in Linked' THEN 1 ELSE 0) =
          (IF x \in Linked THEN 1 ELSE 0) + (IF x = new THEN 1 ELSE 0)
    OBVIOUS
  <2>3. Cardinality(SlotsOf(x)') =
          Cardinality(SlotsOf(x)) - (IF x = old THEN 1 ELSE 0) + (IF x = new THEN 1 ELSE 0)
    <3>1. i \in SlotsOf(x) <=> x = old
      BY <1>3 DEF SlotsOf
    <3>2. /\ IsFiniteSet(SlotsOf(x) \ {i})
          /\ Cardinality(SlotsOf(x) \ {i}) = Cardinality(SlotsOf(x)) - (IF x = old THEN 1 ELSE 0)
      <4>1. CASE i \in SlotsOf(x)
        BY <2>0, <3>1, <4>1, CardLess
      <4>2. CASE i \notin SlotsOf(x)
        <5>1. SlotsOf(x) \ {i} = SlotsOf(x)
          BY <4>2
        <5>2. QED
          BY <2>0, <3>1, <4>2, <5>1
      <4>3. QED
        BY <4>1, <4>2
    <3>3. /\ i \notin SlotsOf(x) \ {i}
          /\ Cardinality((SlotsOf(x) \ {i}) \cup {i}) = Cardinality(SlotsOf(x) \ {i}) + 1
      BY <3>2, CardMore
    <3>4. CASE x = new
      <4>1. SlotsOf(x)' = (SlotsOf(x) \ {i}) \cup {i}
        BY <1>3, <3>4
      <4>2. QED
        BY <3>2, <3>3, <3>4, <4>1
    <3>5. CASE x # new
      <4>1. SlotsOf(x)' = SlotsOf(x) \ {i}
        BY <1>3, <3>5
      <4>2. QED
        BY <2>0, <3>2, <3>5, <4>1
    <3>6. QED
      BY <3>4, <3>5
  <2>4. QED
    BY <2>0, <2>1, <2>2, <2>3 DEF Due
<1>5. QED
  BY <1>4 DEF Owned

(* Where nothing is being replaced, the slots have the sessions that are   *)
(* not lost and nothing else.                                              *)
LEMMA AtRest ==
  ASSUME SlotsInv, Replacing = {}
  PROVE  leaked \cap ToSet(slots) = {} /\ live \subseteq leaked \cup ToSet(slots)
<1>1. ASSUME NEW x \in Addrs PROVE Cardinality(SlotsOf(x)) = IF x \in Linked THEN 1 ELSE 0
  <2>1. Cardinality(ReplacersOf(x)) = 0
    BY FS_EmptySet DEF ReplacersOf
  <2>2. QED
    BY <2>1 DEF SlotsInv, Owned, Due
<1>2. ASSUME NEW x \in leaked PROVE x \notin ToSet(slots)
  <2>1. x \in Addrs /\ x \notin Linked
    BY DEF SlotsInv, IInv, TypeOK, Linked
  <2>2. SlotsOf(x) = {}
    BY <1>1, <2>1, Finite, FS_EmptySet DEF SlotsInv, IInv
  <2>3. QED
    BY <2>2 DEF SlotsOf, ToSet
<1>3. ASSUME NEW x \in live \ leaked PROVE x \in ToSet(slots)
  <2>1. x \in Addrs /\ x \in Linked
    BY DEF SlotsInv, IInv, TypeOK, Linked
  <2>2. SlotsOf(x) # {}
    BY <1>1, <2>1, FS_EmptySet
  <2>3. QED
    BY <2>2 DEF SlotsOf, ToSet
<1>4. QED
  BY <1>2, <1>3

LEMMA SlotsStep == SlotsInv /\ [Next]_vars => SlotsInv'
<1> SUFFICES ASSUME SlotsInv, [Next]_vars PROVE SlotsInv'
  OBVIOUS
<1>0. TypeOK /\ IInv' /\ TypeOK' /\ Hidden
  <2>1. Destroy => leaked \cap ToSet(slots) = {}
    BY AtRest DEF Destroy, Replacing
  <2>2. QED
    BY <2>1, StepOK DEF SlotsInv, IInv
<1>1. ASSUME NEW t \in Threads,
             \/ Ask(t) \/ TryAcquire(t) \/ TimeOut(t) \/ Recheck(t)
             \/ PingOk(t) \/ Push(t) \/ Notify(t)
      PROVE  Hidden' /\ Owned'
  <2>1. /\ UNCHANGED <<slots, live, leaked, healed>>
        /\ t \notin Replacing
        /\ \/ pc' = pc
           \/ /\ pc' = [pc EXCEPT ![t] = pc'[t]]
              /\ pc'[t] \in {"idle", "waiting", "pinging", "using", "notifying"}
        /\ sess' = sess \/ sess' = [sess EXCEPT ![t] = sess'[t]]
    BY <1>0, <1>1 DEF TypeOK, Replacing, Ask, TryAcquire, TimeOut, Recheck, PingOk, Push, Notify,
                      Pop, poolVars
  <2>2. Replacing' = Replacing /\ \A u \in Replacing : sess'[u] = sess[u]
    BY <1>0, <2>1 DEF TypeOK, Replacing
  <2>3. Linked' = Linked
    BY <2>1, <2>2 DEF Linked
  <2>4. Hidden'
    BY <1>0, <2>1 DEF Hidden, Making, TypeOK, Replacing
  <2>5. QED
    BY <2>1, <2>2, <2>3, <2>4, Unconcerned
<1>2. ASSUME NEW t \in Threads, PingFail(t) PROVE Hidden' /\ Owned'
  BY <1>0, <1>2, PingFailOwned DEF PingFail, Hidden, Making, TypeOK
<1>3. ASSUME NEW t \in Threads, NewSession(t) PROVE Hidden' /\ Owned'
  <2>1. PICK n \in Addrs \ live : live' = live \cup {n} /\ healed' = [healed EXCEPT ![t] = n]
    BY <1>3 DEF NewSession
  <2>2. /\ pc[t] = "healing" /\ pc' = [pc EXCEPT ![t] = "selecting"]
        /\ UNCHANGED <<slots, sess, leaked>>
    BY <1>3 DEF NewSession
  <2>3. Replacing' = Replacing /\ t \in Replacing
    BY <1>0, <2>2 DEF TypeOK, Replacing
  <2>4. Linked' = Linked
    BY <1>0, <2>1, <2>2, <2>3, MadeByOne DEF Linked, Making, TypeOK, Replacing
  <2>5. Hidden'
    BY <1>0, <2>1, <2>2 DEF Hidden, Making, TypeOK
  <2>6. QED
    BY <2>2, <2>3, <2>4, <2>5, Unconcerned
<1>4. ASSUME NEW t \in Threads, NewSessionFails(t) \/ UseSchema(t) PROVE Hidden' /\ Owned'
  <2>1. /\ t \in Replacing
        /\ \/ pc[t] = "healing" /\ pc' = [pc EXCEPT ![t] = pc'[t]]
              /\ pc'[t] \in {"healing", "unlinking"}
           \/ pc[t] = "selecting" /\ pc' = [pc EXCEPT ![t] = "relinking"]
        /\ UNCHANGED <<slots, live, leaked, sess, healed>>
    BY <1>0, <1>4 DEF NewSessionFails, AttemptFailed, UseSchema, poolVars, TypeOK, Replacing
  <2>2. Replacing' = Replacing
    BY <1>0, <2>1 DEF TypeOK, Replacing
  <2>3. Hidden'
    BY <1>0, <2>1 DEF Hidden, Making, TypeOK
  <2>4. Linked' = Linked
    BY <2>1, <2>2 DEF Linked
  <2>5. QED
    BY <2>1, <2>2, <2>3, <2>4, Unconcerned
<1>10. ASSUME NEW t \in Threads, UseSchemaFails(t) PROVE Hidden' /\ Owned'
  <2>1. /\ pc[t] = "selecting" /\ pc' = [pc EXCEPT ![t] = pc'[t]]
        /\ pc'[t] \in {"healing", "unlinking"}
        /\ leaked' = leaked \cup {healed[t]} /\ healed' = [healed EXCEPT ![t] = NoSession]
        /\ UNCHANGED <<slots, live, sess>>
    BY <1>0, <1>10 DEF UseSchemaFails, AttemptFailed, TypeOK
  <2>2. Replacing' = Replacing /\ t \in Replacing
    BY <1>0, <2>1 DEF TypeOK, Replacing
  <2>3. {healed[u] : u \in Replacing} \cup {NoSession}
          = {healed'[u] : u \in Replacing} \cup {healed[t]}
    BY <1>0, <2>1, <2>2 DEF TypeOK, Replacing
  <2>4. NoSession \notin live
    BY <1>0, PoolAssumption DEF PoolAssumption, TypeOK
  <2>5. Linked' = Linked
    BY <2>1, <2>2, <2>3, <2>4 DEF Linked
  <2>6. Hidden'
    BY <1>0, <2>1 DEF Hidden, Making, TypeOK
  <2>7. QED
    BY <2>1, <2>2, <2>5, <2>6, Unconcerned
<1>5. ASSUME NEW t \in Threads, Relink(t) PROVE Hidden' /\ Owned'
  <2>1. /\ pc[t] = "relinking" /\ ReplaceStale(sess[t], healed[t])
        /\ live' = live /\ leaked' = leaked
        /\ sess' = [sess EXCEPT ![t] = healed[t]] /\ healed' = [healed EXCEPT ![t] = NoSession]
        /\ pc' = [pc EXCEPT ![t] = "using"]
    BY <1>5 DEF Relink
  <2>2. t \in Replacing /\ Replacing' = Replacing \ {t} /\ \A u \in Replacing' : sess'[u] = sess[u]
    BY <1>0, <2>1 DEF TypeOK, Replacing
  <2>3. /\ healed[t] \in live \ leaked /\ healed[t] \in Addrs
        /\ \A u \in Replacing \ {t} : healed[u] # healed[t] /\ healed'[u] = healed[u]
    BY <1>0, <2>1, <2>2, MadeByOne DEF Making, TypeOK
  <2>4. healed[t] \in Addrs \ Linked /\ Linked' = Linked \cup {healed[t]}
    BY <2>1, <2>2, <2>3 DEF Linked
  <2>5. Hidden'
    BY <1>0, <2>1 DEF Hidden, Making, TypeOK
  <2>6. QED
    BY <1>0, <2>1, <2>2, <2>4, <2>5, ReplaceOwned
<1>6. ASSUME NEW t \in Threads, Unlink(t) PROVE Hidden' /\ Owned'
  <2>1. /\ pc[t] = "unlinking" /\ ReplaceStale(sess[t], NoSession)
        /\ UNCHANGED <<live, leaked, healed>>
        /\ sess' = [sess EXCEPT ![t] = NoSession] /\ pc' = [pc EXCEPT ![t] = "idle"]
    BY <1>6 DEF Unlink
  <2>2. t \in Replacing /\ Replacing' = Replacing \ {t} /\ \A u \in Replacing' : sess'[u] = sess[u]
    BY <1>0, <2>1 DEF TypeOK, Replacing
  <2>3. healed[t] \notin live
    BY <2>1, <2>2, MadeByOne DEF Making
  <2>4. NoSession \notin Addrs /\ Linked' = Linked
    BY <2>1, <2>2, <2>3, PoolAssumption DEF PoolAssumption, Linked
  <2>5. Hidden'
    BY <1>0, <2>1 DEF Hidden, Making, TypeOK
  <2>6. QED
    BY <1>0, <2>1, <2>2, <2>4, <2>5, ReplaceOwned
<1>7. CASE Destroy
  <2>1. /\ \A t \in Threads : pc[t] = "idle"
        /\ live' = live \ ToSet(slots) /\ slots' = <<>>
        /\ UNCHANGED <<leaked, pc, sess, healed>>
    BY <1>7 DEF Destroy
  <2>2. Replacing = {} /\ Replacing' = {}
    BY <2>1 DEF Replacing
  <2>3. Linked' = {}
    BY <2>1, <2>2, AtRest DEF Linked
  <2>4. ASSUME NEW x \in Addrs PROVE Cardinality(SlotsOf(x))' = Due(x)'
    <3>1. SlotsOf(x)' = {} /\ ReplacersOf(x)' = {} /\ x \notin Linked'
      BY <2>1, <2>2, <2>3 DEF SlotsOf, ReplacersOf
    <3>2. QED
      BY <3>1, FS_EmptySet DEF Due
  <2>5. Hidden' /\ Owned'
    BY <1>0, <2>1, <2>4 DEF Owned, Hidden, Making
  <2>6. QED
    BY <1>0, <2>5 DEF SlotsInv
<1>8. CASE ServerDown \/ ServerUp \/ ConnectionLost \/ UNCHANGED vars
  <2>1. UNCHANGED <<slots, live, leaked, pc, sess, healed>>
    BY <1>8 DEF ServerDown, ServerUp, ConnectionLost, vars, poolVars
  <2>2. Replacing' = Replacing /\ Linked' = Linked /\ Hidden'
    BY <1>0, <2>1 DEF Replacing, Linked, Hidden, Making
  <2>3. QED
    BY <1>0, <2>1, <2>2, Unconcerned DEF SlotsInv
<1>9. QED
  BY <1>0, <1>1, <1>2, <1>3, <1>4, <1>5, <1>6, <1>7, <1>8, <1>10
  DEF SlotsInv, Next, Proceed, Stopped

LEMMA SlotsInvariance == Spec => []SlotsInv
  BY SlotsInit, SlotsStep, PTL DEF Spec

(* The state of the pool keeps its type.                                   *)
THEOREM TypeCorrect == Spec => []TypeOK
<1>1. SlotsInv => TypeOK
  BY DEF SlotsInv, IInv
<1>2. QED
  BY <1>1, SlotsInvariance, PTL

(* No session is used by two threads, is queued while it is used, is       *)
(* queued twice or used after its deletion.                                *)
THEOREM UseIsExclusive == Spec => []ExclusiveUse
<1>1. SlotsInv => ExclusiveUse
  BY DEF SlotsInv, IInv, Exclusive, ExclusiveUse, Holders, Making, Session, CheckedOut
<1>2. QED
  BY <1>1, SlotsInvariance, PTL

(* Every session that was not lost in its making has one slot, a lost one  *)
(* none, and every slot a session or the address of the deleted one that a *)
(* thread is replacing, however healings interleave and whatever addresses *)
(* the allocator gives again.                                              *)
THEOREM SlotsKept == Spec => []SlotsOwnSessions
<1>1. SlotsInv => SlotsOwnSessions
  BY OwnedIs DEF SlotsInv
<1>2. QED
  BY <1>1, SlotsInvariance, PTL

(***************************************************************************)
(* Startup                                                                 *)
(***************************************************************************)

(* The counters of initPool are at zero wherever it is not at work, and it *)
(* has not created more sessions than it has passed slots.                 *)
PoolOK ==
  /\ phase \notin {"connect", "serving"} => slot = 0 /\ attempt = 0 /\ sessions = 0
  /\ phase = "connect" => sessions <= slot

(* What load leaves behind: the temporary file is ciphertext, if nothing   *)
(* went wrong, when it takes the place of db.ini.                          *)
LoadOK ==
  /\ disk["tmp"] # "plain"
  /\ phase = "rename" => disk["tmp"] = "cipher" \/ mishaps # {}
  /\ phase = "connect" => disk["ini"] # "plain"

StartupInv == StartupTypeOK /\ PoolOK /\ LoadOK /\ ConfigSurvives /\ ServesEncrypted

LEMMA StartupInitOK == StartupInit => StartupInv
  BY StartupAssumption
  DEF StartupAssumption, StartupInit, StartupInv, StartupTypeOK, PoolOK, LoadOK, ConfigSurvives,
      ServesEncrypted, Files, Readable, Overwriting

LEMMA StartupStepTyped == StartupInv /\ [StartupNext]_startupVars => StartupTypeOK' /\ PoolOK'
<1> SUFFICES ASSUME StartupInv, [StartupNext]_startupVars PROVE StartupTypeOK' /\ PoolOK'
  OBVIOUS
<1>0. StartupTypeOK /\ PoolOK
  BY DEF StartupInv
<1> USE <1>0, StartupAssumption DEF StartupAssumption, StartupTypeOK, PoolOK, Files, Readable, pool
<1>1. CASE Start
  BY <1>1 DEF Start
<1>2. CASE Read
  BY <1>2 DEF Read, Loaded, Abort
<1>3. CASE OpenTmp
  BY <1>3 DEF OpenTmp
<1>4. CASE WriteTmp
  <2>1. disk' \in [Files -> Readable \cup {"broken", "none"}]
    BY <1>4 DEF WriteTmp, Write, Fault
  <2>2. unsynced' \subseteq Files
    BY <1>4 DEF WriteTmp, Write, Fault
  <2>3. mishaps' \subseteq {"shortWrite", "cutOff", "unsynced"}
    BY <1>4 DEF WriteTmp, Write, Fault
  <2>4. QED
    BY <1>4, <2>1, <2>2, <2>3 DEF WriteTmp, Write, Fault
<1>5. CASE Rename
  <2>1. disk' \in [Files -> Readable \cup {"broken", "none"}]
    BY <1>5 DEF Rename, Loaded, Fault
  <2>2. unsynced' \subseteq Files
    BY <1>5 DEF Rename, Loaded, Fault
  <2>3. mishaps' \subseteq {"shortWrite", "cutOff", "unsynced"}
    BY <1>5 DEF Rename, Loaded, Fault
  <2>4. QED
    BY <1>5, <2>1, <2>2, <2>3 DEF Rename, Loaded, Fault
<1>6. CASE OpenIni
  BY <1>6 DEF OpenIni
<1>7. CASE RemoveTmp
  BY <1>7 DEF RemoveTmp
<1>8. CASE WriteIni
  <2>1. disk' \in [Files -> Readable \cup {"broken", "none"}]
    BY <1>8 DEF WriteIni, Write, Loaded, Fault
  <2>2. unsynced' \subseteq Files
    BY <1>8 DEF WriteIni, Write, Loaded, Fault
  <2>3. mishaps' \subseteq {"shortWrite", "cutOff", "unsynced"}
    BY <1>8 DEF WriteIni, Write, Loaded, Fault
  <2>4. QED
    BY <1>8, <2>1, <2>2, <2>3 DEF WriteIni, Write, Loaded, Fault
<1>9. CASE OpenFails
  BY <1>9 DEF OpenFails, Abort, Fault
<1>10. CASE Connect
  BY <1>10 DEF Connect, NextSlot, Abort
<1>11. CASE ConnectFails
  BY <1>11 DEF ConnectFails, NextSlot, Abort
<1>12. CASE Stop
  BY <1>12 DEF Stop, Halt
<1>13. CASE Kill
  BY <1>13 DEF Kill, Halt, Fault
<1>14. CASE PowerLost
  BY <1>14 DEF PowerLost, Halt, Fault
<1>15. CASE Sync
  BY <1>15 DEF Sync
<1>16. CASE UNCHANGED startupVars
  BY <1>16 DEF startupVars
<1>17. QED
  BY <1>1, <1>2, <1>3, <1>4, <1>5, <1>6, <1>7, <1>8, <1>9, <1>10, <1>11, <1>12, <1>13,
     <1>14, <1>15, <1>16 DEF StartupNext

LEMMA StartupStepOK == StartupInv /\ [StartupNext]_startupVars => StartupInv'
<1> SUFFICES ASSUME StartupInv, [StartupNext]_startupVars PROVE StartupInv'
  OBVIOUS
<1>0. StartupTypeOK' /\ PoolOK'
  BY StartupStepTyped
<1> USE <1>0 DEF StartupInv, StartupTypeOK, PoolOK, LoadOK, ConfigSurvives, ServesEncrypted, Files,
            Readable, Overwriting, pool
<1>1. CASE Start
  BY <1>1 DEF Start
<1>2. CASE Read
  BY <1>2 DEF Read, Loaded, Abort
<1>3. CASE OpenTmp
  BY <1>3 DEF OpenTmp
<1>4. CASE WriteTmp
  BY <1>4 DEF WriteTmp, Write, Fault
<1>5. CASE Rename
  BY <1>5 DEF Rename, Loaded, Fault
<1>6. CASE OpenIni
  BY <1>6 DEF OpenIni
<1>7. CASE RemoveTmp
  BY <1>7 DEF RemoveTmp
<1>8. CASE WriteIni
  BY <1>8 DEF WriteIni, Write, Loaded, Fault
<1>9. CASE OpenFails
  BY <1>9 DEF OpenFails, Abort, Fault
<1>10. CASE Connect
  BY <1>10 DEF Connect, NextSlot, Abort
<1>11. CASE ConnectFails
  BY <1>11 DEF ConnectFails, NextSlot, Abort
<1>12. CASE Stop
  BY <1>12 DEF Stop, Halt
<1>13. CASE Kill
  BY <1>13 DEF Kill, Halt, Fault
<1>14. CASE PowerLost
  BY <1>14 DEF PowerLost, Halt, Fault
<1>15. CASE Sync
  BY <1>15 DEF Sync
<1>16. CASE UNCHANGED startupVars
  BY <1>16 DEF startupVars
<1>17. QED
  BY <1>1, <1>2, <1>3, <1>4, <1>5, <1>6, <1>7, <1>8, <1>9, <1>10, <1>11, <1>12, <1>13,
     <1>14, <1>15, <1>16 DEF StartupNext

LEMMA StartupInvariance == StartupSpec => []StartupInv
  BY StartupInitOK, StartupStepOK, PTL DEF StartupSpec

(* The state of a start keeps its type.                                    *)
THEOREM StartupTyped == StartupSpec => []StartupTypeOK
<1>1. StartupInv => StartupTypeOK
  BY DEF StartupInv
<1>2. QED
  BY <1>1, StartupInvariance, PTL

(* db.ini survives every kill, refused file and denied rename, but for the *)
(* three mishaps ConfigSurvives names.                                     *)
THEOREM ConfigKept == StartupSpec => []ConfigSurvives
<1>1. StartupInv => ConfigSurvives
  BY DEF StartupInv
<1>2. QED
  BY <1>1, StartupInvariance, PTL

(* An engine that serves has a session and left no plain text behind.      *)
THEOREM EncryptedWhenServing == StartupSpec => []ServesEncrypted
<1>1. StartupInv => ServesEncrypted
  BY DEF StartupInv
<1>2. QED
  BY <1>1, StartupInvariance, PTL
=============================================================================
