--------------------------- MODULE ConnectionPool ---------------------------
(***************************************************************************)
(* Database.cpp: the pool of MySQL sessions every handler draws from.      *)
(*                                                                         *)
(* A session is a heap object; the pool knows it by its address, and an    *)
(* address that was deleted may be the address of a later session.         *)
(* allConnections_ (slots) owns the sessions, freeConnections_ (free) is   *)
(* the FIFO of those not checked out.  poolMutex_ protects both, and       *)
(* acquire() gives it up several times: while it waits on poolCV_, while   *)
(* it pings, and while it heals.  release() pushes under the mutex and     *)
(* notifies after it.  Each stretch between two lock operations, and each  *)
(* call to the server, is an action.                                       *)
(*                                                                         *)
(* createSession_() is new Session, then USE: a USE that throws leaves a   *)
(* session, connected to the server, that nobody knows (leaked).           *)
(*                                                                         *)
(* The database server goes down and comes back, and drops single          *)
(* connections; both break sessions without the pool noticing until the    *)
(* next ping.  Threads are HTTP workers; main() joins them before it calls *)
(* destroyPool().                                                          *)
(***************************************************************************)
EXTENDS Naturals, FiniteSets, Sequences, SequencesExt

CONSTANTS
  Threads,    \* HTTP worker threads
  PoolSize,   \* poolSizeRuntime_
  Retries,    \* HEALTH_CHECK_RETRIES
  Addrs,      \* addresses the allocator may return for a Session
  NoSession,  \* nullptr
  MaxUses,    \* how often the threads ask for a session, in all (a bound)
  MaxFaults   \* how many faults the server and the network produce (a bound)

ASSUME PoolAssumption ==
  /\ IsFiniteSet(Threads)
  /\ PoolSize \in Nat \ {0} /\ Retries \in Nat \ {0}
  /\ IsFiniteSet(Addrs) /\ Cardinality(Addrs) >= PoolSize
  /\ NoSession \notin Addrs
  /\ MaxUses \in Nat /\ MaxFaults \in Nat

VARIABLES
  slots,      \* allConnections_
  free,       \* freeConnections_, oldest first
  poolReady,  \* poolReady_
  live,       \* the addresses that hold a Session object
  broken,     \* the live sessions whose connection is gone
  pc,         \* where a thread is in acquire(), release() or its handler
  sess,       \* the session (or the address of the deleted one) a thread works on
  healed,     \* the session createSession_() is making, before its slot knows it
  attempts,   \* of healSession_(), that have failed
  leaked,     \* the live sessions that createSession_() made and lost
  notified,   \* the waiting threads that poolCV_ has woken
  dbUp,       \* the server accepts connections
  uses, faults

poolVars == <<slots, free, poolReady, live, leaked>>
serverVars == <<dbUp, broken, faults>>
vars == <<poolVars, serverVars, pc, sess, healed, attempts, notified, uses>>

Slots == 1..PoolSize

Waiting == {t \in Threads : pc[t] = "waiting"}

(* Threads whose sess is a session they may use: from the pop to the push. *)
CheckedOut == {t \in Threads : pc[t] \in {"pinging", "using"}}

(* initPool(): at least one slot got its connection; the others never      *)
(* exist, and any of its attempts may have lost a session.                 *)
Init ==
  /\ \E k \in 1..PoolSize : \E s \in [1..k -> Addrs] :
       /\ IsInjective(s)
       /\ slots = s /\ free = s
       /\ leaked \in SUBSET (Addrs \ ToSet(s)) /\ live = ToSet(s) \cup leaked
  /\ poolReady = TRUE
  /\ broken = {}
  /\ pc = [t \in Threads |-> "idle"]
  /\ sess = [t \in Threads |-> NoSession]
  /\ healed = [t \in Threads |-> NoSession]
  /\ attempts = [t \in Threads |-> 0]
  /\ notified = {}
  /\ dbUp = TRUE
  /\ uses = 0
  /\ faults = 0

(***************************************************************************)
(* acquire()                                                               *)
(***************************************************************************)

(* The head of the queue goes to t, which leaves the mutex to ping it. *)
Pop(t) ==
  /\ free # <<>>
  /\ sess' = [sess EXCEPT ![t] = Head(free)]
  /\ free' = Tail(free)
  /\ pc' = [pc EXCEPT ![t] = "pinging"]

(* wait_for finds the queue empty and gives up the mutex. *)
Ask(t) ==
  /\ pc[t] = "idle" /\ uses < MaxUses /\ poolReady
  /\ uses' = uses + 1
  /\ \/ Pop(t)
     \/ free = <<>> /\ pc' = [pc EXCEPT ![t] = "waiting"] /\ UNCHANGED <<free, sess>>
  /\ UNCHANGED <<slots, poolReady, live, leaked, serverVars, healed, attempts, notified>>

(* A notified thread gets the mutex back and tests the queue again: a      *)
(* newcomer may have emptied it meanwhile, and it waits on.                *)
Recheck(t) ==
  /\ pc[t] = "waiting" /\ t \in notified
  /\ notified' = notified \ {t}
  /\ \/ Pop(t)
     \/ free = <<>> /\ UNCHANGED <<free, sess, pc>>
  /\ UNCHANGED <<slots, poolReady, live, leaked, serverVars, healed, attempts, uses>>

(* POOL_TIMEOUT_MS is over: the queue is tested a last time, and acquire() *)
(* throws if it is empty.                                                  *)
TimeOut(t) ==
  /\ pc[t] = "waiting"
  /\ notified' = notified \ {t}
  /\ \/ Pop(t)
     \/ free = <<>> /\ pc' = [pc EXCEPT ![t] = "idle"] /\ UNCHANGED <<free, sess>>
  /\ UNCHANGED <<slots, poolReady, live, leaked, serverVars, healed, attempts, uses>>

(* tryAcquire(): no wait and no ping.  Part of the pool's interface, though *)
(* no handler calls it.                                                    *)
TryAcquire(t) ==
  /\ pc[t] = "idle" /\ uses < MaxUses /\ free # <<>>
  /\ uses' = uses + 1
  /\ sess' = [sess EXCEPT ![t] = Head(free)]
  /\ free' = Tail(free)
  /\ pc' = [pc EXCEPT ![t] = "using"]
  /\ UNCHANGED <<slots, poolReady, live, leaked, serverVars, healed, attempts, notified>>

PingOk(t) ==
  /\ pc[t] = "pinging" /\ sess[t] \notin broken
  /\ pc' = [pc EXCEPT ![t] = "using"]
  /\ UNCHANGED <<poolVars, serverVars, sess, healed, attempts, notified, uses>>

(* The ping fails: healSession_() closes and deletes the session first. *)
PingFail(t) ==
  /\ pc[t] = "pinging" /\ sess[t] \in broken
  /\ live' = live \ {sess[t]}
  /\ broken' = broken \ {sess[t]}
  /\ pc' = [pc EXCEPT ![t] = "healing"]
  /\ UNCHANGED <<slots, free, poolReady, leaked, dbUp, faults, sess, healed, attempts, notified, uses>>

(* new Session: a connection, at any address that is not in use. *)
NewSession(t) ==
  /\ pc[t] = "healing" /\ dbUp
  /\ \E n \in Addrs \ live :
       /\ live' = live \cup {n}
       /\ healed' = [healed EXCEPT ![t] = n]
  /\ pc' = [pc EXCEPT ![t] = "selecting"]
  /\ UNCHANGED <<slots, free, poolReady, leaked, serverVars, sess, attempts, notified, uses>>

(* An attempt failed: after HEALTH_CHECK_RETRIES of them healSession_()    *)
(* throws; they follow each other at once.                                 *)
AttemptFailed(t) ==
  LET last == attempts[t] + 1 = Retries
  IN  /\ attempts' = [attempts EXCEPT ![t] = IF last THEN 0 ELSE @ + 1]
      /\ pc' = [pc EXCEPT ![t] = IF last THEN "unlinking" ELSE "healing"]

(* The server is down, or there is no room for another session.            *)
NewSessionFails(t) ==
  /\ pc[t] = "healing" /\ (~dbUp \/ Addrs \subseteq live)
  /\ AttemptFailed(t)
  /\ UNCHANGED <<poolVars, serverVars, sess, healed, notified, uses>>

UseSchema(t) ==
  /\ pc[t] = "selecting" /\ healed[t] \notin broken
  /\ attempts' = [attempts EXCEPT ![t] = 0]
  /\ pc' = [pc EXCEPT ![t] = "relinking"]
  /\ UNCHANGED <<poolVars, serverVars, sess, healed, notified, uses>>

(* USE throws: the connection is gone, or the server refuses it.  Nothing  *)
(* deletes the session.                                                    *)
UseSchemaFails(t) ==
  /\ pc[t] = "selecting"
  /\ \/ healed[t] \in broken /\ UNCHANGED faults
     \/ faults < MaxFaults /\ faults' = faults + 1
  /\ leaked' = leaked \cup {healed[t]}
  /\ healed' = [healed EXCEPT ![t] = NoSession]
  /\ AttemptFailed(t)
  /\ UNCHANGED <<slots, free, poolReady, live, dbUp, broken, sess, notified, uses>>

(* A slip in ReplaceStale: the loop goes on after the first match. *)
ReplaceEvery(old, new) ==
  slots' = [i \in DOMAIN slots |-> IF slots[i] = old THEN new ELSE slots[i]]

(* The loop over allConnections_: the first slot with the stale address. *)
ReplaceStale(old, new) ==
  LET hits == {i \in DOMAIN slots : slots[i] = old}
  IN  slots' = [i \in DOMAIN slots |->
                  IF i \in hits /\ \A j \in hits : i <= j THEN new ELSE slots[i]]

Relink(t) ==
  /\ pc[t] = "relinking"
  /\ ReplaceStale(sess[t], healed[t])
  /\ sess' = [sess EXCEPT ![t] = healed[t]]
  /\ healed' = [healed EXCEPT ![t] = NoSession]
  /\ pc' = [pc EXCEPT ![t] = "using"]
  /\ UNCHANGED <<free, poolReady, live, leaked, serverVars, attempts, notified, uses>>

(* The slot of the session that could not be healed becomes nullptr, and   *)
(* acquire() throws.                                                       *)
Unlink(t) ==
  /\ pc[t] = "unlinking"
  /\ ReplaceStale(sess[t], NoSession)
  /\ sess' = [sess EXCEPT ![t] = NoSession]
  /\ pc' = [pc EXCEPT ![t] = "idle"]
  /\ UNCHANGED <<free, poolReady, live, leaked, serverVars, healed, attempts, notified, uses>>

(***************************************************************************)
(* release(), by ~ScopedConnection: push, then notify outside the mutex    *)
(***************************************************************************)

(* A slip in Push: no notification follows. *)
PushSilently(t) ==
  /\ pc[t] = "using"
  /\ free' = Append(free, sess[t])
  /\ sess' = [sess EXCEPT ![t] = NoSession]
  /\ pc' = [pc EXCEPT ![t] = "idle"]
  /\ UNCHANGED <<slots, poolReady, live, leaked, serverVars, healed, attempts, notified, uses>>

(* A slip in Push: the thread forgets that the session is no longer its own. *)
PushAndKeepUsing(t) ==
  /\ pc[t] = "using"
  /\ free' = Append(free, sess[t])
  /\ UNCHANGED <<slots, poolReady, live, leaked, serverVars, healed, attempts, notified, uses, sess, pc>>

Push(t) ==
  /\ pc[t] = "using"
  /\ free' = Append(free, sess[t])
  /\ sess' = [sess EXCEPT ![t] = NoSession]
  /\ pc' = [pc EXCEPT ![t] = "notifying"]
  /\ UNCHANGED <<slots, poolReady, live, leaked, serverVars, healed, attempts, notified, uses>>

(* notify_one wakes one thread blocked in the wait, if there is one. *)
Notify(t) ==
  /\ pc[t] = "notifying"
  /\ \/ \E u \in Waiting \ notified : notified' = notified \cup {u}
     \/ Waiting \subseteq notified /\ UNCHANGED notified
  /\ pc' = [pc EXCEPT ![t] = "idle"]
  /\ UNCHANGED <<poolVars, serverVars, sess, healed, attempts, uses>>

(***************************************************************************)
(* destroyPool(), after listen() returned and the workers are joined       *)
(***************************************************************************)
Destroy ==
  /\ poolReady
  /\ \A t \in Threads : pc[t] = "idle"
  /\ live' = live \ ToSet(slots)
  /\ broken' = broken \ ToSet(slots)
  /\ free' = <<>> /\ slots' = <<>> /\ poolReady' = FALSE
  /\ UNCHANGED <<leaked, dbUp, faults, pc, sess, healed, attempts, notified, uses>>

(***************************************************************************)
(* The server and the network                                              *)
(***************************************************************************)

(* The server stops: every session breaks, new ones cannot be made. *)
ServerDown ==
  /\ dbUp /\ faults < MaxFaults
  /\ dbUp' = FALSE /\ broken' = live /\ faults' = faults + 1
  /\ UNCHANGED <<poolVars, pc, sess, healed, attempts, notified, uses>>

ServerUp ==
  /\ ~dbUp /\ dbUp' = TRUE
  /\ UNCHANGED <<poolVars, broken, faults, pc, sess, healed, attempts, notified, uses>>

(* One connection breaks (wait_timeout, a reset). *)
ConnectionLost ==
  /\ faults < MaxFaults
  /\ \E s \in live \ broken : broken' = broken \cup {s}
  /\ faults' = faults + 1
  /\ UNCHANGED <<poolVars, dbUp, pc, sess, healed, attempts, notified, uses>>

(***************************************************************************)
(* The specification                                                       *)
(***************************************************************************)

(* What a thread does once it has asked, the time-out excepted. *)
Proceed(t) ==
  \/ Recheck(t) \/ PingOk(t) \/ PingFail(t) \/ NewSession(t) \/ NewSessionFails(t)
  \/ UseSchema(t) \/ UseSchemaFails(t) \/ Relink(t) \/ Unlink(t) \/ Push(t) \/ Notify(t)

Stopped == ~poolReady /\ UNCHANGED vars

Next ==
  \/ \E t \in Threads : Ask(t) \/ TryAcquire(t) \/ TimeOut(t) \/ Proceed(t)
  \/ Destroy \/ ServerDown \/ ServerUp \/ ConnectionLost \/ Stopped

Spec == Init /\ [][Next]_vars

(* Threads run, handlers return, and a server that is down comes back.     *)
(* Nothing is assumed of the 5 s time-out: waiting must end without it.    *)
FairSpec == Spec /\ (\A t \in Threads : WF_vars(Proceed(t))) /\ WF_vars(ServerUp)

(***************************************************************************)
(* Properties                                                              *)
(***************************************************************************)

TypeOK ==
  /\ slots \in Seq(Addrs \cup {NoSession})
  /\ free \in Seq(Addrs)
  /\ live \subseteq Addrs /\ broken \subseteq live /\ leaked \subseteq live
  /\ pc \in [Threads -> {"idle", "waiting", "pinging", "healing", "selecting",
                         "relinking", "unlinking", "using", "notifying"}]
  /\ sess \in [Threads -> Addrs \cup {NoSession}]
  /\ healed \in [Threads -> Addrs \cup {NoSession}]
  /\ attempts \in [Threads -> 0..(Retries - 1)]
  /\ notified \subseteq Threads
  /\ poolReady \in BOOLEAN /\ dbUp \in BOOLEAN
  /\ uses \in 0..MaxUses /\ faults \in 0..MaxFaults

(* A session is used by one thread at a time and is not in the free queue  *)
(* while it is used (Session is not thread-safe); the queue never holds it *)
(* twice, and neither the queue nor a user ever has a deleted session.     *)
ExclusiveUse ==
  /\ \A t, u \in CheckedOut : sess[t] = sess[u] => t = u
  /\ \A t \in CheckedOut : sess[t] \in live \ ToSet(free)
  /\ IsInjective(free)
  /\ ToSet(free) \subseteq live

(* A session is being made, or is owned by exactly one slot, or was lost   *)
(* to a failing USE and is owned by none; and every address in a slot is   *)
(* that of such a session or of the deleted one a thread is replacing just *)
(* now.  It holds although a healing thread compares with the address of a *)
(* session it has deleted, which the allocator may have given to another   *)
(* thread's healed session: the slots are then swapped, not lost.          *)
SlotsOwnSessions ==
  LET replacing == {t \in Threads : pc[t] \in {"healing", "selecting", "relinking", "unlinking"}}
      count(x) == Cardinality({i \in DOMAIN slots : slots[i] = x})
      linked == live \ (leaked \cup {healed[t] : t \in replacing})
  IN  \A x \in Addrs :
        count(x) = (IF x \in linked THEN 1 ELSE 0)
                   + Cardinality({t \in replacing : sess[t] = x})

(* A thread that waits is served by a release, without help of its         *)
(* time-out, as long as the pool has a session left.                       *)
WaitersServed ==
  \A t \in Threads : pc[t] = "waiting" ~> pc[t] # "waiting" \/ live \subseteq leaked
=============================================================================
