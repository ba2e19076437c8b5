------------------------- MODULE AccountLockManager -------------------------
(***************************************************************************)
(* include/AccountLockManager.h: the process-wide lock table every balance *)
(* change goes through, and the threads that use it.                       *)
(*                                                                         *)
(* states_ maps an account number to an AccountState; an entry is created  *)
(* by the first acquire() and erased by the last release().  Both methods  *)
(* run under mutex_, so each is one atomic step here, except that a thread *)
(* that must wait leaves mutex_ inside cv.wait and re-enters it in a step  *)
(* of its own (Wake), some time after a releaser has set its node's ready  *)
(* flag.  The lock is handed over in the releaser's step: isLocked never   *)
(* becomes false in between.                                               *)
(*                                                                         *)
(* A thread runs transactions one after the other.  A transaction's plan   *)
(* says which accounts it locks and with which priority: one account for   *)
(* ATM, POS, e-commerce, QR, RingPay, cardless cash, reversal and freeze,  *)
(* two for a mobile transfer (DEBIT on the source, CREDIT on the           *)
(* destination), always locked in ascending account order (mobile.cpp).    *)
(* The 50 ms head start acquire() gives CREDITs is a delay before mutex_   *)
(* is taken; in an untimed model it is the freedom of the interleaving.    *)
(***************************************************************************)
EXTENDS Integers, FiniteSets

CONSTANTS
  Threads,      \* the HTTP server's worker threads
  Accounts,     \* account numbers, ordered as the code's strings are
  MaxTxns,      \* how many transactions a thread runs (a bound, not in the code)
  NoAccount     \* the value of node[t] while thread t has no WaitNode

ASSUME LockAssumption ==
  /\ IsFiniteSet(Threads)
  /\ Accounts \subseteq Nat
  /\ MaxTxns \in Nat
  /\ NoAccount \notin Accounts

VARIABLES
  \* states_, field by field
  known,          \* the accounts that have an entry
  activeCredits,  \* CREDITs that registered and did not release yet
  activeDebits,   \* DEBITs that registered and did not release yet
  isLocked,
  waiters,        \* the threads whose WaitNode is in the priority queue
  \* the threads
  pc,             \* "idle", "entering", "queued" (in cv.wait) or "leaving"
  plan,           \* plan[t][a]: the priority of t's ScopedLock on a, or "none"
  held,           \* the accounts whose ScopedLock t has constructed
  node,           \* the account t's WaitNode was pushed for, or NoAccount
  ready,          \* the threads whose WaitNode.ready is set
  begun           \* how many transactions the thread has begun

lockVars == <<known, activeCredits, activeDebits, isLocked, waiters>>
threadVars == <<pc, plan, held, node, ready, begun>>
vars == <<lockVars, threadVars>>

Prio == {"CREDIT", "DEBIT"}

Plans == [Accounts -> Prio \cup {"none"}]

(* The plans of the channels: one lock on one account ... *)
SingleLock(p) ==
  \E a \in Accounts : p[a] # "none" /\ \A b \in Accounts \ {a} : p[b] = "none"

(* ... or the two locks of a transfer. *)
TransferLocks(p) ==
  \E a, b \in Accounts :
    /\ p[a] = "DEBIT" /\ p[b] = "CREDIT"
    /\ \A c \in Accounts \ {a, b} : p[c] = "none"

ChannelPlans == {p \in Plans : SingleLock(p) \/ TransferLocks(p)}

(***************************************************************************)
(* Helpers                                                                 *)
(***************************************************************************)

(* A slip in NextToLock: a transfer takes its two locks in any order. *)
NextToLockUnordered(t, a) == plan[t][a] # "none" /\ a \notin held[t]

(* a is the next account t's plan locks: the lowest one not yet held. *)
NextToLock(t, a) ==
  /\ plan[t][a] # "none"
  /\ a \notin held[t]
  /\ \A b \in Accounts : plan[t][b] # "none" /\ b < a => b \in held[t]

AllHeld(t) == \A a \in Accounts : plan[t][a] # "none" => a \in held[t]

(* t owns the lock of a: it returned from acquire(), or a releaser has     *)
(* handed it the lock and it has not run yet.                              *)
Owns(t, a) == a \in held[t] \/ (node[t] = a /\ t \in ready)

(* t is counted in activeCredits or activeDebits of a. *)
Registered(t, a) == Owns(t, a) \/ t \in waiters[a]

RegisteredWith(a, k) == {t \in Threads : Registered(t, a) /\ plan[t][a] = k}

(* acquire(): states_[account], then the counter of the priority. *)
Register(t, a) ==
  /\ known' = known \cup {a}
  /\ activeCredits' = [activeCredits EXCEPT ![a] =
                         IF plan[t][a] = "CREDIT" THEN @ + 1 ELSE @]
  /\ activeDebits' = [activeDebits EXCEPT ![a] =
                         IF plan[t][a] = "DEBIT" THEN @ + 1 ELSE @]

(* A slip in Deregister: every release is taken for a CREDIT's. *)
DeregisterCreditOnly(t, a) ==
  /\ activeCredits' = [activeCredits EXCEPT ![a] = @ - 1]
  /\ UNCHANGED activeDebits

(* release(): the counter of the priority. *)
Deregister(t, a) ==
  /\ activeCredits' = [activeCredits EXCEPT ![a] =
                         IF plan[t][a] = "CREDIT" THEN @ - 1 ELSE @]
  /\ activeDebits' = [activeDebits EXCEPT ![a] =
                         IF plan[t][a] = "DEBIT" THEN @ - 1 ELSE @]

(* A slip in ShouldWait: only the credit gate is tested. *)
ShouldWaitForCreditsOnly(t, a) ==
  plan[t][a] = "DEBIT" /\ activeCredits[a] > 0

ShouldWait(t, a) ==
  \/ isLocked[a]
  \/ plan[t][a] = "DEBIT" /\ activeCredits[a] > 0

(* A slip in Top: any waiter may be popped. *)
TopUnordered(u, a) == u \in waiters[a]

(* u may be waiters.top(): std::priority_queue leaves the order among      *)
(* equal priorities open.                                                  *)
Top(u, a) ==
  /\ u \in waiters[a]
  /\ \A v \in waiters[a] : plan[v][a] = "CREDIT" => plan[u][a] = "CREDIT"

(***************************************************************************)
(* The initial state: no entry, no transaction.                            *)
(***************************************************************************)
Init ==
  /\ known = {}
  /\ activeCredits = [a \in Accounts |-> 0]
  /\ activeDebits = [a \in Accounts |-> 0]
  /\ isLocked = [a \in Accounts |-> FALSE]
  /\ waiters = [a \in Accounts |-> {}]
  /\ pc = [t \in Threads |-> "idle"]
  /\ plan = [t \in Threads |-> [a \in Accounts |-> "none"]]
  /\ held = [t \in Threads |-> {}]
  /\ node = [t \in Threads |-> NoAccount]
  /\ ready = {}
  /\ begun = [t \in Threads |-> 0]

(***************************************************************************)
(* The actions of a thread t                                               *)
(***************************************************************************)

(* A request reaches the point where its handler takes its account locks. *)
Begin(t) ==
  /\ pc[t] = "idle"
  /\ begun[t] < MaxTxns
  /\ \E p \in ChannelPlans : plan' = [plan EXCEPT ![t] = p]
  /\ pc' = [pc EXCEPT ![t] = "entering"]
  /\ begun' = [begun EXCEPT ![t] = @ + 1]
  /\ UNCHANGED <<lockVars, held, node, ready>>

(* acquire() returns at once: the lock is free. *)
AcquireFree(t, a) ==
  /\ pc[t] = "entering"
  /\ NextToLock(t, a)
  /\ ~ShouldWait(t, a)
  /\ Register(t, a)
  /\ isLocked' = [isLocked EXCEPT ![a] = TRUE]
  /\ held' = [held EXCEPT ![t] = @ \cup {a}]
  /\ UNCHANGED <<waiters, pc, plan, node, ready, begun>>

(* acquire() pushes a WaitNode and waits in cv.wait, mutex_ released. *)
AcquireBusy(t, a) ==
  /\ pc[t] = "entering"
  /\ NextToLock(t, a)
  /\ ShouldWait(t, a)
  /\ Register(t, a)
  /\ waiters' = [waiters EXCEPT ![a] = @ \cup {t}]
  /\ node' = [node EXCEPT ![t] = a]
  /\ pc' = [pc EXCEPT ![t] = "queued"]
  /\ UNCHANGED <<isLocked, plan, held, ready, begun>>

(* cv.wait returns: node.ready is set, and acquire() returns. *)
Wake(t) ==
  /\ pc[t] = "queued"
  /\ t \in ready
  /\ held' = [held EXCEPT ![t] = @ \cup {node[t]}]
  /\ node' = [node EXCEPT ![t] = NoAccount]
  /\ ready' = ready \ {t}
  /\ pc' = [pc EXCEPT ![t] = "entering"]
  /\ UNCHANGED <<lockVars, plan, begun>>

(* ~ScopedLock: the locks go in reverse order of construction, and the     *)
(* transaction ends with the last one.                                     *)
Releasing(t, a) ==
  /\ pc[t] = "leaving" \/ (pc[t] = "entering" /\ AllHeld(t))
  /\ a \in held[t]
  /\ \A b \in held[t] : b <= a
  /\ a \in known                    \* it != states_.end()
  /\ held' = [held EXCEPT ![t] = @ \ {a}]
  /\ pc' = [pc EXCEPT ![t] = IF held[t] = {a} THEN "idle" ELSE "leaving"]
  /\ UNCHANGED <<plan, node, begun>>

(* release() with waiters: the top one gets the lock, isLocked stays true. *)
HandOff(t, a) ==
  /\ Releasing(t, a)
  /\ Deregister(t, a)
  /\ \E u \in Threads :
       /\ Top(u, a)
       /\ waiters' = [waiters EXCEPT ![a] = @ \ {u}]
       /\ ready' = ready \cup {u}
  /\ UNCHANGED <<known, isLocked>>

(* release() without waiters: the lock is free, and the entry is erased    *)
(* when nobody is registered any more.                                     *)
Unlock(t, a) ==
  /\ Releasing(t, a)
  /\ Deregister(t, a)
  /\ waiters[a] = {}
  /\ isLocked' = [isLocked EXCEPT ![a] = FALSE]
  /\ known' = IF activeCredits'[a] = 0 /\ activeDebits'[a] = 0
              THEN known \ {a} ELSE known
  /\ UNCHANGED <<waiters, ready>>

(* Every thread has run all its transactions: the model's arrivals end. *)
Finished ==
  /\ \A t \in Threads : pc[t] = "idle" /\ begun[t] = MaxTxns
  /\ UNCHANGED vars

(* What a thread does by itself once its transaction has begun. *)
Step(t) ==
  \/ Wake(t)
  \/ \E a \in Accounts :
       AcquireFree(t, a) \/ AcquireBusy(t, a) \/ HandOff(t, a) \/ Unlock(t, a)

Next == (\E t \in Threads : Begin(t) \/ Step(t)) \/ Finished

Spec == Init /\ [][Next]_vars

(* mutex_ is granted and threads are scheduled: a thread that can take its *)
(* next step takes it.  Arrivals (Begin) are not fair.                     *)
FairSpec == Spec /\ \A t \in Threads : WF_vars(Step(t))

(***************************************************************************)
(* Properties                                                              *)
(***************************************************************************)

TypeOK ==
  /\ known \subseteq Accounts
  /\ activeCredits \in [Accounts -> Int]
  /\ activeDebits \in [Accounts -> Int]
  /\ isLocked \in [Accounts -> BOOLEAN]
  /\ waiters \in [Accounts -> SUBSET Threads]
  /\ pc \in [Threads -> {"idle", "entering", "queued", "leaving"}]
  /\ plan \in [Threads -> Plans]
  /\ held \in [Threads -> SUBSET Accounts]
  /\ node \in [Threads -> Accounts \cup {NoAccount}]
  /\ ready \subseteq Threads
  /\ begun \in [Threads -> 0..MaxTxns]

(* Two threads never own one account at a time, not even in the window     *)
(* between a hand-off (release sets node.ready) and the waiter's wake-up.  *)
MutualExclusion ==
  \A a \in Accounts : \A t, u \in Threads : Owns(t, a) /\ Owns(u, a) => t = u

(* The counters count exactly the threads between acquire() and release(), *)
(* across the erasing and re-creating of the entry: the reader of          *)
(* activeCredits in acquire() is never misled by a lost or stale count.    *)
CountersExact ==
  \A a \in Accounts :
    /\ activeCredits[a] = Cardinality(RegisteredWith(a, "CREDIT"))
    /\ activeDebits[a] = Cardinality(RegisteredWith(a, "DEBIT"))

(* states_ has an entry for exactly the accounts some thread has           *)
(* registered on: no entry is erased under a waiter (its WaitNode would    *)
(* never be popped), and none outlives its users (a leak per account).     *)
EntriesMatchUse ==
  known = {a \in Accounts : \E t \in Threads : Registered(t, a)}

(* The bookkeeping of the lock table: both of these hold at any time.      *)
BookkeepingExact == CountersExact /\ EntriesMatchUse

(* A thread that waits for an account holds only lower accounts, so no     *)
(* cycle of waiting transfers exists (mobile.cpp's ascending order).       *)
WaitsAscending ==
  \A t \in Threads : pc[t] = "queued" => \A b \in held[t] : b < node[t]

(* A DEBIT never comes to own an account while a CREDIT is registered on   *)
(* it: the comment in release() says a popped DEBIT with activeCredits > 0 *)
(* "shouldn't happen", and the code does not test for it.                  *)
DebitYieldsToCredits ==
  [][\A t \in Threads, a \in Accounts :
       Owns(t, a)' /\ ~Owns(t, a) /\ plan[t][a] = "DEBIT" => activeCredits'[a] = 0]_vars

(* Once the arrivals end, every transaction gets all its locks and returns *)
(* them: no lost wake-up, no deadlock between opposite transfers, no DEBIT *)
(* left behind.                                                            *)
EveryTransactionEnds ==
  \A t \in Threads : pc[t] # "idle" ~> pc[t] = "idle"

(***************************************************************************)
(* The manager implements PriorityMutex: a thread holds an account from    *)
(* the hand-off, and Begin and Wake are steps PriorityMutex does not see.  *)
(***************************************************************************)
WaitingWith(k) ==
  [a \in Accounts |-> {t \in waiters[a] : plan[t][a] = k}]

Abstract == INSTANCE PriorityMutex WITH
  holder <- [a \in Accounts |-> {t \in Threads : Owns(t, a)}],
  waitingCredits <- WaitingWith("CREDIT"),
  waitingDebits <- WaitingWith("DEBIT")

(* Every behaviour of the lock table is one PriorityMutex allows. *)
ImplementsPriorityMutex == Abstract!Spec
=============================================================================
