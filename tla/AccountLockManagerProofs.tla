----------------------- MODULE AccountLockManagerProofs -----------------------
(***************************************************************************)
(* Proofs about AccountLockManager, for any finite set of threads, any set *)
(* of account numbers and any number of transactions.                      *)
(***************************************************************************)
EXTENDS AccountLockManager, FiniteSetTheorems, TLAPS

(***************************************************************************)
(* The inductive invariant                                                 *)
(***************************************************************************)

(* A WaitNode exists exactly while its thread is in cv.wait; it is in the  *)
(* queue of its account until a releaser sets its ready flag.              *)
NodesOK ==
  \A t \in Threads :
    /\ pc[t] = "queued" <=> node[t] \in Accounts
    /\ t \in ready => node[t] \in Accounts
    /\ \A a \in Accounts : t \in waiters[a] <=> node[t] = a /\ t \notin ready

(* A thread holds a prefix of its plan, and waits for an account outside it. *)
PlansOK ==
  \A t \in Threads :
    /\ pc[t] = "idle" => held[t] = {}
    /\ \A a \in held[t] : plan[t][a] # "none"
    /\ \A a \in held[t], b \in Accounts : plan[t][b] # "none" /\ b < a => b \in held[t]
    /\ node[t] \in Accounts => plan[t][node[t]] # "none" /\ node[t] \notin held[t]
    /\ node[t] \in Accounts => NextToLock(t, node[t])

(* isLocked says whether somebody owns the account, and only an owned      *)
(* account has waiters: the next release will serve them.                  *)
LocksOK ==
  \A a \in Accounts :
    /\ isLocked[a] <=> \E t \in Threads : Owns(t, a)
    /\ waiters[a] # {} => isLocked[a]

IInv ==
  /\ TypeOK
  /\ NodesOK
  /\ PlansOK
  /\ LocksOK
  /\ MutualExclusion
  /\ CountersExact
  /\ EntriesMatchUse

(***************************************************************************)
(* Facts about a state that satisfies the invariant                        *)
(***************************************************************************)

(* The counters are natural numbers, zero exactly when nobody is counted.  *)
LEMMA CountersAreNat ==
  ASSUME TypeOK, CountersExact, NEW a \in Accounts
  PROVE  /\ activeCredits[a] \in Nat /\ activeDebits[a] \in Nat
         /\ activeCredits[a] = 0 <=> RegisteredWith(a, "CREDIT") = {}
         /\ activeDebits[a] = 0 <=> RegisteredWith(a, "DEBIT") = {}
<1>1. \A k \in Prio : IsFiniteSet(RegisteredWith(a, k))
  BY FS_Subset, LockAssumption DEF RegisteredWith
<1>2. QED
  BY <1>1, FS_CardinalityType, FS_EmptySet DEF CountersExact, Prio

(* The second half of acquire()'s shouldWait never decides: a registered   *)
(* CREDIT implies that the account is locked already.                      *)
LEMMA CreditsImplyLocked ==
  ASSUME IInv, NEW a \in Accounts, activeCredits[a] > 0
  PROVE  isLocked[a]
<1>1. PICK t \in Threads : Registered(t, a)
  BY CountersAreNat DEF IInv, RegisteredWith
<1>2. QED
  BY <1>1 DEF IInv, LocksOK, Registered

(* A thread between two calls of the manager is registered on exactly the  *)
(* accounts it holds.                                                      *)
LEMMA NotQueued ==
  ASSUME IInv, NEW t \in Threads, NEW a \in Accounts, pc[t] # "queued"
  PROVE  /\ node[t] = NoAccount
         /\ t \notin ready
         /\ t \notin waiters[a]
         /\ Registered(t, a) <=> a \in held[t]
BY LockAssumption DEF IInv, TypeOK, NodesOK, Registered, Owns

(***************************************************************************)
(* How each action changes who is registered                               *)
(***************************************************************************)

LEMMA BeginRegistered ==
  ASSUME IInv, NEW t \in Threads, Begin(t), NEW u \in Threads, NEW a \in Accounts
  PROVE  /\ Owns(u, a)' <=> Owns(u, a)
         /\ Registered(u, a)' <=> Registered(u, a)
         /\ Registered(u, a) => plan'[u][a] = plan[u][a]
<1>1. Owns(u, a)' <=> Owns(u, a)
  BY DEF Begin, Owns
<1>2. Registered(u, a)' <=> Registered(u, a)
  BY <1>1 DEF Begin, Registered, lockVars
<1>3. Registered(u, a) => u # t
  BY NotQueued DEF Begin, IInv, PlansOK
<1>4. QED
  BY <1>1, <1>2, <1>3 DEF Begin, IInv, TypeOK

LEMMA AcquireRegistered ==
  ASSUME IInv, NEW t \in Threads, NEW a \in Accounts,
         AcquireFree(t, a) \/ AcquireBusy(t, a)
  PROVE  /\ ~Registered(t, a)
         /\ plan' = plan
         /\ \A u \in Threads, b \in Accounts :
              Registered(u, b)' <=> Registered(u, b) \/ (u = t /\ b = a)
<1>0. TypeOK /\ node[t] = NoAccount /\ t \notin ready /\ a \notin held[t] /\ NoAccount \notin Accounts
  BY NotQueued, LockAssumption DEF AcquireFree, AcquireBusy, NextToLock, IInv
<1>1. ~Registered(t, a)
  BY <1>0, NotQueued DEF AcquireFree, AcquireBusy
<1>2. CASE AcquireFree(t, a)
  BY <1>0, <1>1, <1>2 DEF AcquireFree, Registered, Owns, TypeOK
<1>3. CASE AcquireBusy(t, a)
  BY <1>0, <1>1, <1>3 DEF AcquireBusy, Registered, Owns, TypeOK
<1>4. QED
  BY <1>2, <1>3

LEMMA WakeRegistered ==
  ASSUME IInv, NEW t \in Threads, Wake(t), NEW u \in Threads, NEW a \in Accounts
  PROVE  /\ Owns(u, a)' <=> Owns(u, a)
         /\ Registered(u, a)' <=> Registered(u, a)
<1>1. node[t] \in Accounts /\ NoAccount \notin Accounts /\ TypeOK
  BY LockAssumption DEF Wake, IInv, NodesOK
<1>2. Owns(u, a)' <=> Owns(u, a)
  BY <1>1 DEF Wake, Owns, TypeOK
<1>3. QED
  BY <1>2 DEF Wake, Registered, lockVars

LEMMA HandOffRegistered ==
  ASSUME IInv, NEW t \in Threads, NEW a \in Accounts, HandOff(t, a)
  PROVE  /\ Registered(t, a)
         /\ plan' = plan
         /\ \A u \in Threads, b \in Accounts :
              Registered(u, b)' <=> Registered(u, b) /\ ~(u = t /\ b = a)
<1>0. TypeOK /\ node[t] = NoAccount /\ t \notin ready /\ a \in held[t] /\ NoAccount \notin Accounts
  BY NotQueued, LockAssumption DEF HandOff, Releasing, IInv
<1>1. Registered(t, a)
  BY <1>0 DEF Registered, Owns
<1>2. PICK w \in Threads : /\ w \in waiters[a]
                           /\ waiters' = [waiters EXCEPT ![a] = @ \ {w}]
                           /\ ready' = ready \cup {w}
  BY DEF HandOff, Top
<1>3. node[w] = a /\ w # t
  BY <1>0, <1>2 DEF IInv, NodesOK
<1>4. plan' = plan /\ node' = node /\ held' = [held EXCEPT ![t] = @ \ {a}]
  BY DEF HandOff, Releasing
<1>5. ASSUME NEW u \in Threads, NEW b \in Accounts
      PROVE  Registered(u, b)' <=> Registered(u, b) /\ ~(u = t /\ b = a)
  BY <1>0, <1>2, <1>3, <1>4 DEF Registered, Owns, TypeOK, IInv, NodesOK
<1>6. QED
  BY <1>1, <1>4, <1>5

LEMMA UnlockRegistered ==
  ASSUME IInv, NEW t \in Threads, NEW a \in Accounts, Unlock(t, a)
  PROVE  /\ Registered(t, a)
         /\ plan' = plan
         /\ \A u \in Threads, b \in Accounts :
              Registered(u, b)' <=> Registered(u, b) /\ ~(u = t /\ b = a)
         /\ \A u \in Threads : ~Registered(u, a)'
<1>0. TypeOK /\ node[t] = NoAccount /\ t \notin ready /\ a \in held[t] /\ NoAccount \notin Accounts
  BY NotQueued, LockAssumption DEF Unlock, Releasing, IInv
<1>1. Registered(t, a) /\ Owns(t, a)
  BY <1>0 DEF Registered, Owns
<1>4. plan' = plan /\ node' = node /\ held' = [held EXCEPT ![t] = @ \ {a}]
  BY DEF Unlock, Releasing
<1>5. ASSUME NEW u \in Threads, NEW b \in Accounts
      PROVE  Registered(u, b)' <=> Registered(u, b) /\ ~(u = t /\ b = a)
  BY <1>0, <1>4 DEF Unlock, Registered, Owns, TypeOK
<1>6. ASSUME NEW u \in Threads PROVE Registered(u, a) => u = t
  BY <1>1 DEF Unlock, Registered, IInv, MutualExclusion
<1>7. QED
  BY <1>1, <1>4, <1>5, <1>6

(***************************************************************************)
(* The conjuncts of the invariant, one lemma each                          *)
(***************************************************************************)

LEMMA TypeNext ==
  ASSUME IInv, [Next]_vars
  PROVE  TypeOK'
<1>0. TypeOK /\ NoAccount \notin Accounts /\ MaxTxns \in Nat
  BY LockAssumption DEF IInv
<1>1. ASSUME NEW t \in Threads, Begin(t) PROVE TypeOK'
  BY <1>0, <1>1 DEF Begin, ChannelPlans, TypeOK, lockVars
<1>2. ASSUME NEW t \in Threads, Wake(t) PROVE TypeOK'
  <2>1. node[t] \in Accounts
    BY <1>2 DEF Wake, IInv, NodesOK
  <2>2. QED
    BY <1>0, <1>2, <2>1 DEF Wake, TypeOK, lockVars
<1>3. ASSUME NEW t \in Threads, NEW a \in Accounts, AcquireFree(t, a) PROVE TypeOK'
  BY <1>0, <1>3 DEF AcquireFree, Register, TypeOK
<1>4. ASSUME NEW t \in Threads, NEW a \in Accounts, AcquireBusy(t, a) PROVE TypeOK'
  BY <1>0, <1>4 DEF AcquireBusy, Register, TypeOK
<1>5. ASSUME NEW t \in Threads, NEW a \in Accounts, HandOff(t, a) PROVE TypeOK'
  BY <1>0, <1>5 DEF HandOff, Releasing, Deregister, Top, TypeOK
<1>6. ASSUME NEW t \in Threads, NEW a \in Accounts, Unlock(t, a) PROVE TypeOK'
  BY <1>0, <1>6 DEF Unlock, Releasing, Deregister, TypeOK
<1>7. CASE UNCHANGED vars
  BY <1>0, <1>7 DEF TypeOK, vars, lockVars, threadVars
<1>8. QED
  BY <1>1, <1>2, <1>3, <1>4, <1>5, <1>6, <1>7 DEF Next, Step, Finished

LEMMA NodesNext ==
  ASSUME IInv, [Next]_vars
  PROVE  NodesOK'
<1>0. TypeOK /\ NodesOK /\ NoAccount \notin Accounts
  BY LockAssumption DEF IInv
<1>1. ASSUME NEW t \in Threads, Begin(t) PROVE NodesOK'
  BY <1>0, <1>1 DEF Begin, NodesOK, TypeOK, lockVars
<1>2. ASSUME NEW t \in Threads, Wake(t) PROVE NodesOK'
  BY <1>0, <1>2 DEF Wake, NodesOK, TypeOK, lockVars
<1>3. ASSUME NEW t \in Threads, NEW a \in Accounts, AcquireFree(t, a) PROVE NodesOK'
  BY <1>0, <1>3 DEF AcquireFree, NodesOK, TypeOK
<1>4. ASSUME NEW t \in Threads, NEW a \in Accounts, AcquireBusy(t, a) PROVE NodesOK'
  BY <1>0, <1>4 DEF AcquireBusy, NodesOK, TypeOK
<1>5. ASSUME NEW t \in Threads, NEW a \in Accounts, HandOff(t, a) PROVE NodesOK'
  <2>1. PICK w \in Threads : /\ w \in waiters[a]
                             /\ waiters' = [waiters EXCEPT ![a] = @ \ {w}]
                             /\ ready' = ready \cup {w}
    BY <1>5 DEF HandOff, Top
  <2>2. /\ pc[t] # "queued" /\ node' = node
        /\ pc' = [pc EXCEPT ![t] = IF held[t] = {a} THEN "idle" ELSE "leaving"]
    BY <1>5 DEF HandOff, Releasing
  <2>3. node[w] = a
    BY <1>0, <2>1 DEF NodesOK
  <2>4. QED
    BY <1>0, <2>1, <2>2, <2>3 DEF NodesOK, TypeOK
<1>6. ASSUME NEW t \in Threads, NEW a \in Accounts, Unlock(t, a) PROVE NodesOK'
  BY <1>0, <1>6 DEF Unlock, Releasing, NodesOK, TypeOK
<1>7. CASE UNCHANGED vars
  BY <1>0, <1>7 DEF NodesOK, vars, lockVars, threadVars
<1>8. QED
  BY <1>1, <1>2, <1>3, <1>4, <1>5, <1>6, <1>7 DEF Next, Step, Finished

LEMMA PlansNext ==
  ASSUME IInv, [Next]_vars
  PROVE  PlansOK'
<1>0. TypeOK /\ NodesOK /\ PlansOK /\ NoAccount \notin Accounts /\ Accounts \subseteq Nat
  BY LockAssumption DEF IInv
<1>1. ASSUME NEW t \in Threads, Begin(t) PROVE PlansOK'
  BY <1>0, <1>1 DEF Begin, NodesOK, PlansOK, NextToLock, TypeOK
<1>2. ASSUME NEW t \in Threads, Wake(t) PROVE PlansOK'
  <2>1. node[t] \in Accounts /\ NextToLock(t, node[t])
    BY <1>0, <1>2 DEF Wake, NodesOK, PlansOK
  <2>2. QED
    BY <1>0, <1>2, <2>1 DEF Wake, PlansOK, NextToLock, TypeOK
<1>3. ASSUME NEW t \in Threads, NEW a \in Accounts, AcquireFree(t, a) PROVE PlansOK'
  <2>1. node[t] = NoAccount
    BY <1>3, NotQueued DEF AcquireFree
  <2>2. QED
    BY <1>0, <1>3, <2>1 DEF AcquireFree, PlansOK, NextToLock, TypeOK
<1>4. ASSUME NEW t \in Threads, NEW a \in Accounts, AcquireBusy(t, a) PROVE PlansOK'
  BY <1>0, <1>4 DEF AcquireBusy, PlansOK, NextToLock, TypeOK
<1>5. ASSUME NEW t \in Threads, NEW a \in Accounts, Releasing(t, a) PROVE PlansOK'
  <2>1. node[t] = NoAccount
    BY <1>5, NotQueued DEF Releasing
  <2>2. \A b \in held[t] : b <= a
    BY <1>5 DEF Releasing
  <2>3. QED
    BY <1>0, <1>5, <2>1, <2>2 DEF Releasing, PlansOK, NextToLock, TypeOK
<1>7. CASE UNCHANGED vars
  BY <1>0, <1>7 DEF PlansOK, NextToLock, vars, lockVars, threadVars
<1>8. QED
  BY <1>1, <1>2, <1>3, <1>4, <1>5, <1>7 DEF Next, Step, Finished, HandOff, Unlock

(* Who owns an account after a step, and the lock word.                    *)
LEMMA LocksNext ==
  ASSUME IInv, [Next]_vars
  PROVE  LocksOK' /\ MutualExclusion'
<1>0. TypeOK /\ NodesOK /\ LocksOK /\ MutualExclusion /\ NoAccount \notin Accounts
  BY LockAssumption DEF IInv
<1>1. ASSUME NEW t \in Threads, Begin(t) PROVE LocksOK' /\ MutualExclusion'
  BY <1>0, <1>1, BeginRegistered DEF Begin, LocksOK, MutualExclusion, lockVars
<1>2. ASSUME NEW t \in Threads, Wake(t) PROVE LocksOK' /\ MutualExclusion'
  BY <1>0, <1>2, WakeRegistered DEF Wake, LocksOK, MutualExclusion, lockVars
<1>3. ASSUME NEW t \in Threads, NEW a \in Accounts, AcquireFree(t, a)
      PROVE  LocksOK' /\ MutualExclusion'
  <2>1. ~isLocked[a]
    BY <1>3 DEF AcquireFree, ShouldWait
  <2>2. \A u \in Threads : ~Owns(u, a)
    BY <1>0, <2>1 DEF LocksOK
  <2>3. \A u \in Threads, b \in Accounts : Owns(u, b)' <=> Owns(u, b) \/ (u = t /\ b = a)
    BY <1>0, <1>3 DEF AcquireFree, Owns, TypeOK
  <2>4. QED
    BY <1>0, <1>3, <2>2, <2>3 DEF AcquireFree, LocksOK, MutualExclusion, TypeOK
<1>4. ASSUME NEW t \in Threads, NEW a \in Accounts, AcquireBusy(t, a)
      PROVE  LocksOK' /\ MutualExclusion'
  <2>1. isLocked[a]
    BY <1>4, CreditsImplyLocked DEF AcquireBusy, ShouldWait
  <2>2. node[t] = NoAccount /\ t \notin ready
    BY <1>4, NotQueued DEF AcquireBusy
  <2>3. \A u \in Threads, b \in Accounts : Owns(u, b)' <=> Owns(u, b)
    BY <1>0, <1>4, <2>2 DEF AcquireBusy, Owns, TypeOK
  <2>4. QED
    BY <1>0, <1>4, <2>1, <2>3 DEF AcquireBusy, LocksOK, MutualExclusion, TypeOK
<1>5. ASSUME NEW t \in Threads, NEW a \in Accounts, HandOff(t, a)
      PROVE  LocksOK' /\ MutualExclusion'
  <2>1. PICK w \in Threads : /\ w \in waiters[a]
                             /\ waiters' = [waiters EXCEPT ![a] = @ \ {w}]
                             /\ ready' = ready \cup {w}
    BY <1>5 DEF HandOff, Top
  <2>2. node[w] = a /\ w \notin ready
    BY <1>0, <2>1 DEF NodesOK
  <2>3. node[t] = NoAccount /\ t \notin ready /\ a \in held[t]
    BY <1>5, NotQueued DEF HandOff, Releasing
  <2>4. \A u \in Threads : Owns(u, a) <=> u = t
    BY <1>0, <2>3 DEF MutualExclusion, Owns
  <2>5. \A u \in Threads : Owns(u, a)' <=> u = w
    <3>1. node' = node /\ held' = [held EXCEPT ![t] = @ \ {a}]
      BY <1>5 DEF HandOff, Releasing
    <3>2. a \notin held[w] /\ w # t
      BY <1>0, <2>2, <2>3 DEF IInv, PlansOK
    <3>3. QED
      BY <1>0, <2>1, <2>2, <2>3, <2>4, <3>1, <3>2 DEF Owns, TypeOK
  <2>6. \A u \in Threads, b \in Accounts : b # a => (Owns(u, b)' <=> Owns(u, b))
    BY <1>0, <1>5, <2>1, <2>2 DEF HandOff, Releasing, Owns, TypeOK
  <2>7. isLocked' = isLocked /\ isLocked[a]
    BY <1>0, <1>5, <2>4 DEF HandOff, LocksOK
  <2>8. QED
    BY <1>0, <2>1, <2>5, <2>6, <2>7 DEF LocksOK, MutualExclusion, TypeOK
<1>6. ASSUME NEW t \in Threads, NEW a \in Accounts, Unlock(t, a)
      PROVE  LocksOK' /\ MutualExclusion'
  <2>1. node[t] = NoAccount /\ t \notin ready /\ a \in held[t]
    BY <1>6, NotQueued DEF Unlock, Releasing
  <2>2. \A u \in Threads : Owns(u, a) <=> u = t
    BY <1>0, <2>1 DEF MutualExclusion, Owns
  <2>3. \A u \in Threads : ~Owns(u, a)'
    BY <1>0, <1>6, <2>1, <2>2 DEF Unlock, Releasing, Owns, TypeOK
  <2>4. \A u \in Threads, b \in Accounts : b # a => (Owns(u, b)' <=> Owns(u, b))
    BY <1>0, <1>6, <2>1 DEF Unlock, Releasing, Owns, TypeOK
  <2>5. QED
    BY <1>0, <1>6, <2>3, <2>4 DEF Unlock, LocksOK, MutualExclusion, TypeOK
<1>7. CASE UNCHANGED vars
  BY <1>0, <1>7 DEF LocksOK, MutualExclusion, Owns, vars, lockVars, threadVars
<1>8. QED
  BY <1>1, <1>2, <1>3, <1>4, <1>5, <1>6, <1>7 DEF Next, Step, Finished

(* The counters follow the threads that register and release.              *)
LEMMA CountersNext ==
  ASSUME IInv, [Next]_vars
  PROVE  CountersExact'
<1>0. TypeOK /\ CountersExact /\ IsFiniteSet(Threads)
  BY LockAssumption DEF IInv
<1>f. \A a \in Accounts, k \in Prio : IsFiniteSet(RegisteredWith(a, k))
  BY <1>0, FS_Subset DEF RegisteredWith
<1>n. \A a \in Accounts, k \in Prio : Cardinality(RegisteredWith(a, k)) \in Nat
  BY <1>f, FS_CardinalityType
<1>a. ASSUME NEW t \in Threads, NEW a \in Accounts,
             AcquireFree(t, a) \/ AcquireBusy(t, a)
      PROVE  CountersExact'
  <2>1. Register(t, a) /\ plan[t][a] \in Prio
    BY <1>0, <1>a DEF AcquireFree, AcquireBusy, NextToLock, TypeOK, Plans
  <2>2. \A b \in Accounts, k \in Prio :
          RegisteredWith(b, k)' = IF b = a /\ k = plan[t][a]
                                  THEN RegisteredWith(b, k) \cup {t}
                                  ELSE RegisteredWith(b, k)
    BY <1>a, AcquireRegistered DEF RegisteredWith
  <2>3. \A k \in Prio : t \notin RegisteredWith(a, k)
    BY <1>a, AcquireRegistered DEF RegisteredWith
  <2>4. \A b \in Accounts, k \in Prio :
          Cardinality(RegisteredWith(b, k)') = IF b = a /\ k = plan[t][a]
                                  THEN Cardinality(RegisteredWith(b, k)) + 1
                                  ELSE Cardinality(RegisteredWith(b, k))
    BY <1>f, <2>2, <2>3, FS_AddElement
  <2>5. QED
    BY <1>0, <1>n, <2>1, <2>4 DEF Register, CountersExact, TypeOK, Prio
<1>b. ASSUME NEW t \in Threads, NEW a \in Accounts, HandOff(t, a) \/ Unlock(t, a)
      PROVE  CountersExact'
  <2>1. Registered(t, a) /\ plan' = plan /\ Deregister(t, a) /\ a \in held[t]
    BY <1>b, HandOffRegistered, UnlockRegistered DEF HandOff, Unlock, Releasing
  <2>2. plan[t][a] \in Prio
    BY <1>0, <2>1 DEF IInv, PlansOK, TypeOK, Plans
  <2>3. \A b \in Accounts, k \in Prio :
          RegisteredWith(b, k)' = IF b = a /\ k = plan[t][a]
                                  THEN RegisteredWith(b, k) \ {t}
                                  ELSE RegisteredWith(b, k)
    BY <1>b, HandOffRegistered, UnlockRegistered DEF RegisteredWith
  <2>4. t \in RegisteredWith(a, plan[t][a])
    BY <2>1 DEF RegisteredWith
  <2>5. \A b \in Accounts, k \in Prio :
          Cardinality(RegisteredWith(b, k)') = IF b = a /\ k = plan[t][a]
                                  THEN Cardinality(RegisteredWith(b, k)) - 1
                                  ELSE Cardinality(RegisteredWith(b, k))
    BY <1>f, <2>3, <2>4, FS_RemoveElement
  <2>6. QED
    BY <1>0, <1>n, <2>1, <2>2, <2>5 DEF Deregister, CountersExact, TypeOK, Prio
<1>c. ASSUME \A a \in Accounts, k \in Prio : RegisteredWith(a, k)' = RegisteredWith(a, k),
             UNCHANGED <<activeCredits, activeDebits>>
      PROVE  CountersExact'
  BY <1>0, <1>c DEF CountersExact, Prio
<1>1. ASSUME NEW t \in Threads, Begin(t) PROVE CountersExact'
  <2>1. \A a \in Accounts, k \in Prio : RegisteredWith(a, k)' = RegisteredWith(a, k)
    BY <1>1, BeginRegistered DEF RegisteredWith
  <2>2. QED
    BY <1>1, <1>c, <2>1 DEF Begin, lockVars
<1>2. ASSUME NEW t \in Threads, Wake(t) PROVE CountersExact'
  <2>1. \A a \in Accounts, k \in Prio : RegisteredWith(a, k)' = RegisteredWith(a, k)
    BY <1>2, WakeRegistered DEF RegisteredWith, Wake
  <2>2. QED
    BY <1>2, <1>c, <2>1 DEF Wake, lockVars
<1>3. CASE UNCHANGED vars
  <2>1. \A a \in Accounts, k \in Prio : RegisteredWith(a, k)' = RegisteredWith(a, k)
    BY <1>3 DEF RegisteredWith, Registered, Owns, vars, lockVars, threadVars
  <2>2. QED
    BY <1>3, <1>c, <2>1 DEF vars, lockVars
<1>4. QED
  BY <1>1, <1>2, <1>3, <1>a, <1>b DEF Next, Step, Finished

(* An entry appears with the first registration and goes with the last.    *)
LEMMA EntriesNext ==
  ASSUME IInv, [Next]_vars
  PROVE  EntriesMatchUse'
<1>0. TypeOK /\ EntriesMatchUse
  BY DEF IInv
<1>1. ASSUME NEW t \in Threads, Begin(t) PROVE EntriesMatchUse'
  BY <1>0, <1>1, BeginRegistered DEF Begin, EntriesMatchUse, lockVars
<1>2. ASSUME NEW t \in Threads, Wake(t) PROVE EntriesMatchUse'
  BY <1>0, <1>2, WakeRegistered DEF Wake, EntriesMatchUse, lockVars
<1>3. ASSUME NEW t \in Threads, NEW a \in Accounts,
             AcquireFree(t, a) \/ AcquireBusy(t, a)
      PROVE  EntriesMatchUse'
  <2>1. known' = known \cup {a}
    BY <1>3 DEF AcquireFree, AcquireBusy, Register
  <2>2. QED
    BY <1>0, <1>3, <2>1, AcquireRegistered DEF EntriesMatchUse
<1>4. ASSUME NEW t \in Threads, NEW a \in Accounts, HandOff(t, a)
      PROVE  EntriesMatchUse'
  <2>1. PICK w \in Threads : w \in waiters[a]
    BY <1>4 DEF HandOff, Top
  <2>2. w # t
    BY <1>4, NotQueued, <2>1 DEF HandOff, Releasing
  <2>3. Registered(w, a)'
    BY <1>4, <2>1, <2>2, HandOffRegistered DEF Registered
  <2>4. known' = known
    BY <1>4 DEF HandOff
  <2>5. QED
    BY <1>0, <1>4, <2>3, <2>4, HandOffRegistered DEF EntriesMatchUse
<1>5. ASSUME NEW t \in Threads, NEW a \in Accounts, Unlock(t, a)
      PROVE  EntriesMatchUse'
  <2>1. RegisteredWith(a, "CREDIT")' = {} /\ RegisteredWith(a, "DEBIT")' = {}
    BY <1>5, UnlockRegistered DEF RegisteredWith
  <2>2. activeCredits'[a] = 0 /\ activeDebits'[a] = 0
    <3>1. CountersExact'
      BY <1>5, CountersNext DEF Next, Step
    <3>2. QED
      BY <2>1, <3>1, FS_EmptySet DEF CountersExact
  <2>3. known' = known \ {a}
    BY <1>5, <2>2 DEF Unlock
  <2>4. QED
    BY <1>0, <1>5, <2>3, UnlockRegistered DEF EntriesMatchUse
<1>6. CASE UNCHANGED vars
  BY <1>0, <1>6 DEF EntriesMatchUse, Registered, Owns, vars, lockVars, threadVars
<1>7. QED
  BY <1>1, <1>2, <1>3, <1>4, <1>5, <1>6 DEF Next, Step, Finished

LEMMA InvInit ==
  ASSUME Init
  PROVE  IInv
<1>0. NoAccount \notin Accounts /\ MaxTxns \in Nat
  BY LockAssumption
<1>1. TypeOK /\ NodesOK /\ PlansOK /\ LocksOK /\ MutualExclusion /\ EntriesMatchUse
  BY <1>0 DEF Init, TypeOK, Plans, Prio, NodesOK, PlansOK, LocksOK, MutualExclusion,
              EntriesMatchUse, Registered, Owns
<1>2. \A a \in Accounts, k \in Prio : RegisteredWith(a, k) = {}
  BY <1>0 DEF Init, RegisteredWith, Registered, Owns
<1>3. CountersExact
  BY <1>2, FS_EmptySet DEF Init, CountersExact, Prio
<1>4. QED
  BY <1>1, <1>3 DEF IInv

LEMMA InvNext == IInv /\ [Next]_vars => IInv'
BY TypeNext, NodesNext, PlansNext, LocksNext, CountersNext, EntriesNext DEF IInv

LEMMA Invariance == Spec => []IInv
BY InvInit, InvNext, PTL DEF Spec

(***************************************************************************)
(* The theorems                                                            *)
(***************************************************************************)

(* Every variable keeps its type: in particular a woken thread's node      *)
(* names an account, and no counter overruns its map.                      *)
THEOREM TypeCorrect == Spec => []TypeOK
<1>1. IInv => TypeOK
  BY DEF IInv
<1>2. QED
  BY <1>1, Invariance, PTL

(* At most one thread owns an account, hand-off window included.           *)
THEOREM LockIsExclusive == Spec => []MutualExclusion
<1>1. IInv => MutualExclusion
  BY DEF IInv
<1>2. QED
  BY <1>1, Invariance, PTL

(* activeCredits and activeDebits count the registered threads exactly,    *)
(* and entries are erased neither too early nor too late.                  *)
THEOREM BookkeepingIsExact == Spec => []BookkeepingExact
<1>1. IInv => BookkeepingExact
  BY DEF IInv, BookkeepingExact
<1>2. QED
  BY <1>1, Invariance, PTL

(* Waiting goes upwards in the account order: transfers cannot deadlock    *)
(* each other.                                                             *)
THEOREM NoWaitingCycle == Spec => []WaitsAscending
<1>1. IInv => WaitsAscending
  <2>1. SUFFICES ASSUME IInv, NEW t \in Threads, pc[t] = "queued", NEW b \in held[t]
                 PROVE  b < node[t]
    BY DEF WaitsAscending
  <2>2. node[t] \in Accounts /\ b \in Accounts /\ Accounts \subseteq Nat
    BY <2>1, LockAssumption DEF IInv, NodesOK, TypeOK
  <2>3. node[t] \notin held[t] /\ plan[t][node[t]] # "none"
    BY <2>1, <2>2 DEF IInv, PlansOK
  <2>4. ~(node[t] < b)
    BY <2>1, <2>2, <2>3 DEF IInv, PlansOK
  <2>5. QED
    BY <2>2, <2>3, <2>4
<1>2. QED
  BY <1>1, Invariance, PTL

(* A DEBIT is let in only while no CREDIT is registered: what the comment  *)
(* in release() asserts and its code leaves untested.                      *)
THEOREM CreditsGoFirst == Spec => DebitYieldsToCredits
<1> DEFINE A == \A t \in Threads, a \in Accounts :
      Owns(t, a)' /\ ~Owns(t, a) /\ plan[t][a] = "DEBIT" => activeCredits'[a] = 0
<1>1. ASSUME IInv, IInv', [Next]_vars
      PROVE  [A]_vars
  <2>0. SUFFICES ASSUME NEW t \in Threads, NEW a \in Accounts,
                        Owns(t, a)', ~Owns(t, a), plan[t][a] = "DEBIT", Next
                 PROVE  activeCredits'[a] = 0
    BY <1>1
  <2>1. ASSUME NEW u \in Threads, Begin(u) PROVE FALSE
    BY <1>1, <2>0, <2>1, BeginRegistered
  <2>2. ASSUME NEW u \in Threads, Wake(u) PROVE FALSE
    BY <1>1, <2>0, <2>2, WakeRegistered
  <2>3. ASSUME NEW u \in Threads, NEW b \in Accounts, AcquireFree(u, b)
        PROVE  activeCredits'[a] = 0
    <3>1. u = t /\ b = a
      BY <1>1, <2>0, <2>3 DEF AcquireFree, Owns, IInv, TypeOK
    <3>2. ~(activeCredits[a] > 0)
      BY <2>0, <2>3, <3>1 DEF AcquireFree, ShouldWait
    <3>3. activeCredits[a] = 0
      BY <1>1, <3>2, CountersAreNat DEF IInv
    <3>4. QED
      BY <1>1, <2>0, <2>3, <3>1, <3>3 DEF AcquireFree, Register, IInv, TypeOK
  <2>4. ASSUME NEW u \in Threads, NEW b \in Accounts, AcquireBusy(u, b)
        PROVE  FALSE
    <3>1. u \notin ready
      BY <1>1, <2>4, NotQueued DEF AcquireBusy
    <3>2. QED
      BY <1>1, <2>0, <2>4, <3>1 DEF AcquireBusy, Owns, IInv, TypeOK
  <2>5. ASSUME NEW u \in Threads, NEW b \in Accounts, HandOff(u, b)
        PROVE  activeCredits'[a] = 0
    <3>1. PICK w \in Threads : Top(w, b) /\ ready' = ready \cup {w}
      BY <2>5 DEF HandOff
    <3>2. t = w
      BY <1>1, <2>0, <2>5, <3>1 DEF HandOff, Releasing, Owns, IInv, TypeOK
    <3>3. a = b
      BY <1>1, <2>0, <2>5, <3>1, <3>2 DEF HandOff, Releasing, Owns, Top, IInv, TypeOK, NodesOK
    <3>4. \A v \in waiters[a] : plan[v][a] # "CREDIT"
      BY <2>0, <3>1, <3>2, <3>3 DEF Top
    <3>5. ASSUME NEW v \in Threads PROVE ~(Registered(v, a)' /\ plan'[v][a] = "CREDIT")
      <4>1. CASE Owns(v, a)
        <5>1. Owns(u, a)
          BY <2>5, <3>3 DEF HandOff, Releasing, Owns
        <5>2. v = u
          BY <1>1, <4>1, <5>1 DEF IInv, MutualExclusion
        <5>3. QED
          BY <1>1, <2>5, <3>3, <5>2, HandOffRegistered
      <4>2. CASE ~Owns(v, a)
        BY <1>1, <2>5, <3>3, <3>4, <4>2, HandOffRegistered DEF Registered
      <4>3. QED
        BY <4>1, <4>2
    <3>6. RegisteredWith(a, "CREDIT")' = {}
      BY <3>5 DEF RegisteredWith
    <3>7. QED
      BY <1>1, <3>6, FS_EmptySet DEF IInv, CountersExact
  <2>6. ASSUME NEW u \in Threads, NEW b \in Accounts, Unlock(u, b)
        PROVE  FALSE
    BY <1>1, <2>0, <2>6 DEF Unlock, Releasing, Owns, IInv, TypeOK
  <2>7. CASE Finished
    BY <2>0, <2>7 DEF Finished, vars, lockVars, threadVars, Owns
  <2>8. QED
    BY <2>0, <2>1, <2>2, <2>3, <2>4, <2>5, <2>6, <2>7 DEF Next, Step
<1>2. QED
  BY <1>1, Invariance, PTL DEF Spec, DebitYieldsToCredits

(* The lock table implements PriorityMutex: each step of the manager is a  *)
(* step PriorityMutex allows, or one it does not see.                      *)
THEOREM Refinement == Spec => ImplementsPriorityMutex
<1> DEFINE H(a) == {t \in Threads : Owns(t, a)}
           W(a, k) == {t \in waiters[a] : plan[t][a] = k}
           Unseen == \A a \in Accounts :
                       H(a)' = H(a) /\ \A k \in Prio : W(a, k)' = W(a, k)
<1>1. Init => Abstract!Init
  <2>1. SUFFICES ASSUME Init PROVE Abstract!Init
    OBVIOUS
  <2>2. \A a \in Accounts : H(a) = {}
    BY <2>1, LockAssumption DEF Init, Owns
  <2>3. \A k : WaitingWith(k) = [a \in Accounts |-> {}]
    BY <2>1 DEF Init, WaitingWith
  <2>4. QED
    BY <2>2, <2>3 DEF Abstract!Init
<1>2. ASSUME IInv, IInv', [Next]_vars
      PROVE  [Abstract!Next]_Abstract!vars
  <2>0. TypeOK /\ NodesOK /\ NoAccount \notin Accounts
    BY <1>2, LockAssumption DEF IInv
  <2>u. ASSUME Unseen PROVE Abstract!vars' = Abstract!vars
    BY <2>u DEF Abstract!vars, WaitingWith, Prio
  <2>1. ASSUME NEW t \in Threads, Begin(t) PROVE Unseen
    <3>1. \A a \in Accounts : H(a)' = H(a)
      BY <1>2, <2>1, BeginRegistered
    <3>2. \A a \in Accounts : \A u \in waiters[a] : plan'[u][a] = plan[u][a]
      BY <1>2, <2>0, <2>1, BeginRegistered DEF Registered, TypeOK
    <3>3. waiters' = waiters
      BY <2>1 DEF Begin, lockVars
    <3>4. QED
      BY <3>1, <3>2, <3>3
  <2>2. ASSUME NEW t \in Threads, Wake(t) PROVE Unseen
    <3>1. \A a \in Accounts : H(a)' = H(a)
      BY <1>2, <2>2, WakeRegistered
    <3>2. QED
      BY <2>2, <3>1 DEF Wake, lockVars
  <2>3. ASSUME NEW t \in Threads, NEW a \in Accounts, AcquireFree(t, a)
        PROVE  Abstract!Take(t, a)
    <3>1. H(a) = {}
      BY <1>2, <2>3 DEF AcquireFree, ShouldWait, IInv, LocksOK
    <3>2. \A b \in Accounts : H(b)' = IF b = a THEN {t} ELSE H(b)
      BY <2>0, <2>3, <3>1 DEF AcquireFree, Owns, TypeOK
    <3>3. waiters' = waiters /\ plan' = plan
      BY <2>3 DEF AcquireFree
    <3>4. QED
      BY <3>1, <3>2, <3>3 DEF Abstract!Take, WaitingWith
  <2>4. ASSUME NEW t \in Threads, NEW a \in Accounts, AcquireBusy(t, a)
        PROVE  Abstract!WaitAsCredit(t, a) \/ Abstract!WaitAsDebit(t, a)
    <3>1. H(a) # {}
      BY <1>2, <2>4, CreditsImplyLocked DEF AcquireBusy, ShouldWait, IInv, LocksOK
    <3>2. \A b \in Accounts : H(b)' = H(b)
      <4>1. t \notin ready /\ node[t] = NoAccount
        BY <1>2, <2>4, NotQueued DEF AcquireBusy
      <4>2. QED
        BY <2>0, <2>4, <4>1 DEF AcquireBusy, Owns, TypeOK
    <3>3. t \notin H(a) /\ t \notin waiters[a]
      BY <1>2, <2>4, AcquireRegistered DEF Registered
    <3>4. plan' = plan /\ waiters' = [waiters EXCEPT ![a] = @ \cup {t}]
      BY <2>4 DEF AcquireBusy
    <3>5. plan[t][a] \in Prio
      BY <2>0, <2>4 DEF AcquireBusy, NextToLock, TypeOK, Plans
    <3>6. \A k \in Prio :
            WaitingWith(k)' = IF k = plan[t][a]
                              THEN [WaitingWith(k) EXCEPT ![a] = @ \cup {t}]
                              ELSE WaitingWith(k)
      <4>1. SUFFICES ASSUME NEW k \in Prio
                     PROVE  WaitingWith(k)' = IF k = plan[t][a]
                              THEN [WaitingWith(k) EXCEPT ![a] = @ \cup {t}]
                              ELSE WaitingWith(k)
        OBVIOUS
      <4>2. \A b \in Accounts :
              W(b, k)' = IF b = a /\ k = plan[t][a] THEN W(b, k) \cup {t} ELSE W(b, k)
        BY <2>0, <3>4 DEF TypeOK
      <4>3. WaitingWith(k)' = [b \in Accounts |-> W(b, k)']
        BY DEF WaitingWith
      <4>4. WaitingWith(k) = [b \in Accounts |-> W(b, k)]
        BY DEF WaitingWith
      <4> HIDE DEF W
      <4>5. QED
        BY <4>2, <4>3, <4>4
    <3>w. t \notin Abstract!Waiting(a)
      BY <3>3 DEF Abstract!Waiting, WaitingWith
    <3>h. [b \in Accounts |-> H(b)]' = [b \in Accounts |-> H(b)]
      BY <3>2
    <3>7. CASE plan[t][a] = "CREDIT"
      <4>1. /\ WaitingWith("CREDIT")' = [WaitingWith("CREDIT") EXCEPT ![a] = @ \cup {t}]
            /\ WaitingWith("DEBIT")' = WaitingWith("DEBIT")
        BY <3>6, <3>7 DEF Prio
      <4>2. Abstract!WaitAsCredit(t, a)
        BY <3>1, <3>3, <3>w, <3>h, <4>1 DEF Abstract!WaitAsCredit
      <4>3. QED
        BY <4>2
    <3>8. CASE plan[t][a] = "DEBIT"
      <4>1. /\ WaitingWith("DEBIT")' = [WaitingWith("DEBIT") EXCEPT ![a] = @ \cup {t}]
            /\ WaitingWith("CREDIT")' = WaitingWith("CREDIT")
        BY <3>6, <3>8 DEF Prio
      <4>2. Abstract!WaitAsDebit(t, a)
        BY <3>1, <3>3, <3>w, <3>h, <4>1 DEF Abstract!WaitAsDebit
      <4>3. QED
        BY <4>2
    <3>9. QED
      BY <3>5, <3>7, <3>8 DEF Prio
  <2>5. ASSUME NEW t \in Threads, NEW a \in Accounts, HandOff(t, a)
        PROVE  \E u \in Threads : Abstract!PassToCredit(t, u, a) \/ Abstract!PassToDebit(t, u, a)
    <3>1. PICK w \in Threads : /\ Top(w, a)
                               /\ waiters' = [waiters EXCEPT ![a] = @ \ {w}]
                               /\ ready' = ready \cup {w}
      BY <2>5 DEF HandOff
    <3>2. w \in waiters[a] /\ node[w] = a /\ w \notin ready
      BY <2>0, <3>1 DEF NodesOK, Top
    <3>3. /\ node' = node /\ plan' = plan
          /\ held' = [held EXCEPT ![t] = @ \ {a}]
          /\ a \in held[t]
      BY <2>5 DEF HandOff, Releasing
    <3>4. H(a) = {t}
      BY <1>2, <3>3 DEF IInv, MutualExclusion, Owns
    <3>5. w # t /\ Owns(w, a)'
      <4>1. w # t
        BY <1>2, <2>5, <3>2, NotQueued DEF HandOff, Releasing
      <4>2. QED
        BY <3>1, <3>2, <3>3, <4>1 DEF Owns
    <3>6. H(a)' = {w}
      BY <1>2, <3>5 DEF IInv, MutualExclusion
    <3>7. \A b \in Accounts : b # a => H(b)' = H(b)
      BY <2>0, <3>1, <3>2, <3>3 DEF Owns, TypeOK
    <3>8. plan[w][a] \in Prio
      BY <1>2, <2>0, <3>2 DEF IInv, PlansOK, TypeOK, Plans
    <3>9. \A k \in Prio :
            WaitingWith(k)' = IF k = plan[w][a]
                              THEN [WaitingWith(k) EXCEPT ![a] = @ \ {w}]
                              ELSE WaitingWith(k)
      <4>1. SUFFICES ASSUME NEW k \in Prio
                     PROVE  WaitingWith(k)' = IF k = plan[w][a]
                              THEN [WaitingWith(k) EXCEPT ![a] = @ \ {w}]
                              ELSE WaitingWith(k)
        OBVIOUS
      <4>2. \A b \in Accounts :
              W(b, k)' = IF b = a /\ k = plan[w][a] THEN W(b, k) \ {w} ELSE W(b, k)
        BY <2>0, <3>1, <3>3 DEF TypeOK
      <4>3. WaitingWith(k)' = [b \in Accounts |-> W(b, k)']
        BY DEF WaitingWith
      <4>4. WaitingWith(k) = [b \in Accounts |-> W(b, k)]
        BY DEF WaitingWith
      <4> HIDE DEF W
      <4>5. QED
        BY <4>2, <4>3, <4>4
    <3>h. [b \in Accounts |-> H(b)]' = [[b \in Accounts |-> H(b)] EXCEPT ![a] = {w}]
      BY <3>6, <3>7
    <3>10. CASE plan[w][a] = "CREDIT"
      <4>1. w \in WaitingWith("CREDIT")[a]
        BY <3>2, <3>10 DEF WaitingWith
      <4>2. /\ WaitingWith("CREDIT")' = [WaitingWith("CREDIT") EXCEPT ![a] = @ \ {w}]
            /\ WaitingWith("DEBIT")' = WaitingWith("DEBIT")
        BY <3>9, <3>10 DEF Prio
      <4>3. Abstract!PassToCredit(t, w, a)
        BY <3>4, <3>h, <4>1, <4>2 DEF Abstract!PassToCredit
      <4>4. QED
        BY <4>3
    <3>11. CASE plan[w][a] = "DEBIT"
      <4>1. w \in WaitingWith("DEBIT")[a] /\ WaitingWith("CREDIT")[a] = {}
        BY <3>1, <3>2, <3>11 DEF Top, WaitingWith
      <4>2. /\ WaitingWith("DEBIT")' = [WaitingWith("DEBIT") EXCEPT ![a] = @ \ {w}]
            /\ WaitingWith("CREDIT")' = WaitingWith("CREDIT")
        BY <3>9, <3>11 DEF Prio
      <4>3. Abstract!PassToDebit(t, w, a)
        BY <3>4, <3>h, <4>1, <4>2 DEF Abstract!PassToDebit
      <4>4. QED
        BY <4>3
    <3>12. QED
      BY <3>8, <3>10, <3>11 DEF Prio
  <2>6. ASSUME NEW t \in Threads, NEW a \in Accounts, Unlock(t, a)
        PROVE  Abstract!Leave(t, a)
    <3>1. /\ waiters' = waiters /\ plan' = plan /\ node' = node /\ ready' = ready
          /\ held' = [held EXCEPT ![t] = @ \ {a}]
          /\ a \in held[t] /\ waiters[a] = {}
      BY <2>6 DEF Unlock, Releasing
    <3>2. H(a) = {t} /\ node[t] = NoAccount
      BY <1>2, <2>6, <3>1, NotQueued DEF Unlock, Releasing, IInv, MutualExclusion, Owns
    <3>3. \A b \in Accounts : H(b)' = IF b = a THEN {} ELSE H(b)
      BY <2>0, <3>1, <3>2 DEF Owns, TypeOK
    <3>4. QED
      BY <3>1, <3>2, <3>3 DEF Abstract!Leave, Abstract!Waiting, WaitingWith
  <2>7. CASE UNCHANGED vars
    BY <2>7 DEF vars, lockVars, threadVars, Abstract!vars, WaitingWith, Owns
  <2>8. CASE Next
    BY <2>u, <2>1, <2>2, <2>3, <2>4, <2>5, <2>6, <2>7, <2>8
       DEF Next, Step, Finished, Abstract!Next
  <2>9. QED
    BY <1>2, <2>7, <2>8
<1>3. QED
  BY <1>1, <1>2, Invariance, PTL DEF Spec, Abstract!Spec, ImplementsPriorityMutex
=============================================================================
