----------------------------- MODULE OnceProofs -----------------------------
(***************************************************************************)
(* What keeps a payment from being made again: the row of an idempotency   *)
(* key (IdempotencyGate) and the status of a 3-D Secure challenge          *)
(* (ThreeDSecure).  For any requests, keys and routes and any number of    *)
(* failures and crashes; for any workers, challenges, sessions and         *)
(* requests.                                                               *)
(***************************************************************************)
EXTENDS IdempotencyGate, ThreeDSecure, FiniteSetTheorems, TLAPS

(***************************************************************************)
(* IdempotencyGate.  A row is never deleted, so one request at most is the *)
(* owner of a key; what goes past the gate without a row has cost a fault  *)
(* (LetIn), and every SUCCESS that is stored or carried comes from a       *)
(* commit (True).                                                          *)
(***************************************************************************)

(* The requests of key k that took effect. *)
Effects(k) == {r \in executed : key[r] = k}

(* The requests that went past the gate without a row of their own. *)
LetIn == {r \in Requests \ registered : pc[r] \in {"handler", "committed"} \/ r \in executed}

Owned ==
  /\ \A r \in registered : record[key[r]].status # "NONE"
  /\ \A q, r \in registered : key[q] = key[r] => q = r
  /\ \A r \in registered \cup executed : pc[r] \notin {"new", "insert", "lookup"}

Paid(k) == \E q \in executed : key[q] = k

True ==
  /\ \A r \in Requests : pc[r] = "committed" => r \in executed
  /\ \A r \in Requests : answer[r].success => Paid(key[r])
  /\ \A k \in Keys : record[k].answer.success => Paid(k)

(* As long as nothing failed: who runs owns the row, who updates it without *)
(* owning it was rejected, and a completed row has seen its owner finish.  *)
Unfailed ==
  faults = 0 =>
    /\ \A r \in Requests : pc[r] \in {"handler", "committed"} => r \in registered
    /\ \A r \in Requests \ registered :
         pc[r] \in {"update", "lastUpdate"} => route[r] = "initiate" /\ answer[r].code \in {400, 429}
    /\ \A k \in Keys : record[k].status = "COMPLETED" =>
         \E q \in registered : key[q] = k /\ pc[q] = "done"

IInv == TypeOK /\ Owned /\ True /\ Unfailed /\ Cardinality(LetIn) <= faults

LEMMA InitOK == Init => TypeOK /\ Owned /\ True /\ Unfailed /\ LetIn = {} /\ faults = 0
  BY GateAssumption DEF GateAssumption, Init, TypeOK, Answers, Owned, True, Unfailed, LetIn, NoRecord, Other

LEMMA AnswersTyped ==
  /\ Success \in Answers /\ Success.success /\ Success.code = 200
  /\ \A c \in {0, 200, 400, 401, 403, 409, 429, 500} :
       Other(c) \in Answers /\ ~Other(c).success /\ Other(c).code = c
  BY DEF Success, Other, Answers

LEMMA StepTyped == TypeOK /\ Owned /\ [Next]_vars => TypeOK'
<1> SUFFICES ASSUME TypeOK, Owned, [Next]_vars PROVE TypeOK'
  OBVIOUS
<1> USE GateAssumption, AnswersTyped DEF GateAssumption, TypeOK, Carry, Goto, Fault, requestVars
<1>1. ASSUME NEW r \in Requests, Refuse(r) PROVE TypeOK'
  BY <1>1 DEF Refuse
<1>2. ASSUME NEW r \in Requests, RejectThroughFinish(r) PROVE TypeOK'
  BY <1>2 DEF RejectThroughFinish
<1>3. ASSUME NEW r \in Requests, Admit(r) PROVE TypeOK'
  BY <1>3 DEF Admit
<1>4. ASSUME NEW r \in Requests, LetThrough(r) PROVE TypeOK'
  BY <1>4 DEF LetThrough
<1>5. ASSUME NEW r \in Requests, InsertNew(r) PROVE TypeOK'
  BY <1>5 DEF InsertNew, InProgress
<1>6. ASSUME NEW r \in Requests, InsertDuplicate(r) PROVE TypeOK'
  BY <1>6 DEF InsertDuplicate
<1>7. ASSUME NEW r \in Requests, Conflict(r) PROVE TypeOK'
  BY <1>7 DEF Conflict
<1>8. ASSUME NEW r \in Requests, Replay(r) PROVE TypeOK'
  BY <1>8 DEF Replay
<1>9. ASSUME NEW r \in Requests, RejectChannel(r) PROVE TypeOK'
  BY <1>9 DEF RejectChannel
<1>10. ASSUME NEW r \in Requests, Commit(r) PROVE TypeOK'
  BY <1>10 DEF Commit
<1>11. ASSUME NEW r \in Requests, Return(r) PROVE TypeOK'
  BY <1>11 DEF Return
<1>12. ASSUME NEW r \in Requests, Throw(r) PROVE TypeOK'
  BY <1>12, SMTT(20) DEF Throw
<1>13. ASSUME NEW r \in Requests, UpdateOk(r) PROVE TypeOK'
  BY <1>13 DEF UpdateOk, Store, Outcome
<1>14. ASSUME NEW r \in Requests, UpdateLost(r) PROVE TypeOK'
  BY <1>14 DEF UpdateLost
<1>15. ASSUME NEW r \in Requests, UpdateThrows(r) PROVE TypeOK'
  BY <1>15 DEF UpdateThrows
<1>16. CASE Crash
  BY <1>16 DEF Crash, Underway
<1>17. CASE UNCHANGED vars
  BY <1>17 DEF vars
<1>18. QED
  BY <1>1, <1>2, <1>3, <1>4, <1>5, <1>6, <1>7, <1>8, <1>9, <1>10, <1>11, <1>12, <1>13, <1>14,
     <1>15, <1>16, <1>17 DEF Next, Proceed, Finished

(* Rows stay, and a request is registered where there was none.            *)
LEMMA StepOwned == TypeOK /\ Owned /\ [Next]_vars => Owned'
<1> SUFFICES ASSUME TypeOK, Owned, [Next]_vars PROVE Owned'
  OBVIOUS
<1> USE GateAssumption DEF GateAssumption, TypeOK, Owned, NoRecord, Carry, Goto, Fault,
            requestVars
<1>1. ASSUME NEW r \in Requests, Refuse(r) PROVE Owned'
  BY <1>1 DEF Refuse
<1>2. ASSUME NEW r \in Requests, RejectThroughFinish(r) PROVE Owned'
  BY <1>2 DEF RejectThroughFinish
<1>3. ASSUME NEW r \in Requests, Admit(r) PROVE Owned'
  BY <1>3 DEF Admit
<1>4. ASSUME NEW r \in Requests, LetThrough(r) PROVE Owned'
  BY <1>4 DEF LetThrough
<1>5. ASSUME NEW r \in Requests, InsertNew(r) PROVE Owned'
  BY <1>5 DEF InsertNew, InProgress
<1>6. ASSUME NEW r \in Requests, InsertDuplicate(r) PROVE Owned'
  BY <1>6 DEF InsertDuplicate
<1>7. ASSUME NEW r \in Requests, Conflict(r) PROVE Owned'
  BY <1>7 DEF Conflict
<1>8. ASSUME NEW r \in Requests, Replay(r) PROVE Owned'
  BY <1>8 DEF Replay
<1>9. ASSUME NEW r \in Requests, RejectChannel(r) PROVE Owned'
  BY <1>9 DEF RejectChannel
<1>10. ASSUME NEW r \in Requests, Commit(r) PROVE Owned'
  BY <1>10 DEF Commit
<1>11. ASSUME NEW r \in Requests, Return(r) PROVE Owned'
  BY <1>11 DEF Return
<1>12. ASSUME NEW r \in Requests, Throw(r) PROVE Owned'
  BY <1>12 DEF Throw
<1>13. ASSUME NEW r \in Requests, UpdateOk(r) PROVE Owned'
  BY <1>13 DEF UpdateOk, Store, Outcome
<1>14. ASSUME NEW r \in Requests, UpdateLost(r) PROVE Owned'
  BY <1>14 DEF UpdateLost
<1>15. ASSUME NEW r \in Requests, UpdateThrows(r) PROVE Owned'
  BY <1>15 DEF UpdateThrows
<1>16. CASE Crash
  BY <1>16 DEF Crash, Underway
<1>17. CASE UNCHANGED vars
  BY <1>17 DEF vars
<1>18. QED
  BY <1>1, <1>2, <1>3, <1>4, <1>5, <1>6, <1>7, <1>8, <1>9, <1>10, <1>11, <1>12, <1>13, <1>14,
     <1>15, <1>16, <1>17 DEF Next, Proceed, Finished

(* SUCCESS comes from a commit, directly or through a row.                 *)
LEMMA StepTrue == TypeOK /\ Owned /\ True /\ [Next]_vars => True'
<1> SUFFICES ASSUME TypeOK, Owned, True, [Next]_vars PROVE True'
  OBVIOUS
<1> USE GateAssumption, AnswersTyped
        DEF GateAssumption, TypeOK, Owned, True, Paid, NoRecord, Carry, Goto, Fault, requestVars
<1>1. ASSUME NEW r \in Requests, Refuse(r) PROVE True'
  BY <1>1 DEF Refuse
<1>2. ASSUME NEW r \in Requests, RejectThroughFinish(r) PROVE True'
  BY <1>2 DEF RejectThroughFinish
<1>3. ASSUME NEW r \in Requests, Admit(r) PROVE True'
  BY <1>3 DEF Admit
<1>4. ASSUME NEW r \in Requests, LetThrough(r) PROVE True'
  BY <1>4 DEF LetThrough
<1>5. ASSUME NEW r \in Requests, InsertNew(r) PROVE True'
  BY <1>5 DEF InsertNew, InProgress
<1>6. ASSUME NEW r \in Requests, InsertDuplicate(r) PROVE True'
  BY <1>6 DEF InsertDuplicate
<1>7. ASSUME NEW r \in Requests, Conflict(r) PROVE True'
  BY <1>7 DEF Conflict
<1>8. ASSUME NEW r \in Requests, Replay(r) PROVE True'
  BY <1>8 DEF Replay
<1>9. ASSUME NEW r \in Requests, RejectChannel(r) PROVE True'
  BY <1>9 DEF RejectChannel
<1>10. ASSUME NEW r \in Requests, Commit(r) PROVE True'
  BY <1>10 DEF Commit
<1>11. ASSUME NEW r \in Requests, Return(r) PROVE True'
  <2>1. CASE pc[r] = "committed" /\ \E a \in {Success, Other(400)} : Carry(r, a, "update")
    BY <1>11, <2>1 DEF Return
  <2>2. CASE pc[r] = "handler" /\ \E c \in {200, 400} : Carry(r, Other(c), "update")
    BY <1>11, <2>2 DEF Return
  <2>3. QED
    BY <1>11, <2>1, <2>2 DEF Return
<1>12. ASSUME NEW r \in Requests, Throw(r) PROVE True'
  BY <1>12 DEF Throw
<1>13. ASSUME NEW r \in Requests, UpdateOk(r) PROVE True'
  BY <1>13 DEF UpdateOk, Store, Outcome
<1>14. ASSUME NEW r \in Requests, UpdateLost(r) PROVE True'
  BY <1>14 DEF UpdateLost
<1>15. ASSUME NEW r \in Requests, UpdateThrows(r) PROVE True'
  BY <1>15 DEF UpdateThrows
<1>16. CASE Crash
  BY <1>16 DEF Crash, Underway
<1>17. CASE UNCHANGED vars
  BY <1>17 DEF vars
<1>18. QED
  BY <1>1, <1>2, <1>3, <1>4, <1>5, <1>6, <1>7, <1>8, <1>9, <1>10, <1>11, <1>12, <1>13, <1>14,
     <1>15, <1>16, <1>17 DEF Next, Proceed, Finished

(* Without failures, only owners and rejected requests come to the update. *)
LEMMA StepUnfailed == TypeOK /\ Owned /\ Unfailed /\ [Next]_vars => Unfailed'
<1> SUFFICES ASSUME TypeOK, Owned, Unfailed, [Next]_vars PROVE Unfailed'
  OBVIOUS
<1> USE GateAssumption, AnswersTyped
        DEF GateAssumption, TypeOK, Owned, Unfailed, NoRecord, Carry, Goto, Fault, requestVars
<1>1. ASSUME NEW r \in Requests, Refuse(r) PROVE Unfailed'
  BY <1>1 DEF Refuse
<1>2. ASSUME NEW r \in Requests, RejectThroughFinish(r) PROVE Unfailed'
  BY <1>2 DEF RejectThroughFinish
<1>3. ASSUME NEW r \in Requests, Admit(r) PROVE Unfailed'
  BY <1>3 DEF Admit
<1>4. ASSUME NEW r \in Requests, LetThrough(r) PROVE Unfailed'
  BY <1>4 DEF LetThrough
<1>5. ASSUME NEW r \in Requests, InsertNew(r) PROVE Unfailed'
  BY <1>5 DEF InsertNew, InProgress
<1>6. ASSUME NEW r \in Requests, InsertDuplicate(r) PROVE Unfailed'
  BY <1>6 DEF InsertDuplicate
<1>7. ASSUME NEW r \in Requests, Conflict(r) PROVE Unfailed'
  BY <1>7 DEF Conflict
<1>8. ASSUME NEW r \in Requests, Replay(r) PROVE Unfailed'
  BY <1>8 DEF Replay
<1>9. ASSUME NEW r \in Requests, RejectChannel(r) PROVE Unfailed'
  BY <1>9 DEF RejectChannel
<1>10. ASSUME NEW r \in Requests, Commit(r) PROVE Unfailed'
  BY <1>10 DEF Commit
<1>11. ASSUME NEW r \in Requests, Return(r) PROVE Unfailed'
  BY <1>11 DEF Return
<1>12. ASSUME NEW r \in Requests, Throw(r) PROVE Unfailed'
  BY <1>12 DEF Throw
<1>13. ASSUME NEW r \in Requests, UpdateOk(r) PROVE Unfailed'
  <2> SUFFICES ASSUME faults = 0 PROVE Unfailed'
    BY <1>13 DEF UpdateOk
  <2> USE <1>13 DEF UpdateOk, Store, Outcome
  <2>1. \A q \in Requests : pc'[q] \in {"handler", "committed"} => q \in registered'
    OBVIOUS
  <2>2. \A q \in Requests \ registered' :
          pc'[q] \in {"update", "lastUpdate"} => route'[q] = "initiate" /\ answer'[q].code \in {400, 429}
    OBVIOUS
  <2>3. ASSUME NEW k \in Keys, record'[k].status = "COMPLETED"
        PROVE  \E q \in registered' : key'[q] = k /\ pc'[q] = "done"
    <3>1. CASE k = key[r] /\ record[k] # NoRecord
      <4>1. answer[r].code \in 200..299
        BY <2>3, <3>1
      <4>2. r \in registered
        BY <4>1
      <4>3. QED
        BY <3>1, <4>2
    <3>2. CASE ~(k = key[r] /\ record[k] # NoRecord)
      <4>1. record'[k] = record[k]
        BY <3>2
      <4>2. PICK q \in registered : key[q] = k /\ pc[q] = "done"
        BY <2>3, <4>1
      <4>3. QED
        BY <4>2
    <3>3. QED
      BY <3>1, <3>2
  <2>4. QED
    BY <2>1, <2>2, <2>3
<1>14. ASSUME NEW r \in Requests, UpdateLost(r) PROVE Unfailed'
  BY <1>14 DEF UpdateLost
<1>15. ASSUME NEW r \in Requests, UpdateThrows(r) PROVE Unfailed'
  BY <1>15 DEF UpdateThrows
<1>16. CASE Crash
  BY <1>16 DEF Crash, Underway
<1>17. CASE UNCHANGED vars
  BY <1>17 DEF vars
<1>18. QED
  BY <1>1, <1>2, <1>3, <1>4, <1>5, <1>6, <1>7, <1>8, <1>9, <1>10, <1>11, <1>12, <1>13, <1>14,
     <1>15, <1>16, <1>17 DEF Next, Proceed, Finished

(* Who goes on without a row of its own does so by a fault.                *)
Bought == LetIn' \subseteq LetIn /\ faults' >= faults

LEMMA StepBought ==
  TypeOK /\ Owned /\ [Next]_vars =>
    Bought \/ \E r \in Requests : LetIn' \subseteq LetIn \cup {r} /\ faults' = faults + 1
<1> SUFFICES ASSUME TypeOK, Owned, [Next]_vars
             PROVE  \/ Bought
                    \/ \E r \in Requests : LetIn' \subseteq LetIn \cup {r} /\ faults' = faults + 1
  OBVIOUS
<1> USE GateAssumption DEF GateAssumption, TypeOK, Owned, Bought, LetIn, Carry, Goto, Fault,
            requestVars
<1>1. ASSUME NEW r \in Requests, Refuse(r) PROVE Bought
  BY <1>1 DEF Refuse
<1>2. ASSUME NEW r \in Requests, RejectThroughFinish(r) PROVE Bought
  BY <1>2 DEF RejectThroughFinish
<1>3. ASSUME NEW r \in Requests, Admit(r) PROVE Bought
  BY <1>3 DEF Admit
<1>4. ASSUME NEW r \in Requests, LetThrough(r)
     PROVE  LetIn' \subseteq LetIn \cup {r} /\ faults' = faults + 1
  BY <1>4 DEF LetThrough
<1>5. ASSUME NEW r \in Requests, InsertNew(r) PROVE Bought
  BY <1>5 DEF InsertNew, InProgress
<1>6. ASSUME NEW r \in Requests, InsertDuplicate(r) PROVE Bought
  BY <1>6 DEF InsertDuplicate
<1>7. ASSUME NEW r \in Requests, Conflict(r) PROVE Bought
  BY <1>7 DEF Conflict
<1>8. ASSUME NEW r \in Requests, Replay(r) PROVE Bought
  BY <1>8 DEF Replay
<1>9. ASSUME NEW r \in Requests, RejectChannel(r) PROVE Bought
  BY <1>9 DEF RejectChannel
<1>10. ASSUME NEW r \in Requests, Commit(r) PROVE Bought
  BY <1>10 DEF Commit
<1>11. ASSUME NEW r \in Requests, Return(r) PROVE Bought
  BY <1>11 DEF Return
<1>12. ASSUME NEW r \in Requests, Throw(r) PROVE Bought
  BY <1>12 DEF Throw
<1>13. ASSUME NEW r \in Requests, UpdateOk(r) PROVE Bought
  BY <1>13 DEF UpdateOk, Store, Outcome
<1>14. ASSUME NEW r \in Requests, UpdateLost(r) PROVE Bought
  BY <1>14 DEF UpdateLost
<1>15. ASSUME NEW r \in Requests, UpdateThrows(r) PROVE Bought
  BY <1>15 DEF UpdateThrows
<1>16. CASE Crash
  BY <1>16 DEF Crash, Underway
<1>17. CASE UNCHANGED vars
  BY <1>17 DEF vars
<1>18. QED
  BY <1>1, <1>2, <1>3, <1>4, <1>5, <1>6, <1>7, <1>8, <1>9, <1>10, <1>11, <1>12, <1>13, <1>14,
     <1>15, <1>16, <1>17 DEF Next, Proceed, Finished

(* The number of those let in is at most the number of faults.             *)
LEMMA StepCounted ==
  TypeOK /\ Owned /\ Cardinality(LetIn) <= faults /\ [Next]_vars => Cardinality(LetIn)' <= faults'
<1> SUFFICES ASSUME TypeOK, Owned, Cardinality(LetIn) <= faults, [Next]_vars
             PROVE  Cardinality(LetIn') <= faults'
  OBVIOUS
<1>0. TypeOK'
  BY StepTyped
<1>1. IsFiniteSet(LetIn)
  <2>1. LetIn \subseteq Requests
    BY DEF LetIn
  <2>2. QED
    BY <2>1, FS_Subset, GateAssumption DEF GateAssumption
<1>2. Cardinality(LetIn) \in Nat /\ faults \in Nat /\ faults' \in Nat
  BY <1>0, <1>1, FS_CardinalityType, GateAssumption DEF TypeOK, GateAssumption
<1>3. CASE Bought
  <2>1. Cardinality(LetIn') <= Cardinality(LetIn) /\ Cardinality(LetIn') \in Nat
    BY <1>1, <1>3, FS_Subset, FS_CardinalityType DEF Bought
  <2>2. QED
    BY <1>2, <1>3, <2>1 DEF Bought
<1>4. ASSUME NEW r \in Requests, LetIn' \subseteq LetIn \cup {r}, faults' = faults + 1
      PROVE  Cardinality(LetIn') <= faults'
  <2>1. IsFiniteSet(LetIn \cup {r}) /\ Cardinality(LetIn \cup {r}) <= Cardinality(LetIn) + 1
    BY <1>1, <1>2, FS_AddElement
  <2>2. Cardinality(LetIn \cup {r}) \in Nat
    BY <2>1, FS_CardinalityType
  <2>3. Cardinality(LetIn') <= Cardinality(LetIn \cup {r}) /\ Cardinality(LetIn') \in Nat
    BY <1>4, <2>1, FS_Subset, FS_CardinalityType
  <2>4. QED
    BY <1>2, <1>4, <2>1, <2>2, <2>3
<1>5. QED
  BY <1>3, <1>4, StepBought

LEMMA Invariance == Spec => []IInv
<1>1. Init => IInv
  BY InitOK, FS_EmptySet DEF IInv
<1>2. IInv /\ [Next]_vars => IInv'
  BY StepTyped, StepOwned, StepTrue, StepUnfailed, StepCounted DEF IInv
<1>3. QED
  BY <1>1, <1>2, PTL DEF Spec

(* The state of the gate keeps its type.                                   *)
THEOREM TypeCorrect == Spec => []TypeOK
<1>1. IInv => TypeOK
  BY DEF IInv
<1>2. QED
  BY <1>1, Invariance, PTL

(* One effect per key, and one more for each fault at most.                *)
THEOREM OnePerKey == Spec => []AtMostOnePerKey
<1>1. ASSUME IInv, NEW k \in Keys
      PROVE  /\ Cardinality(Effects(k) \cap registered) <= 1
             /\ Cardinality(Effects(k)) <= 1 + faults
  <2>1. \A q, r \in Effects(k) \cap registered : q = r
    BY <1>1 DEF IInv, Owned, Effects
  <2>2. IsFiniteSet(Requests) /\ Effects(k) \subseteq Requests /\ LetIn \subseteq Requests
    BY <1>1, GateAssumption DEF GateAssumption, IInv, TypeOK, Effects, LetIn
  <2>3. IsFiniteSet(Effects(k) \cap registered) /\ IsFiniteSet(LetIn)
    BY <2>2, FS_Subset, FS_Intersection
  <2>4. /\ Cardinality(Effects(k) \cap registered) <= 1
        /\ Cardinality(Effects(k) \cap registered) \in Nat
    <3>1. CASE Effects(k) \cap registered = {}
      BY <3>1, FS_EmptySet
    <3>2. ASSUME NEW r \in Effects(k) \cap registered
          PROVE  /\ Cardinality(Effects(k) \cap registered) <= 1
                 /\ Cardinality(Effects(k) \cap registered) \in Nat
      <4>1. Effects(k) \cap registered = {r}
        BY <2>1
      <4>2. Cardinality({r}) = 1
        BY FS_Singleton
      <4>3. QED
        BY <4>1, <4>2
    <3>3. QED
      BY <3>1, <3>2
  <2>5. Effects(k) \subseteq (Effects(k) \cap registered) \cup LetIn
    BY <1>1, <2>2 DEF LetIn, Effects
  <2>6. Cardinality((Effects(k) \cap registered) \cup LetIn)
          <= Cardinality(Effects(k) \cap registered) + Cardinality(LetIn)
    <3>1. Cardinality((Effects(k) \cap registered) \cup LetIn)
            = Cardinality(Effects(k) \cap registered) + Cardinality(LetIn)
              - Cardinality((Effects(k) \cap registered) \cap LetIn)
      BY <2>3, FS_Union
    <3>2. Cardinality((Effects(k) \cap registered) \cap LetIn) \in Nat
      BY <2>3, FS_Intersection, FS_CardinalityType
    <3>3. QED
      BY <2>3, <3>1, <3>2, FS_CardinalityType
  <2>7. Cardinality(Effects(k)) <= Cardinality((Effects(k) \cap registered) \cup LetIn)
    BY <2>3, <2>5, FS_Union, FS_Subset
  <2>8. /\ Cardinality(Effects(k)) \in Nat
        /\ Cardinality(LetIn) \in Nat
        /\ Cardinality((Effects(k) \cap registered) \cup LetIn) \in Nat
        /\ faults \in Nat
        /\ Cardinality(LetIn) <= faults
    BY <1>1, <2>2, <2>3, FS_Subset, FS_Union, FS_CardinalityType, GateAssumption
    DEF IInv, TypeOK, GateAssumption
  <2>9. QED
    BY <2>4, <2>6, <2>7, <2>8
<1>2. IInv => AtMostOnePerKey
  BY <1>1 DEF AtMostOnePerKey, Effects
<1>3. QED
  BY <1>2, Invariance, PTL

(* Every SUCCESS, first-hand or replayed, is about an effect of the key.   *)
THEOREM SuccessOnlyIfReal == Spec => []SuccessIsReal
<1>1. IInv => SuccessIsReal
  BY DEF IInv, True, Paid, SuccessIsReal
<1>2. QED
  BY <1>1, Invariance, PTL

(* While nothing fails, completed rows are rewritten by rejected requests  *)
(* of /transaction/initiate only.                                          *)
THEOREM RewrittenOnlyByRejected == Spec => CompletedRewrittenOnlyByRejected
<1> DEFINE Excused ==
      \A k \in Keys :
        record[k].status = "COMPLETED" /\ record'[k] # record[k] /\ faults = 0 =>
          \E r \in Requests \ registered :
            /\ key[r] = k /\ pc[r] \in {"update", "lastUpdate"} /\ pc'[r] = "done"
            /\ route[r] = "initiate" /\ answer[r].code \in {400, 429}
<1>1. ASSUME IInv, [Next]_vars PROVE Excused
  <2> USE <1>1 DEF IInv, TypeOK, Owned, Unfailed
  <2>1. ASSUME NEW r \in Requests, InsertNew(r) PROVE Excused
    BY <2>1 DEF InsertNew, NoRecord
  <2>2. ASSUME NEW r \in Requests, UpdateOk(r) PROVE Excused
    BY <2>2 DEF UpdateOk, Store, Goto
  <2>3. ASSUME NEW r \in Requests,
               \/ Refuse(r) \/ RejectThroughFinish(r) \/ Admit(r) \/ LetThrough(r)
               \/ InsertDuplicate(r) \/ Conflict(r) \/ Replay(r) \/ RejectChannel(r)
               \/ Commit(r) \/ Return(r) \/ Throw(r) \/ UpdateLost(r) \/ UpdateThrows(r)
        PROVE  Excused
    BY <2>3 DEF Refuse, RejectThroughFinish, Admit, LetThrough, InsertDuplicate, Conflict, Replay,
       RejectChannel, Commit, Return, Throw, UpdateLost, UpdateThrows
  <2>4. CASE Crash \/ UNCHANGED vars
    BY <2>4 DEF Crash, vars
  <2>5. QED
    BY <2>1, <2>2, <2>3, <2>4 DEF Next, Proceed, Finished
<1>2. IInv /\ [Next]_vars => [Excused]_vars
  BY <1>1
<1>3. QED
  BY <1>2, Invariance, PTL DEF Spec, CompletedRewrittenOnlyByRejected

(***************************************************************************)
(* ThreeDSecure.  A challenge is parked once (ParkOnce), so one that was   *)
(* used never becomes PENDING again, and a late verification that still    *)
(* reads it PENDING finds it lapsed at the comparison (LateIsRefused).     *)
(***************************************************************************)

Used(c) == status[c] \in {"VERIFIED", "EXPIRED"}
Parking(w) == stage[w] \in {"parkConnect", "park"}

(* Who is about to park a challenge is alone in that, and it has no row;   *)
(* a verification that has read its row has one.                           *)
ParkOnce ==
  \A w \in Workers :
    /\ Parking(w) =>
         /\ status[chal[w]] = "none"
         /\ \A v \in Workers : Parking(v) /\ chal[v] = chal[w] => v = w
    /\ stage[w] \in {"check", "mark"} => status[chal[w]] # "none"

(* Where a late verification is turned away. *)
LateIsRefused ==
  \A w \in Workers : late[w] =>
    /\ stage[w] \in {"connect", "read"} => Used(chal[w]) \/ chal[w] \in lapsed
    /\ stage[w] = "check" => chal[w] \in lapsed

TdsInv ==
  /\ TdsTypeOK
  /\ SessionsMatchWork
  /\ ParkOnce
  /\ LateIsRefused
  /\ LateRequestsNeverPay
  /\ StatusTellsTruth

(* Nothing is parked, used or under way. *)
LEMMA InitIInv == TdsInit => TdsInv
<1> SUFFICES ASSUME TdsInit PROVE TdsInv
  OBVIOUS
<1> USE TdsAssumption DEF TdsInit
<1>1. TdsTypeOK
  BY DEF TdsTypeOK
<1>2. SessionsMatchWork
  BY DEF SessionsMatchWork
<1>3. ParkOnce /\ LateIsRefused /\ LateRequestsNeverPay /\ StatusTellsTruth
  BY DEF ParkOnce, Parking, LateIsRefused, LateRequestsNeverPay, StatusTellsTruth
<1>4. QED
  BY <1>1, <1>2, <1>3 DEF TdsInv

(* A session more, at the step that uses it. *)
LEMMA ConnectStep ==
  ASSUME TdsInv, NEW w \in Workers, Connect(w)
  PROVE  TdsInv'
<1> USE DEF TdsInv, Connect, Connecting, AfterConnect, TdsGoto, locals
<1>1. TdsTypeOK'
  BY DEF TdsTypeOK, SessionsMatchWork
<1>2. SessionsMatchWork'
  BY DEF TdsTypeOK, SessionsMatchWork
<1>3. ParkOnce'
  BY DEF TdsTypeOK, ParkOnce, Parking
<1>4. LateIsRefused'
  BY DEF TdsTypeOK, ParkOnce, Parking, LateIsRefused, Used
<1>5. LateRequestsNeverPay'
  BY DEF TdsTypeOK, LateIsRefused, LateRequestsNeverPay
<1>6. StatusTellsTruth'
  BY DEF TdsTypeOK, ParkOnce, Parking, StatusTellsTruth
<1>7. QED
  BY <1>1, <1>2, <1>3, <1>4, <1>5, <1>6

(* The wait ends, what is held stays held until Finish. *)
LEMMA ConnectTimeOutStep ==
  ASSUME TdsInv, NEW w \in Workers, ConnectTimeOut(w)
  PROVE  TdsInv'
<1> USE DEF TdsInv, ConnectTimeOut, Connecting, AfterConnect, TdsGoto, locals
<1>1. TdsTypeOK'
  BY DEF TdsTypeOK, SessionsMatchWork
<1>2. SessionsMatchWork'
  BY DEF TdsTypeOK, SessionsMatchWork
<1>3. ParkOnce'
  BY DEF TdsTypeOK, ParkOnce, Parking
<1>4. LateIsRefused'
  BY DEF TdsTypeOK, ParkOnce, Parking, LateIsRefused, Used
<1>5. LateRequestsNeverPay'
  BY DEF TdsTypeOK, LateIsRefused, LateRequestsNeverPay
<1>6. StatusTellsTruth'
  BY DEF TdsTypeOK, ParkOnce, Parking, StatusTellsTruth
<1>7. QED
  BY <1>1, <1>2, <1>3, <1>4, <1>5, <1>6

LEMMA FinishStep ==
  ASSUME TdsInv, NEW w \in Workers, Finish(w)
  PROVE  TdsInv'
<1> USE DEF TdsInv, Finish, TdsGoto, locals
<1>1. TdsTypeOK'
  BY DEF TdsTypeOK, SessionsMatchWork
<1>2. SessionsMatchWork'
  BY DEF TdsTypeOK, SessionsMatchWork
<1>3. ParkOnce'
  BY DEF TdsTypeOK, ParkOnce, Parking
<1>4. LateIsRefused'
  BY DEF TdsTypeOK, ParkOnce, Parking, LateIsRefused, Used
<1>5. LateRequestsNeverPay'
  BY DEF TdsTypeOK, LateIsRefused, LateRequestsNeverPay
<1>6. StatusTellsTruth'
  BY DEF TdsTypeOK, ParkOnce, Parking, StatusTellsTruth
<1>7. QED
  BY <1>1, <1>2, <1>3, <1>4, <1>5, <1>6

(* The challenge is new and nobody else's. *)
LEMMA ReceiveInitiateStep ==
  ASSUME TdsInv, NEW w \in Workers, ReceiveInitiate(w)
  PROVE  TdsInv'
<1> USE DEF TdsInv, ReceiveInitiate, TdsGoto, locals
<1>1. TdsTypeOK'
  BY TdsAssumption DEF TdsTypeOK, SessionsMatchWork
<1>2. SessionsMatchWork'
  BY DEF TdsTypeOK, SessionsMatchWork
<1>3. ParkOnce'
  BY DEF TdsTypeOK, ParkOnce, Parking
<1>4. LateIsRefused'
  BY DEF TdsTypeOK, ParkOnce, Parking, LateIsRefused, Used
<1>5. LateRequestsNeverPay'
  BY DEF TdsTypeOK, LateIsRefused, LateRequestsNeverPay
<1>6. StatusTellsTruth'
  BY DEF TdsTypeOK, ParkOnce, Parking, StatusTellsTruth
<1>7. QED
  BY <1>1, <1>2, <1>3, <1>4, <1>5, <1>6

(* The challenge had no row, so it was neither paid nor used. *)
LEMMA ParkStep ==
  ASSUME TdsInv, NEW w \in Workers, Park(w)
  PROVE  TdsInv'
<1> USE DEF TdsInv, Park, TdsGoto, SetStatus, locals
<1>1. TdsTypeOK'
  BY DEF TdsTypeOK, SessionsMatchWork
<1>2. SessionsMatchWork'
  BY DEF TdsTypeOK, SessionsMatchWork
<1>3. ParkOnce'
  BY DEF TdsTypeOK, ParkOnce, Parking
<1>4. LateIsRefused'
  BY DEF TdsTypeOK, ParkOnce, Parking, LateIsRefused, Used
<1>5. LateRequestsNeverPay'
  BY DEF TdsTypeOK, LateIsRefused, LateRequestsNeverPay
<1>6. StatusTellsTruth'
  BY DEF TdsTypeOK, ParkOnce, Parking, StatusTellsTruth
<1>7. QED
  BY <1>1, <1>2, <1>3, <1>4, <1>5, <1>6

(* A late request is one by what its challenge is now. *)
LEMMA ReceiveVerifyStep ==
  ASSUME TdsInv, NEW w \in Workers, ReceiveVerify(w)
  PROVE  TdsInv'
<1> USE DEF TdsInv, ReceiveVerify, TdsGoto, locals
<1>1. TdsTypeOK'
  BY TdsAssumption DEF TdsTypeOK, SessionsMatchWork
<1>2. SessionsMatchWork'
  BY DEF TdsTypeOK, SessionsMatchWork
<1>3. ParkOnce'
  BY DEF TdsTypeOK, ParkOnce, Parking
<1>4. LateIsRefused'
  <2> SUFFICES ASSUME NEW v \in Workers, late'[v]
               PROVE  /\ stage'[v] \in {"connect", "read"} => Used(chal[v])' \/ chal'[v] \in lapsed'
                      /\ stage'[v] = "check" => chal'[v] \in lapsed'
    BY DEF LateIsRefused
  <2>1. CASE v = w
    BY <2>1 DEF TdsTypeOK, Used
  <2>2. CASE v # w
    <3>1. stage'[v] = stage[v] /\ chal'[v] = chal[v] /\ late'[v] = late[v]
      BY <2>2 DEF TdsTypeOK
    <3>2. QED
      BY <3>1 DEF LateIsRefused, Used
  <2>3. QED
    BY <2>1, <2>2
<1>5. LateRequestsNeverPay'
  BY DEF TdsTypeOK, LateIsRefused, LateRequestsNeverPay
<1>6. StatusTellsTruth'
  BY DEF TdsTypeOK, ParkOnce, Parking, StatusTellsTruth
<1>7. QED
  BY <1>1, <1>2, <1>3, <1>4, <1>5, <1>6

(* A late one reads PENDING only if its challenge has lapsed. *)
LEMMA ReadStep ==
  ASSUME TdsInv, NEW w \in Workers, Read(w)
  PROVE  TdsInv'
<1> USE DEF TdsInv, Read, TdsGoto, Usable, locals
<1>1. TdsTypeOK'
  BY DEF TdsTypeOK, SessionsMatchWork
<1>2. SessionsMatchWork'
  BY DEF TdsTypeOK, SessionsMatchWork
<1>3. ParkOnce'
  BY DEF TdsTypeOK, ParkOnce, Parking
<1>4. LateIsRefused'
  BY DEF TdsTypeOK, ParkOnce, Parking, LateIsRefused, Used
<1>5. LateRequestsNeverPay'
  BY DEF TdsTypeOK, LateIsRefused, LateRequestsNeverPay
<1>6. StatusTellsTruth'
  BY DEF TdsTypeOK, ParkOnce, Parking, StatusTellsTruth
<1>7. QED
  BY <1>1, <1>2, <1>3, <1>4, <1>5, <1>6

LEMMA ExpireStep ==
  ASSUME TdsInv, NEW w \in Workers, Expire(w)
  PROVE  TdsInv'
<1> USE DEF TdsInv, Expire, TdsGoto, SetStatus, locals
<1>1. TdsTypeOK'
  BY DEF TdsTypeOK, SessionsMatchWork
<1>2. SessionsMatchWork'
  BY DEF TdsTypeOK, SessionsMatchWork
<1>3. ParkOnce'
  BY DEF TdsTypeOK, ParkOnce, Parking
<1>4. LateIsRefused'
  BY DEF TdsTypeOK, ParkOnce, Parking, LateIsRefused, Used
<1>5. LateRequestsNeverPay'
  BY DEF TdsTypeOK, LateIsRefused, LateRequestsNeverPay
<1>6. StatusTellsTruth'
  BY DEF TdsTypeOK, ParkOnce, Parking, StatusTellsTruth
<1>7. QED
  BY <1>1, <1>2, <1>3, <1>4, <1>5, <1>6

(* A late one does not get here: its challenge has lapsed. *)
LEMMA CompareOtpStep ==
  ASSUME TdsInv, NEW w \in Workers, CompareOtp(w)
  PROVE  TdsInv'
<1> USE DEF TdsInv, CompareOtp, TdsGoto, locals
<1>1. TdsTypeOK'
  BY DEF TdsTypeOK, SessionsMatchWork
<1>2. SessionsMatchWork'
  BY DEF TdsTypeOK, SessionsMatchWork
<1>3. ParkOnce'
  BY DEF TdsTypeOK, ParkOnce, Parking
<1>4. LateIsRefused'
  BY DEF TdsTypeOK, ParkOnce, Parking, LateIsRefused, Used
<1>5. LateRequestsNeverPay'
  BY DEF TdsTypeOK, LateIsRefused, LateRequestsNeverPay
<1>6. StatusTellsTruth'
  BY DEF TdsTypeOK, ParkOnce, Parking, StatusTellsTruth
<1>7. QED
  BY <1>1, <1>2, <1>3, <1>4, <1>5, <1>6

LEMMA MarkStep ==
  ASSUME TdsInv, NEW w \in Workers, Mark(w)
  PROVE  TdsInv'
<1> USE DEF TdsInv, Mark, TdsGoto, SetStatus, locals
<1>1. TdsTypeOK'
  BY DEF TdsTypeOK, SessionsMatchWork
<1>2. SessionsMatchWork'
  BY DEF TdsTypeOK, SessionsMatchWork
<1>3. ParkOnce'
  BY DEF TdsTypeOK, ParkOnce, Parking
<1>4. LateIsRefused'
  BY DEF TdsTypeOK, ParkOnce, Parking, LateIsRefused, Used
<1>5. LateRequestsNeverPay'
  BY DEF TdsTypeOK, LateIsRefused, LateRequestsNeverPay
<1>6. StatusTellsTruth'
  BY DEF TdsTypeOK, ParkOnce, Parking, StatusTellsTruth
<1>7. QED
  BY <1>1, <1>2, <1>3, <1>4, <1>5, <1>6

LEMMA PayStep ==
  ASSUME TdsInv, NEW w \in Workers, Pay(w)
  PROVE  TdsInv'
<1> USE DEF TdsInv, Pay, TdsGoto, PaymentEnds, locals
<1>1. TdsTypeOK'
  BY DEF TdsTypeOK, SessionsMatchWork
<1>2. SessionsMatchWork'
  BY DEF TdsTypeOK, SessionsMatchWork
<1>3. ParkOnce'
  BY DEF TdsTypeOK, ParkOnce, Parking
<1>4. LateIsRefused'
  BY DEF TdsTypeOK, ParkOnce, Parking, LateIsRefused, Used
<1>5. LateRequestsNeverPay'
  BY DEF TdsTypeOK, LateIsRefused, LateRequestsNeverPay
<1>6. StatusTellsTruth'
  BY DEF TdsTypeOK, ParkOnce, Parking, StatusTellsTruth
<1>7. QED
  BY <1>1, <1>2, <1>3, <1>4, <1>5, <1>6

LEMMA PayRefusedStep ==
  ASSUME TdsInv, NEW w \in Workers, PayRefused(w)
  PROVE  TdsInv'
<1> USE DEF TdsInv, PayRefused, TdsGoto, PaymentEnds, locals
<1>1. TdsTypeOK'
  BY DEF TdsTypeOK, SessionsMatchWork
<1>2. SessionsMatchWork'
  BY DEF TdsTypeOK, SessionsMatchWork
<1>3. ParkOnce'
  BY DEF TdsTypeOK, ParkOnce, Parking
<1>4. LateIsRefused'
  BY DEF TdsTypeOK, ParkOnce, Parking, LateIsRefused, Used
<1>5. LateRequestsNeverPay'
  BY DEF TdsTypeOK, LateIsRefused, LateRequestsNeverPay
<1>6. StatusTellsTruth'
  BY DEF TdsTypeOK, ParkOnce, Parking, StatusTellsTruth
<1>7. QED
  BY <1>1, <1>2, <1>3, <1>4, <1>5, <1>6

(* Whatever the failing statement did, the request is over. *)
LEMMA FailStep ==
  ASSUME TdsInv, NEW w \in Workers, Fail(w)
  PROVE  TdsInv'
<1> USE DEF TdsInv, Fail, TdsGoto, SetStatus, locals
<1>1. TdsTypeOK'
  BY DEF TdsTypeOK, SessionsMatchWork
<1>2. SessionsMatchWork'
  BY DEF TdsTypeOK, SessionsMatchWork
<1>3. ParkOnce'
  BY DEF TdsTypeOK, ParkOnce, Parking
<1>4. LateIsRefused'
  BY DEF TdsTypeOK, ParkOnce, Parking, LateIsRefused, Used
<1>5. LateRequestsNeverPay'
  BY DEF TdsTypeOK, LateIsRefused, LateRequestsNeverPay
<1>6. StatusTellsTruth'
  BY DEF TdsTypeOK, ParkOnce, Parking, StatusTellsTruth
<1>7. QED
  BY <1>1, <1>2, <1>3, <1>4, <1>5, <1>6

(* Time passes for everybody: what was lapsed stays so. *)
LEMMA LapseStep ==
  ASSUME TdsInv, Lapse
  PROVE  TdsInv'
  BY DEF TdsInv, Lapse, locals, TdsTypeOK, SessionsMatchWork, ParkOnce, Parking,
         LateIsRefused, Used, LateRequestsNeverPay, StatusTellsTruth

LEMMA TdsStutterStep ==
  ASSUME TdsInv, UNCHANGED tdsVars
  PROVE  TdsInv'
  BY DEF TdsInv, tdsVars, locals, TdsTypeOK, SessionsMatchWork, ParkOnce, Parking,
         LateIsRefused, Used, LateRequestsNeverPay, StatusTellsTruth

LEMMA TdsInductive == TdsInv /\ [TdsNext]_tdsVars => TdsInv'
<1> SUFFICES ASSUME TdsInv, [TdsNext]_tdsVars PROVE TdsInv'
  OBVIOUS
<1>1. ASSUME NEW w \in Workers, Connect(w) PROVE TdsInv'
  BY <1>1, ConnectStep
<1>2. ASSUME NEW w \in Workers, ConnectTimeOut(w) PROVE TdsInv'
  BY <1>2, ConnectTimeOutStep
<1>3. ASSUME NEW w \in Workers, Finish(w) PROVE TdsInv'
  BY <1>3, FinishStep
<1>4. ASSUME NEW w \in Workers, ReceiveInitiate(w) PROVE TdsInv'
  BY <1>4, ReceiveInitiateStep
<1>5. ASSUME NEW w \in Workers, Park(w) PROVE TdsInv'
  BY <1>5, ParkStep
<1>6. ASSUME NEW w \in Workers, ReceiveVerify(w) PROVE TdsInv'
  BY <1>6, ReceiveVerifyStep
<1>7. ASSUME NEW w \in Workers, Read(w) PROVE TdsInv'
  BY <1>7, ReadStep
<1>8. ASSUME NEW w \in Workers, Expire(w) PROVE TdsInv'
  BY <1>8, ExpireStep
<1>9. ASSUME NEW w \in Workers, CompareOtp(w) PROVE TdsInv'
  BY <1>9, CompareOtpStep
<1>10. ASSUME NEW w \in Workers, Mark(w) PROVE TdsInv'
  BY <1>10, MarkStep
<1>11. ASSUME NEW w \in Workers, Pay(w) PROVE TdsInv'
  BY <1>11, PayStep
<1>12. ASSUME NEW w \in Workers, PayRefused(w) PROVE TdsInv'
  BY <1>12, PayRefusedStep
<1>13. ASSUME NEW w \in Workers, Fail(w) PROVE TdsInv'
  BY <1>13, FailStep
<1>14. CASE Lapse
  BY <1>14, LapseStep
<1>15. CASE UNCHANGED tdsVars
  BY <1>15, TdsStutterStep
<1>16. QED
  BY <1>1, <1>2, <1>3, <1>4, <1>5, <1>6, <1>7, <1>8, <1>9, <1>10, <1>11, <1>12, <1>13, <1>14, <1>15
     DEF TdsNext, Step, TdsFinished

THEOREM TdsInvariance == TdsSpec => []TdsInv
  BY InitIInv, TdsInductive, PTL DEF TdsSpec

(* Every variable keeps its type; the sessions of a request never exceed   *)
(* the two that its handler and its payment draw.                          *)
THEOREM TdsTyped == TdsSpec => []TdsTypeOK
<1>1. TdsInv => TdsTypeOK
  BY DEF TdsInv
<1>2. QED
  BY <1>1, TdsInvariance, PTL

(* No refusal, time-out or failure leaks a session. *)
THEOREM SessionsAccounted == TdsSpec => []SessionsMatchWork
<1>1. TdsInv => SessionsMatchWork
  BY DEF TdsInv
<1>2. QED
  BY <1>1, TdsInvariance, PTL

(* Once a challenge is used or has lapsed, no verification that arrives    *)
(* then makes its payment.                                                 *)
THEOREM LateNeverPays == TdsSpec => []LateRequestsNeverPay
<1>1. TdsInv => LateRequestsNeverPay
  BY DEF TdsInv
<1>2. QED
  BY <1>1, TdsInvariance, PTL

(* The status column tells used, expired and open challenges apart.        *)
THEOREM StatusIsTrue == TdsSpec => []StatusTellsTruth
<1>1. TdsInv => StatusTellsTruth
  BY DEF TdsInv
<1>2. QED
  BY <1>1, TdsInvariance, PTL
=============================================================================
