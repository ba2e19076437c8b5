---------------------------- MODULE RouterProofs ----------------------------
(***************************************************************************)
(* The server in front of the channels, parser&router.cpp: the life of a   *)
(* request, with what its handler draws and how it gives it back           *)
(* (Dispatch), and the limit on the requests of a client (RateLimiter).    *)
(* For any requests, accounts, sequences of account locks, size of the     *)
(* pool, threads, clients, limit, window and interval of the sweep.        *)
(***************************************************************************)
EXTENDS Dispatch, RateLimiter, Sums, TLAPS

(***************************************************************************)
(* Dispatch: what a plan draws                                             *)
(***************************************************************************)

NoneLeft(s) == \A i \in DOMAIN s : s[i] # "session"
AtMostOne(s) == \A i, k \in DOMAIN s : s[i] = "session" /\ s[k] = "session" => i = k

LEMMA StepsApart == Accounts \cap {"session", "commit", "drop"} = {}
  BY DispatchAssumption DEF DispatchAssumption

(* Doing the first step of a plan.                                         *)
LEMMA TailDraws ==
  ASSUME NEW s \in Seq(Steps), s # <<>>
  PROVE  /\ Tail(s) \in Seq(Steps)
         /\ NoneLeft(s) => NoneLeft(Tail(s))
         /\ AtMostOne(s) => AtMostOne(Tail(s))
         /\ AtMostOne(s) /\ Head(s) = "session" => NoneLeft(Tail(s))
<1>1. /\ Tail(s) \in Seq(Steps)
      /\ Len(Tail(s)) = Len(s) - 1
      /\ \A i \in 1..Len(s) - 1 : Tail(s)[i] = s[i + 1]
  OBVIOUS
<1>2. DOMAIN s = 1..Len(s) /\ DOMAIN Tail(s) = 1..Len(s) - 1 /\ Len(s) \in Nat
  BY <1>1
<1>3. \A i \in DOMAIN Tail(s) : i + 1 \in DOMAIN s /\ Tail(s)[i] = s[i + 1] /\ i \in Nat /\ i > 0
  BY <1>1, <1>2
<1>4. 1 \in DOMAIN s /\ s[1] = Head(s)
  BY <1>2
<1>5. NoneLeft(s) => NoneLeft(Tail(s))
  BY <1>3 DEF NoneLeft
<1>6. AtMostOne(s) => AtMostOne(Tail(s))
  BY <1>3 DEF AtMostOne
<1>7. AtMostOne(s) /\ Head(s) = "session" => NoneLeft(Tail(s))
  BY <1>3, <1>4 DEF AtMostOne, NoneLeft
<1>8. QED
  BY <1>1, <1>5, <1>6, <1>7

(* Every channel's plan draws one session, at its beginning ...            *)
LEMMA PlainPlan ==
  ASSUME NEW accs \in Seq(Accounts)
  PROVE  /\ <<"session">> \o accs \o <<"commit">> \in Seq(Steps)
         /\ AtMostOne(<<"session">> \o accs \o <<"commit">>)
<1> DEFINE n == Len(accs)
           p == <<"session">> \o accs \o <<"commit">>
<1>0. n \in Nat /\ \A i \in 1..n : accs[i] \in Accounts /\ accs[i] # "session"
  BY StepsApart
<1>1. p \in Seq(Steps)
  <2>1. accs \in Seq(Steps)
    BY DEF Steps
  <2>2. <<"session">> \in Seq(Steps) /\ <<"commit">> \in Seq(Steps)
    BY DEF Steps
  <2>3. QED
    BY <2>1, <2>2
<1>2. Len(p) = n + 2
  OBVIOUS
<1>3. \A i \in 1..n + 2 : p[i] = IF i = 1 THEN "session" ELSE IF i = n + 2 THEN "commit" ELSE accs[i - 1]
  OBVIOUS
<1>4. DOMAIN p = 1..n + 2
  BY <1>1, <1>2
<1>5. \A i \in DOMAIN p : p[i] = "session" => i = 1
  <2> HIDE DEF p
  <2>1. QED
    BY <1>0, <1>3, <1>4
<1>6. QED
  <2> HIDE DEF p
  <2>1. AtMostOne(p)
    BY <1>5 DEF AtMostOne
  <2>2. QED
    BY <1>1, <2>1 DEF p

(* ... freezing one at its end.                                            *)
LEMMA FreezingPlan ==
  ASSUME NEW accs \in Seq(Accounts)
  PROVE  FreezePlan(accs) \in Seq(Steps) /\ AtMostOne(FreezePlan(accs))
<1> DEFINE n == Len(accs)
           p == accs \o <<"session", "commit">>
<1>0. n \in Nat /\ \A i \in 1..n : accs[i] \in Accounts /\ accs[i] # "session"
  BY StepsApart
<1>1. p \in Seq(Steps)
  <2>1. accs \in Seq(Steps) /\ <<"session", "commit">> \in Seq(Steps)
    BY DEF Steps
  <2>2. QED
    BY <2>1
<1>2. Len(p) = n + 2
  OBVIOUS
<1>3. \A i \in 1..n + 2 : p[i] = IF i <= n THEN accs[i] ELSE IF i = n + 1 THEN "session" ELSE "commit"
  OBVIOUS
<1>4. DOMAIN p = 1..n + 2
  BY <1>1, <1>2
<1>5. \A i \in DOMAIN p : p[i] = "session" => i = n + 1
  <2> HIDE DEF p
  <2>1. QED
    BY <1>0, <1>3, <1>4
<1>6. QED
  <2> HIDE DEF p
  <2>1. AtMostOne(p)
    BY <1>5 DEF AtMostOne
  <2>2. QED
    BY <1>1, <2>1 DEF p, FreezePlan

(* A verification draws one before the payment's.                          *)
LEMMA VerificationPlan ==
  ASSUME NEW accs \in Seq(Accounts)
  PROVE  /\ VerifyPlan(accs) \in Seq(Steps) /\ VerifyPlan(accs) # <<>>
         /\ Head(VerifyPlan(accs)) = "session"
         /\ AtMostOne(Tail(VerifyPlan(accs)))
<1> DEFINE p == EcomPlan(accs)
<1>1. p \in Seq(Steps) /\ AtMostOne(p)
  BY PlainPlan DEF EcomPlan
<1> HIDE DEF p
<1>2. "session" \in Steps
  BY DEF Steps
<1>3. <<"session">> \o p \in Seq(Steps)
  BY <1>1, <1>2
<1>4. Head(<<"session">> \o p) = "session" /\ Tail(<<"session">> \o p) = p
  BY <1>1, <1>2
<1>5. <<"session">> \o p # <<>>
  BY <1>1, <1>2
<1>6. QED
  BY <1>1, <1>3, <1>4, <1>5 DEF VerifyPlan, p

LEMMA PlanDraws ==
  ASSUME NEW q \in Offers
  PROVE  /\ Plan(q) \in Seq(Steps)
         /\ \/ AtMostOne(Plan(q))
            \/ /\ q.kind = "verify" /\ Plan(q) # <<>>
               /\ Head(Plan(q)) = "session" /\ AtMostOne(Tail(Plan(q)))
<1>1. q.kind \in Kinds /\ q.accs \in Seq(Accounts)
  BY DispatchAssumption DEF DispatchAssumption
<1>2. CASE q.kind = "freeze"
  <2>1. Plan(q) = FreezePlan(q.accs)
    BY <1>2 DEF Plan
  <2>2. QED
    BY <1>1, <2>1, FreezingPlan
<1>3. CASE q.kind = "verify"
  <2>1. Plan(q) = VerifyPlan(q.accs)
    BY <1>3 DEF Plan
  <2>2. QED
    BY <1>1, <1>3, <2>1, VerificationPlan
<1>4. CASE q.kind \notin {"freeze", "verify"}
  <2>1. Plan(q) = <<"session">> \o q.accs \o <<"commit">>
    BY <1>1, <1>4 DEF Plan, Kinds, Asynchronous, AtmPlan, PosPlan, EcomPlan, MobilePlan,
                      IccwPlan, QrPlan, RingPayPlan, ReversalPlan
  <2>2. QED
    BY <1>1, <2>1, PlainPlan
<1>5. QED
  BY <1>2, <1>3, <1>4

(***************************************************************************)
(* Dispatch: the inductive invariant                                       *)
(***************************************************************************)

Handler(r) == <<r, "handler">>
Reverser(r) == <<r, "reversal">>

Typed ==
  /\ pc \in [Requests -> {"idle", "queued", "waiting", "timedOut", "done"}]
  /\ req \in [Requests -> Offers \cup {NoRequest}]
  /\ spawned \subseteq Requests
  /\ todo \in [Jobs -> Seq(Steps)]
  /\ running \subseteq Jobs /\ committed \subseteq Jobs /\ dropped \subseteq Jobs
  /\ conns \in [Jobs -> 0..2]
  /\ owner \in [Accounts -> Jobs \cup {Nobody}]
  /\ dangling \in Nat /\ stage \in {"running", "flagged", "stopped", "destroyed"}

(* A request that came is one of those offered.                            *)
Asked == \A r \in Requests : pc[r] # "idle" => req[r] \in Offers

(* A handler runs only while its worker waits for it.                      *)
Awaited == \A r \in Requests : Handler(r) \in running => pc[r] \in {"waiting", "timedOut"}

(* A reversal is started once, for a withdrawal that was timed out.        *)
ReversedOnce ==
  \A r \in Requests :
    /\ r \in spawned \/ Reverser(r) \in running =>
         pc[r] \in {"timedOut", "done"} /\ req[r].kind = "withdrawal"
    /\ r \in spawned => Reverser(r) \notin running

(* Only a job that runs has steps left.                                    *)
AtWork == \A j \in Jobs \ running : todo[j] = <<>>

(* What job j holds and will draw: one session, in a verification two, the *)
(* first of them at once.                                                  *)
Draws(j) ==
  \/ NoneLeft(todo[j]) /\ (conns[j] = 2 => req[j[1]].kind = "verify")
  \/ conns[j] = 0 /\ AtMostOne(todo[j])
  \/ /\ req[j[1]].kind = "verify" /\ conns[j] = 0
     /\ todo[j] # <<>> /\ Head(todo[j]) = "session" /\ AtMostOne(Tail(todo[j]))
  \/ req[j[1]].kind = "verify" /\ conns[j] = 1 /\ AtMostOne(todo[j])

FewDraws == \A j \in Jobs : Draws(j)

(* The sessions go when every request is answered.                         *)
AnsweredFirst == stage = "destroyed" => \A r \in Requests : pc[r] \in {"idle", "done"}

IInv ==
  /\ Typed /\ Asked /\ Awaited /\ ReversedOnce /\ AtWork /\ FewDraws
  /\ ReleasedInFull /\ AnsweredFirst

LEMMA JobIs ==
  ASSUME NEW j \in Jobs
  PROVE  j[1] \in Requests /\ (j = Handler(j[1]) \/ j = Reverser(j[1]))
  BY DEF Jobs, Handler, Reverser

LEMMA JobsOf ==
  ASSUME NEW r \in Requests
  PROVE  Handler(r) \in Jobs /\ Reverser(r) \in Jobs /\ Handler(r) # Reverser(r)
  BY DEF Jobs, Handler, Reverser

LEMMA InvImplies == IInv => TypeOK /\ ReleasedInFull /\ NoHandlerAfterDestroy
<1> SUFFICES ASSUME IInv PROVE TypeOK /\ NoHandlerAfterDestroy
  BY DEF IInv
<1>1. TypeOK
  <2>1. \A j \in Jobs : conns[j] = 2 => req[j[1]].kind = "verify"
    BY DEF IInv, FewDraws, Draws
  <2>2. QED
    BY <2>1 DEF IInv, Typed, TypeOK
<1>2. ASSUME stage = "destroyed", NEW j \in Jobs, Uses(j)
      PROVE  j[2] = "reversal" /\ j[1] \notin spawned /\ req[j[1]].kind = "withdrawal"
  <2>1. j[1] \in Requests /\ (j = Handler(j[1]) \/ j = Reverser(j[1]))
    BY JobIs
  <2>2. j \in running
    <3>1. conns[j] \in 0..2
      BY DEF IInv, Typed
    <3>2. QED
      BY <1>2, <3>1 DEF IInv, ReleasedInFull, Uses, At
  <2>3. j # Handler(j[1])
    BY <1>2, <2>1, <2>2 DEF IInv, Awaited, AnsweredFirst
  <2>4. j = Reverser(j[1]) /\ j[2] = "reversal"
    BY <2>1, <2>3 DEF Reverser
  <2>5. QED
    BY <2>1, <2>2, <2>4 DEF IInv, ReversedOnce
<1>3. QED
  BY <1>1, <1>2 DEF NoHandlerAfterDestroy

LEMMA InitOK == Init => IInv
<1> SUFFICES ASSUME Init PROVE IInv
  OBVIOUS
<1>1. Typed
  BY DEF Init, Typed
<1>2. Asked /\ Awaited /\ AtWork /\ AnsweredFirst /\ ReversedOnce
  BY JobsOf DEF Init, Asked, Awaited, AtWork, AnsweredFirst, ReversedOnce
<1>3. FewDraws
  BY DEF Init, FewDraws, Draws, NoneLeft
<1>4. ReleasedInFull
  BY DispatchAssumption DEF DispatchAssumption, Init, ReleasedInFull
<1>5. QED
  BY <1>1, <1>2, <1>3, <1>4 DEF IInv

(***************************************************************************)
(* Dispatch: the steps of a job                                            *)
(***************************************************************************)

Works(j) == JobStep(j) \/ DatabaseDown(j) \/ Fail(j)

(* A job that ends or throws gives back what it has.                       *)
LEMMA EndingReleases ==
  ASSUME NEW j \in Jobs, End(j) \/ Throw(j)
  PROVE  /\ ReleaseAll(j)
         /\ \/ running' = running \ {j} /\ todo' = [todo EXCEPT ![j] = <<>>]
            \/ running' = running /\ todo' = [todo EXCEPT ![j] = <<"session", "drop">>]
  BY DEF End, Throw

(* How a job may go on: it ends, it takes its next step, or it goes over   *)
(* to writing a drop.                                                      *)
Ends(j) == running' = running \ {j} /\ todo' = [todo EXCEPT ![j] = <<>>] /\ ReleaseAll(j)
Retries(j) ==
  running' = running /\ todo' = [todo EXCEPT ![j] = <<"session", "drop">>] /\ ReleaseAll(j)
Draws1(j) ==
  /\ At(j, {"session"}) /\ Advance(j) /\ conns' = [conns EXCEPT ![j] = @ + 1]
  /\ UNCHANGED <<running, owner>>
Locks(j) ==
  /\ At(j, Accounts) /\ Advance(j) /\ UNCHANGED <<running, conns>>
  /\ owner[Head(todo[j])] = Nobody /\ owner' = [owner EXCEPT ![Head(todo[j])] = j]
Drops(j) ==
  At(j, Accounts) /\ todo' = [todo EXCEPT ![j] = <<"drop">>] /\ UNCHANGED <<running, conns, owner>>

LEMMA Ways ==
  ASSUME NEW j \in Jobs, Works(j)
  PROVE  /\ UNCHANGED <<pc, req, spawned, stage>>
         /\ j \in running
         /\ Ends(j) \/ (todo[j] # <<>> /\ Retries(j)) \/ Draws1(j) \/ Locks(j) \/ Drops(j)
         /\ committed' = committed \/ committed' = committed \cup {j}
         /\ dropped' = dropped \/ dropped' = dropped \cup {j}
<1> USE DEF At
<1>1. CASE DrawSession(j)
  BY <1>1 DEF DrawSession, Draws1
<1>2. CASE SessionTimeOut(j)
  BY <1>2, EndingReleases DEF SessionTimeOut, Ends, Retries
<1>3. CASE LockAccount(j)
  BY <1>3 DEF LockAccount, Locks
<1>4. CASE Commit(j)
  BY <1>4 DEF Commit, End, Ends
<1>5. CASE WriteDrop(j)
  BY <1>5 DEF WriteDrop, End, Ends
<1>6. CASE EndEmpty(j)
  BY <1>6 DEF EndEmpty, End, Ends
<1>7. CASE DatabaseDown(j)
  BY <1>7 DEF DatabaseDown, Drops
<1>8. CASE Fail(j)
  BY <1>8, EndingReleases DEF Fail, Ends, Retries
<1>9. QED
  BY <1>1, <1>2, <1>3, <1>4, <1>5, <1>6, <1>7, <1>8 DEF Works, JobStep

(* Deleted sessions are given back and drawn one by one.                   *)
LEMMA DanglingTyped ==
  ASSUME Typed, NEW j \in Jobs, Works(j)
  PROVE  dangling' \in Nat
<1>0. dangling \in Nat /\ conns[j] \in 0..2
  BY DEF Typed
<1>1. CASE DrawSession(j)
  <2>1. stage = "destroyed" => dangling > 0
    BY <1>1 DEF DrawSession, Free
  <2>2. QED
    BY <1>0, <1>1, <2>1 DEF DrawSession
<1>2. ASSUME ReleaseAll(j) PROVE dangling' \in Nat
  BY <1>0, <1>2 DEF ReleaseAll
<1>3. CASE LockAccount(j) \/ DatabaseDown(j)
  BY <1>0, <1>3 DEF LockAccount, DatabaseDown
<1>4. QED
  BY <1>1, <1>2, <1>3, EndingReleases
  DEF Works, JobStep, SessionTimeOut, Commit, WriteDrop, EndEmpty, Fail

(* What a step does to the other jobs: nothing.                            *)
LEMMA OthersStand ==
  ASSUME Typed, NEW j \in Jobs, Works(j), NEW k \in Jobs, k # j
  PROVE  /\ todo'[k] = todo[k] /\ conns'[k] = conns[k] /\ (k \in running' <=> k \in running)
         /\ \A a \in Accounts : owner'[a] = k => owner[a] = k
<1>1. CASE Ends(j) \/ Retries(j)
  BY <1>1, DispatchAssumption DEF DispatchAssumption, Typed, Ends, Retries, ReleaseAll
<1>2. CASE Draws1(j)
  BY <1>2 DEF Typed, Draws1, Advance
<1>3. CASE Locks(j)
  BY <1>3 DEF Typed, Locks, Advance
<1>4. CASE Drops(j)
  BY <1>4 DEF Typed, Drops
<1>5. QED
  BY <1>1, <1>2, <1>3, <1>4, Ways

(* What it does to its own.                                                *)
LEMMA OwnStep ==
  ASSUME IInv, NEW j \in Jobs, Works(j)
  PROVE  /\ todo'[j] \in Seq(Steps) /\ conns'[j] \in 0..2
         /\ Draws(j)'
         /\ j \notin running' \/ todo[j] = <<>> =>
              todo'[j] = <<>> /\ conns'[j] = 0 /\ \A a \in Accounts : owner'[a] # j
<1>0. /\ Typed /\ Draws(j) /\ j \in running /\ req' = req
      /\ todo[j] \in Seq(Steps) /\ conns[j] \in 0..2
  BY Ways DEF IInv, FewDraws, Typed
<1>1. CASE Ends(j)
  <2>1. todo'[j] = <<>> /\ conns'[j] = 0 /\ \A a \in Accounts : owner'[a] # j
    BY <1>0, <1>1, DispatchAssumption DEF DispatchAssumption, Typed, Ends, ReleaseAll
  <2>2. QED
    BY <2>1 DEF Draws, NoneLeft
<1>2. CASE todo[j] # <<>> /\ Retries(j)
  <2>1. todo'[j] = <<"session", "drop">> /\ conns'[j] = 0 /\ running' = running
    BY <1>0, <1>2 DEF Typed, Retries, ReleaseAll
  <2>2. <<"session", "drop">> \in Seq(Steps) /\ AtMostOne(<<"session", "drop">>)
    BY DEF Steps, AtMostOne
  <2>3. QED
    BY <1>0, <1>2, <2>1, <2>2 DEF Draws
<1>3. CASE Draws1(j)
  <2>1. /\ todo[j] # <<>> /\ Head(todo[j]) = "session" /\ todo'[j] = Tail(todo[j])
        /\ conns'[j] = conns[j] + 1 /\ running' = running
    BY <1>0, <1>3 DEF Typed, Draws1, Advance, At
  <2>2. /\ Tail(todo[j]) \in Seq(Steps)
        /\ ~NoneLeft(todo[j])
        /\ AtMostOne(todo[j]) => NoneLeft(Tail(todo[j]))
    BY <1>0, <2>1, TailDraws DEF NoneLeft
  <2>3. \/ conns[j] = 0 /\ NoneLeft(todo'[j])
        \/ req[j[1]].kind = "verify" /\ conns[j] = 0 /\ AtMostOne(todo'[j])
        \/ req[j[1]].kind = "verify" /\ conns[j] = 1 /\ NoneLeft(todo'[j])
    BY <1>0, <2>1, <2>2 DEF Draws
  <2>4. Draws(j)' /\ conns'[j] \in 0..2
    BY <1>0, <2>1, <2>3 DEF Draws
  <2>5. QED
    BY <1>0, <2>1, <2>2, <2>4
<1>4. CASE Locks(j)
  <2>1. /\ todo[j] # <<>> /\ Head(todo[j]) # "session" /\ todo'[j] = Tail(todo[j])
        /\ conns'[j] = conns[j] /\ running' = running
    BY <1>0, <1>4, StepsApart DEF Typed, Locks, Advance, At
  <2>2. /\ Tail(todo[j]) \in Seq(Steps)
        /\ NoneLeft(todo[j]) => NoneLeft(Tail(todo[j]))
        /\ AtMostOne(todo[j]) => AtMostOne(Tail(todo[j]))
    BY <1>0, <2>1, TailDraws
  <2>3. Draws(j)'
    BY <1>0, <2>1, <2>2 DEF Draws
  <2>4. QED
    BY <1>0, <2>1, <2>2, <2>3
<1>5. CASE Drops(j)
  <2>1. /\ todo[j] # <<>> /\ todo'[j] = <<"drop">>
        /\ conns'[j] = conns[j] /\ running' = running
    BY <1>0, <1>5, StepsApart DEF Typed, Drops, At
  <2>2. <<"drop">> \in Seq(Steps) /\ NoneLeft(<<"drop">>)
    BY DEF Steps, NoneLeft
  <2>3. conns[j] = 2 => req[j[1]].kind = "verify"
    BY <1>0 DEF Draws
  <2>4. QED
    BY <1>0, <2>1, <2>2, <2>3 DEF Draws
<1>6. QED
  BY <1>1, <1>2, <1>3, <1>4, <1>5, Ways

LEMMA WorksStep ==
  ASSUME IInv, NEW j \in Jobs, Works(j)
  PROVE  IInv'
<1>0. /\ Typed /\ UNCHANGED <<pc, req, spawned, stage>> /\ j \in running
  BY Ways DEF IInv
<1>1. /\ todo' \in [Jobs -> Seq(Steps)] /\ conns' \in [Jobs -> 0..2]
      /\ running' \subseteq running /\ running \subseteq running' \cup {j}
  <2>1. /\ todo' = [todo EXCEPT ![j] = todo'[j]] /\ conns' = [conns EXCEPT ![j] = conns'[j]]
        /\ running' \subseteq running /\ running \subseteq running' \cup {j}
    BY <1>0, Ways DEF Ends, Retries, Draws1, Locks, Drops, ReleaseAll, Advance, Typed
  <2>2. todo'[j] \in Seq(Steps) /\ conns'[j] \in 0..2
    BY OwnStep
  <2>3. QED
    BY <1>0, <2>1, <2>2 DEF Typed
<1>2. owner' \in [Accounts -> Jobs \cup {Nobody}]
  BY <1>0, Ways DEF Ends, Retries, Draws1, Locks, Drops, ReleaseAll, Typed
<1>3. Typed'
  BY <1>0, <1>1, <1>2, Ways, DanglingTyped DEF Typed
<1>4. Asked' /\ AnsweredFirst' /\ Awaited'
  BY <1>0, <1>1 DEF IInv, Asked, AnsweredFirst, Awaited
<1>5. ReversedOnce'
  BY <1>0, <1>1 DEF IInv, ReversedOnce
<1>6. FewDraws'
  <2> SUFFICES ASSUME NEW k \in Jobs PROVE Draws(k)'
    BY DEF FewDraws
  <2>1. CASE k = j
    BY <2>1, OwnStep
  <2>2. CASE k # j
    <3>1. todo'[k] = todo[k] /\ conns'[k] = conns[k] /\ req' = req
      BY <1>0, <2>2, OthersStand
    <3>2. Draws(k)
      BY DEF IInv, FewDraws
    <3>3. QED
      BY <3>1, <3>2 DEF Draws
  <2>3. QED
    BY <2>1, <2>2
<1>7. AtWork' /\ ReleasedInFull'
  <2> SUFFICES ASSUME NEW k \in Jobs, k \notin running'
               PROVE  todo'[k] = <<>> /\ conns'[k] = 0 /\ \A a \in Accounts : owner'[a] # k
    BY DEF AtWork, ReleasedInFull
  <2>1. CASE k = j
    BY <2>1, OwnStep
  <2>2. CASE k # j
    BY <1>0, <2>2, OthersStand DEF IInv, AtWork, ReleasedInFull
  <2>3. QED
    BY <2>1, <2>2
<1>8. QED
  BY <1>3, <1>4, <1>5, <1>6, <1>7 DEF IInv

(***************************************************************************)
(* Dispatch: the steps of a worker, of a detached thread and of main()     *)
(***************************************************************************)

(* A request that no job runs for may become another.                      *)
LEMMA AcceptStep ==
  ASSUME IInv, NEW r \in Requests, Accept(r)
  PROVE  IInv'
<1>0. Typed /\ pc[r] = "idle" /\ stage # "destroyed" /\ UNCHANGED <<spawned, jobVars, stage>>
  BY DEF IInv, Accept
<1>1. PICK q \in Offers : req' = [req EXCEPT ![r] = q]
  BY DEF Accept
<1>2. pc' = [pc EXCEPT ![r] = "queued"]
  BY DEF Accept, Goto
<1>3. Typed'
  BY <1>0, <1>1, <1>2 DEF Typed, jobVars
<1>4. Asked' /\ AnsweredFirst' /\ AtWork' /\ ReleasedInFull'
  BY <1>0, <1>1, <1>2 DEF IInv, Typed, Asked, AnsweredFirst, AtWork, ReleasedInFull, jobVars
<1>5. Handler(r) \notin running /\ Reverser(r) \notin running /\ r \notin spawned
  BY <1>0 DEF IInv, Awaited, ReversedOnce
<1>9. ReversedOnce'
  BY <1>0, <1>1, <1>2, <1>5 DEF IInv, Typed, ReversedOnce, jobVars
<1>6. Awaited'
  BY <1>0, <1>2, <1>5 DEF IInv, Typed, Awaited, jobVars
<1>7. FewDraws'
  <2> SUFFICES ASSUME NEW j \in Jobs PROVE Draws(j)'
    BY DEF FewDraws
  <2>0. todo' = todo /\ conns' = conns
    BY <1>0 DEF jobVars
  <2>1. CASE j[1] # r
    <3>1. req'[j[1]] = req[j[1]] /\ Draws(j)
      BY <1>0, <1>1, <2>1, JobIs DEF IInv, Typed, FewDraws
    <3>2. QED
      BY <2>0, <3>1 DEF Draws
  <2>2. CASE j[1] = r
    <3>1. todo[j] = <<>> /\ conns[j] = 0
      BY <1>5, <2>2, JobIs DEF IInv, AtWork, ReleasedInFull
    <3>2. QED
      BY <2>0, <3>1 DEF Draws, NoneLeft
  <2>3. QED
    BY <2>1, <2>2
<1>8. QED
  BY <1>3, <1>4, <1>6, <1>7, <1>9 DEF IInv

LEMMA BeginStep ==
  ASSUME IInv, NEW r \in Requests, Begin(r)
  PROVE  IInv'
<1> DEFINE h == Handler(r)
           p == Plan(req[r])
<1>0. /\ Typed /\ pc[r] = "queued" /\ h \in Jobs
      /\ UNCHANGED <<req, spawned, conns, owner, dangling, committed, dropped, stage>>
  BY JobsOf DEF IInv, Begin
<1>1. /\ todo' = [todo EXCEPT ![h] = p] /\ running' = running \cup {h}
      /\ pc' = [pc EXCEPT ![r] = "waiting"]
  BY DEF Begin, Goto, Handler
<1>2. p \in Seq(Steps) /\ (AtMostOne(p) \/ (/\ req[r].kind = "verify" /\ p # <<>>
                                            /\ Head(p) = "session" /\ AtMostOne(Tail(p))))
  <2>1. req[r] \in Offers
    BY <1>0 DEF IInv, Asked
  <2>2. QED
    BY <2>1, PlanDraws
<1>3. conns[h] = 0 /\ stage # "destroyed"
  BY <1>0 DEF IInv, Awaited, ReleasedInFull, AnsweredFirst
<1> HIDE DEF h, p
<1>4. Typed'
  BY <1>0, <1>1, <1>2 DEF Typed
<1>5. Asked' /\ AnsweredFirst'
  BY <1>0, <1>1, <1>3 DEF IInv, Typed, Asked, AnsweredFirst
<1>6. Awaited' /\ ReversedOnce'
  BY <1>0, <1>1, JobsOf DEF IInv, Typed, Awaited, ReversedOnce, Handler, Reverser, h
<1>7. AtWork' /\ ReleasedInFull'
  BY <1>0, <1>1 DEF IInv, Typed, AtWork, ReleasedInFull
<1>8. FewDraws'
  <2> SUFFICES ASSUME NEW j \in Jobs PROVE Draws(j)'
    BY DEF FewDraws
  <2>1. CASE j = h
    <3>1. todo'[j] = p /\ conns'[j] = 0 /\ req'[j[1]] = req[r]
      BY <1>0, <1>1, <1>3, <2>1 DEF Typed, h, Handler
    <3>2. QED
      BY <1>2, <3>1 DEF Draws
  <2>2. CASE j # h
    <3>1. todo'[j] = todo[j] /\ conns' = conns /\ req' = req /\ Draws(j)
      BY <1>0, <1>1, <2>2 DEF IInv, Typed, FewDraws
    <3>2. QED
      BY <3>1 DEF Draws
  <2>3. QED
    BY <2>1, <2>2
<1>9. QED
  BY <1>4, <1>5, <1>6, <1>7, <1>8 DEF IInv

(* A time-out and an answer change only where the worker is.               *)
LEMMA AnswerStep ==
  ASSUME IInv, NEW r \in Requests, TimeOut(r) \/ Reply(r)
  PROVE  IInv'
<1>0. /\ Typed /\ pc[r] # "idle" /\ UNCHANGED <<req, jobVars, stage>>
      /\ spawned' = spawned \/ (spawned' = spawned \cup {r} /\ req[r].kind = "withdrawal")
  BY DEF IInv, TimeOut, Reply
<1>1. \/ pc[r] = "waiting" /\ pc' = [pc EXCEPT ![r] = "timedOut"] /\ Handler(r) \in running
      \/ /\ pc[r] \in {"waiting", "timedOut"} /\ pc' = [pc EXCEPT ![r] = "done"]
         /\ Handler(r) \notin running /\ spawned' = spawned
  BY DEF TimeOut, Reply, Goto, Handler
<1>2. Typed'
  BY <1>0, <1>1 DEF Typed, jobVars
<1>3. Asked' /\ Awaited' /\ AnsweredFirst'
  BY <1>0, <1>1 DEF IInv, Typed, Asked, Awaited, AnsweredFirst, jobVars
<1>4. ReversedOnce'
  BY <1>0, <1>1 DEF IInv, Typed, ReversedOnce, jobVars
<1>5. AtWork' /\ ReleasedInFull' /\ FewDraws'
  BY <1>0 DEF IInv, AtWork, ReleasedInFull, FewDraws, Draws, jobVars
<1>6. QED
  BY <1>2, <1>3, <1>4, <1>5 DEF IInv

(* A reversal that goes on has nothing to do, or draws one session.        *)
LEMMA StartReversalStep ==
  ASSUME IInv, NEW r \in Requests, StartReversal(r)
  PROVE  IInv'
<1> DEFINE v == Reverser(r)
<1>0. /\ Typed /\ v \in Jobs /\ r \in spawned /\ spawned' = spawned \ {r}
      /\ UNCHANGED <<pc, req, conns, owner, dangling, committed, dropped, stage>>
  BY JobsOf DEF IInv, StartReversal
<1>1. /\ v \notin running /\ pc[r] \in {"timedOut", "done"} /\ req[r].kind = "withdrawal"
      /\ conns[v] = 0 /\ \A a \in Accounts : owner[a] # v
  BY <1>0 DEF IInv, ReversedOnce, ReleasedInFull
<1>2. CASE running' = running /\ todo' = todo
  <2>1. Typed'
    BY <1>0, <1>2 DEF Typed
  <2>2. Asked' /\ AnsweredFirst' /\ Awaited' /\ AtWork' /\ ReleasedInFull' /\ FewDraws'
    BY <1>0, <1>2 DEF IInv, Asked, AnsweredFirst, Awaited, AtWork, ReleasedInFull, FewDraws, Draws
  <2>3. ReversedOnce'
    BY <1>0, <1>2 DEF IInv, ReversedOnce
  <2>4. QED
    BY <2>1, <2>2, <2>3 DEF IInv
<1>3. ASSUME NEW plan \in AutoReversalPlans,
             running' = running \cup {v}, todo' = [todo EXCEPT ![v] = plan]
      PROVE  IInv'
  <2>1. plan \in Seq(Steps) /\ AtMostOne(plan)
    <3>1. <<>> \in Seq(Steps) /\ AtMostOne(<<>>)
      BY DEF AtMostOne
    <3>2. ASSUME NEW a \in Accounts
          PROVE  ReversalPlan(<<a>>) \in Seq(Steps) /\ AtMostOne(ReversalPlan(<<a>>))
      <4>1. <<a>> \in Seq(Accounts)
        OBVIOUS
      <4>2. QED
        BY <4>1, PlainPlan DEF ReversalPlan
    <3>3. QED
      BY <3>1, <3>2 DEF AutoReversalPlans
  <2>2. Typed'
    BY <1>0, <1>3, <2>1 DEF Typed
  <2>3. Asked' /\ AnsweredFirst'
    BY <1>0 DEF IInv, Asked, AnsweredFirst
  <2>4. Awaited'
    BY <1>0, <1>3 DEF IInv, Awaited, Handler, Reverser
  <2>5. ReversedOnce'
    BY <1>0, <1>1, <1>3, JobsOf DEF IInv, ReversedOnce, Reverser
  <2>6. AtWork' /\ ReleasedInFull'
    BY <1>0, <1>3 DEF IInv, Typed, AtWork, ReleasedInFull
  <2>7. FewDraws'
    <3> SUFFICES ASSUME NEW j \in Jobs PROVE Draws(j)'
      BY DEF FewDraws
    <3>1. CASE j = v
      <4>1. todo'[j] = plan /\ conns'[j] = 0
        BY <1>0, <1>1, <1>3, <3>1 DEF Typed
      <4>2. QED
        BY <2>1, <4>1 DEF Draws
    <3>2. CASE j # v
      <4>1. todo'[j] = todo[j] /\ conns' = conns /\ req' = req /\ Draws(j)
        BY <1>0, <1>3, <3>2 DEF IInv, Typed, FewDraws
      <4>2. QED
        BY <4>1 DEF Draws
    <3>3. QED
      BY <3>1, <3>2
  <2>8. QED
    BY <2>2, <2>3, <2>4, <2>5, <2>6, <2>7 DEF IInv
<1>4. QED
  BY <1>2, <1>3 DEF StartReversal, Reverser

LEMMA ShutdownStep ==
  ASSUME IInv, Signal \/ StopServer \/ Destroy \/ UNCHANGED vars
  PROVE  IInv'
<1>1. UNCHANGED <<pc, req, spawned, jobVars>>
  BY DEF Signal, StopServer, Destroy, vars
<1>2. /\ stage' \in {"running", "flagged", "stopped", "destroyed"}
      /\ stage' = "destroyed" => \A r \in Requests : pc[r] \in {"idle", "done"}
  BY DEF IInv, Typed, AnsweredFirst, Signal, StopServer, Destroy, vars
<1>3. Typed' /\ AnsweredFirst'
  BY <1>1, <1>2 DEF IInv, Typed, AnsweredFirst, jobVars
<1>4. Asked' /\ Awaited' /\ ReversedOnce' /\ AtWork' /\ ReleasedInFull' /\ FewDraws'
  BY <1>1
  DEF IInv, Asked, Awaited, ReversedOnce, AtWork, ReleasedInFull, FewDraws, Draws, jobVars
<1>5. QED
  BY <1>3, <1>4 DEF IInv

LEMMA StepOK == IInv /\ [Next]_vars => IInv'
<1> SUFFICES ASSUME IInv, [Next]_vars PROVE IInv'
  OBVIOUS
<1>1. ASSUME NEW r \in Requests, Accept(r) \/ TimeOut(r) \/ StartReversal(r) \/ WorkerStep(r)
      PROVE  IInv'
  BY <1>1, AcceptStep, AnswerStep, StartReversalStep, BeginStep DEF WorkerStep
<1>2. ASSUME NEW j \in Jobs, JobStep(j) \/ DatabaseDown(j) \/ Fail(j)
      PROVE  IInv'
  BY <1>2, WorksStep DEF Works
<1>3. CASE Signal \/ StopServer \/ Destroy \/ Stopped \/ UNCHANGED vars
  BY <1>3, ShutdownStep DEF Stopped
<1>4. QED
  BY <1>1, <1>2, <1>3 DEF Next

THEOREM Invariance == Spec => []IInv
  BY InitOK, StepOK, PTL DEF Spec

(* The state of requests, jobs, sessions and locks keeps its type: no job  *)
(* ever holds more than one session, a verification no more than two.      *)
THEOREM TypeCorrect == Spec => []TypeOK
  BY Invariance, InvImplies, PTL

(* However a job ends - its commit, an exception, a time-out on the pool,  *)
(* the write of its drop - it leaves no session and no account lock behind *)
(* (the destructors of the session and of ScopedLock).                     *)
THEOREM NothingLeftBehind == Spec => []ReleasedInFull
  BY Invariance, InvImplies, PTL

(* destroyPool() comes when no handler has a session or asks for one,      *)
(* however late its task ends: what uses the pool after it is a reversal   *)
(* that passed the test of the shutdown flag.                              *)
THEOREM PoolOutlivesItsHandlers == Spec => []NoHandlerAfterDestroy
  BY Invariance, InvImplies, PTL

(* A handler's transaction is never committed once its answer is sent, a   *)
(* TIMEOUT included.                                                       *)
THEOREM AnswerIsLast == Spec => NoCommitAfterAnswer
<1>1. IInv /\ [Next]_vars =>
        [\A r \in Requests :
           pc[r] = "done" => (<<r, "handler">> \in committed' => <<r, "handler">> \in committed)]_vars
  <2> SUFFICES ASSUME IInv, [Next]_vars, NEW r \in Requests, pc[r] = "done",
                      Handler(r) \in committed'
               PROVE  Handler(r) \in committed
    BY DEF Handler
  <2>1. Handler(r) \notin running
    BY DEF IInv, Awaited
  <2>2. ASSUME NEW j \in Jobs, Works(j) PROVE Handler(r) \in committed
    BY <2>1, <2>2, Ways
  <2>3. ASSUME committed' = committed PROVE Handler(r) \in committed
    BY <2>3
  <2>4. QED
    BY <2>2, <2>3 DEF Next, Works, WorkerStep, Accept, TimeOut, StartReversal, Begin, Reply,
                      Signal, StopServer, Destroy, Stopped, vars, jobVars
<1>2. QED
  BY <1>1, Invariance, PTL DEF Spec, NoCommitAfterAnswer

(***************************************************************************)
(* RateLimiter: a bucket never counts more than the limit, however late    *)
(* threads come to the mutex                                               *)
(***************************************************************************)

(* A thread at the mutex carries a client and a time of this run. *)
Carrying == \A w \in Threads : thread[w] = "clock" => client[w] \in Clients /\ now[w] \in Times

RLInv == RLTypeOK /\ Carrying

LEMMA RLInitOK == RLInit => RLInv
  BY RateLimiterAssumption DEF RateLimiterAssumption, RLInit, RLInv, RLTypeOK, Carrying, Times, Epoch

(* The sweep only forgets buckets.                                         *)
LEMMA SweptIsPart ==
  ASSUME NEW t
  PROVE  /\ DOMAIN Swept(t) \subseteq DOMAIN buckets
         /\ \A c \in DOMAIN Swept(t) : Swept(t)[c] = buckets[c]
  BY DEF Swept, Restrict

(* The bucket a request counts in has room up to the limit, and begins at  *)
(* a time of this run: a new bucket's window, which begins in 1970, is     *)
(* over.                                                                   *)
LEMMA CurrentTyped ==
  ASSUME NEW t \in Times, NEW b, b = NewBucket \/ b \in [count : 0..Max, windowStart : Times]
  PROVE  Current(b, t) \in [count : 0..Max, windowStart : Times]
<1>1. Window \in Nat /\ Window > 0 /\ Max \in Nat /\ MaxTime \in Nat /\ 0 \in 0..Max
  BY RateLimiterAssumption DEF RateLimiterAssumption
<1>2. t \in Nat /\ t >= 3 * Window
  BY <1>1 DEF Times, Epoch
<1>3. CASE b = NewBucket
  <2>1. t - b.windowStart >= Window
    BY <1>1, <1>2, <1>3 DEF NewBucket
  <2>2. QED
    BY <1>1, <2>1 DEF Current
<1>4. CASE b \in [count : 0..Max, windowStart : Times]
  BY <1>1, <1>4 DEF Current
<1>5. QED
  BY <1>3, <1>4

LEMMA CountStep ==
  ASSUME RLInv, NEW w \in Threads, Count(w)
  PROVE  RLInv'
<1> DEFINE Bucket == [count : 0..Max, windowStart : Times]
           c == client[w]
           kept == Swept(now[w])
           b == Current(IF c \in DOMAIN kept THEN kept[c] ELSE NewBucket, now[w])
           ok == b.count < Max
<1> USE DEF RLInv, RLTypeOK
<1>1. c \in Clients /\ now[w] \in Times /\ time \in Times
  BY DEF Count, Carrying
<1>2. DOMAIN kept \subseteq Clients /\ \A x \in DOMAIN kept : kept[x] \in Bucket
  BY SweptIsPart
<1>3. b \in Bucket
  BY <1>1, <1>2, CurrentTyped
<1>4. buckets' = [x \in DOMAIN kept \cup {c} |->
                    IF x # c THEN kept[x] ELSE IF ok THEN [b EXCEPT !.count = @ + 1] ELSE b]
  BY DEF Count
<1>5. ok => [b EXCEPT !.count = @ + 1] \in Bucket
  <2> HIDE DEF b
  <2>1. Max \in Nat
    BY RateLimiterAssumption DEF RateLimiterAssumption
  <2>2. QED
    BY <1>3, <2>1
<1>6. DOMAIN buckets' \subseteq Clients /\ \A x \in DOMAIN buckets' : buckets'[x] \in Bucket
  <2> HIDE DEF b, kept, c, Bucket
  <2>1. QED
    BY <1>1, <1>2, <1>3, <1>4, <1>5
<1>7. evictionCounter' \in 0..SweepEvery - 1
  BY RateLimiterAssumption DEF RateLimiterAssumption, Count
<1>8. admitted' \in [Clients -> [Times -> Nat]]
  <2>1. admitted[c][time] + 1 \in Nat
    BY <1>1
  <2>2. CASE admitted' = [admitted EXCEPT ![c][time] = @ + 1]
    BY <1>1, <2>1, <2>2
  <2>3. QED
    BY <2>2 DEF Count
<1>9. /\ thread' \in [Threads -> {"idle", "clock"}]
      /\ client' \in [Threads -> Clients \cup {NoClient}]
      /\ now' \in [Threads -> Times \cup {0}]
      /\ time' = time
  BY DEF Count
<1>10. Carrying'
  BY DEF Count, Carrying
<1>11. QED
  BY <1>1, <1>6, <1>7, <1>8, <1>9, <1>10

LEMMA RLStepOK == RLInv /\ [RLNext]_rlVars => RLInv'
<1> SUFFICES ASSUME RLInv, [RLNext]_rlVars PROVE RLInv'
  OBVIOUS
<1>1. ASSUME NEW w \in Threads, ReadClock(w) PROVE RLInv'
  BY <1>1 DEF ReadClock, RLInv, RLTypeOK, Carrying
<1>2. ASSUME NEW w \in Threads, Count(w) PROVE RLInv'
  BY <1>2, CountStep
<1>3. CASE Tick
  BY <1>3, RateLimiterAssumption
  DEF RateLimiterAssumption, Tick, RLInv, RLTypeOK, Carrying, Times, Epoch
<1>4. CASE UNCHANGED rlVars
  BY <1>4 DEF rlVars, RLInv, RLTypeOK, Carrying
<1>5. QED
  BY <1>1, <1>2, <1>3, <1>4 DEF RLNext

(* The state keeps its type: no bucket counts more than Max requests.      *)
THEOREM BucketsTyped == RLSpec => []RLTypeOK
<1>1. RLInit => RLInv
  BY RLInitOK
<1>2. RLInv => RLTypeOK
  BY DEF RLInv
<1>3. QED
  BY <1>1, <1>2, RLStepOK, PTL DEF RLSpec

(***************************************************************************)
(* RateLimiter: what is let through                                        *)
(***************************************************************************)

Span(t, u) == {x \in Times : t <= x /\ x < u}
Horizon == Epoch + MaxTime + 1

(* What the history h has of c from t on, before u. *)
Through(h, c, t, u) == Total(h[c], Span(t, u))

History == [Clients -> [Times -> Nat]]

LEMMA AdmittedIs ==
  ASSUME NEW c, NEW t, NEW u
  PROVE  Admitted(c, t, u) = Through(admitted, c, t, u)
  BY DEF Admitted, Through, Span, SumFunctionOnSet, FoldFunctionOnSet, MapThenFoldSet, Total, Adds,
         First

LEMMA TimesAre ==
  /\ Max \in Nat /\ Max > 0 /\ Window \in Nat /\ Window > 0 /\ SweepEvery \in Nat
  /\ MaxStall \in Nat /\ MaxTime \in Nat /\ Epoch \in Nat /\ Horizon \in Nat
  /\ StaleBucketTtl = 2 * Window
  /\ \A x \in Times : x \in Nat /\ Epoch <= x /\ x < Horizon
  /\ Epoch = 3 * Window
  BY RateLimiterAssumption DEF RateLimiterAssumption, Times, Epoch, Horizon, StaleBucketTtl

LEMMA SpanFinite == ASSUME NEW t, NEW u PROVE IsFiniteSet(Span(t, u))
<1>1. IsFiniteSet(Times)
  <2>1. Epoch \in Int /\ Epoch + MaxTime \in Int
    BY TimesAre
  <2>2. QED
    BY <2>1, FS_Interval DEF Times
<1>2. Span(t, u) \subseteq Times
  BY DEF Span
<1>3. QED
  BY <1>1, <1>2, FS_Subset

LEMMA ThroughNat ==
  ASSUME NEW h \in History, NEW c \in Clients, NEW t, NEW u
  PROVE  Through(h, c, t, u) \in Nat
<1>1. \A x \in Span(t, u) : h[c][x] \in Nat
  BY DEF History, Span
<1>2. QED
  BY <1>1, SpanFinite, TotalNat DEF Through

LEMMA ThroughMore ==
  ASSUME NEW h \in History, NEW c \in Clients, NEW t \in Int, NEW u \in Int,
         NEW s \in Int, NEW v \in Int, s <= t, u <= v
  PROVE  Through(h, c, t, u) <= Through(h, c, s, v)
<1>1. \A x \in Span(s, v) : h[c][x] \in Nat
  BY DEF History, Span
<1>2. Span(t, u) \subseteq Span(s, v)
  BY TimesAre DEF Span
<1>3. QED
  BY <1>1, <1>2, SpanFinite, TotalMore DEF Through

LEMMA ThroughNone ==
  ASSUME NEW h, NEW c, NEW t, NEW u, \A x \in Span(t, u) : h[c][x] = 0
  PROVE  Through(h, c, t, u) = 0
  BY SpanFinite, TotalZero DEF Through

(* One more request of c is let through at time T. *)
Counted(h, c, T) == [h EXCEPT ![c][T] = @ + 1]

LEMMA CountedIs ==
  ASSUME NEW h \in History, NEW c \in Clients, NEW T \in Times
  PROVE  /\ Counted(h, c, T) \in History
         /\ \A d \in Clients \ {c} : Counted(h, c, T)[d] = h[d]
         /\ \A x \in Times \ {T} : Counted(h, c, T)[c][x] = h[c][x]
         /\ Counted(h, c, T)[c][T] = h[c][T] + 1 /\ h[c][T] \in Nat
<1>1. h[c][T] \in Nat
  BY DEF History
<1>2. Counted(h, c, T) \in History
  BY <1>1 DEF Counted, History
<1>3. \A d \in Clients \ {c} : Counted(h, c, T)[d] = h[d]
  BY DEF Counted, History
<1>4. /\ \A x \in Times \ {T} : Counted(h, c, T)[c][x] = h[c][x]
      /\ Counted(h, c, T)[c][T] = h[c][T] + 1
  BY DEF Counted, History
<1>5. QED
  BY <1>1, <1>2, <1>3, <1>4

LEMMA CountedInside ==
  ASSUME NEW h \in History, NEW c \in Clients, NEW T \in Times, NEW t, NEW u,
         T \in Span(t, u)
  PROVE  Through(Counted(h, c, T), c, t, u) = Through(h, c, t, u) + 1
<1> DEFINE f == h[c]
           k == Counted(h, c, T)[c]
           S == Span(t, u)
<1>1. \A x \in S : f[x] \in Int
  BY DEF History, Span
<1>2. /\ IsFiniteSet(S) /\ T \in S
      /\ \A x \in S \ {T} : k[x] = f[x]
      /\ k[T] = f[T] + 1
  <2>1. \A x \in S \ {T} : k[x] = f[x]
    BY CountedIs DEF Span
  <2>2. k[T] = f[T] + 1
    BY CountedIs
  <2>3. QED
    BY <2>1, <2>2, SpanFinite
<1> HIDE DEF f, k, S
<1>3. Total(k, S) = Total(f, S) + 1
  BY <1>1, <1>2, TotalChange
<1>4. QED
  BY <1>3 DEF f, k, S, Through

LEMMA CountedOutside ==
  ASSUME NEW h \in History, NEW c \in Clients, NEW T \in Times, NEW t, NEW u,
         T \notin Span(t, u)
  PROVE  Through(Counted(h, c, T), c, t, u) = Through(h, c, t, u)
<1>1. \A x \in Span(t, u) : Counted(h, c, T)[c][x] = h[c][x]
  BY CountedIs DEF Span
<1>2. QED
  BY <1>1, SpanFinite, TotalSame DEF Through

LEMMA CountedAtMost ==
  ASSUME NEW h \in History, NEW c \in Clients, NEW T \in Times, NEW t, NEW u
  PROVE  /\ Through(h, c, t, u) \in Nat /\ Through(Counted(h, c, T), c, t, u) \in Nat
         /\ Through(Counted(h, c, T), c, t, u) <= Through(h, c, t, u) + 1
<1>1. Counted(h, c, T) \in History
  BY CountedIs
<1>2. Through(h, c, t, u) \in Nat
  BY ThroughNat
<1>3. \/ Through(Counted(h, c, T), c, t, u) = Through(h, c, t, u) + 1
      \/ Through(Counted(h, c, T), c, t, u) = Through(h, c, t, u)
  BY CountedInside, CountedOutside
<1>4. QED
  BY <1>2, <1>3

(* Nothing is let through after T. *)
Past(h, c, T) == \A x \in Times : x > T => h[c][x] = 0

(* What is known of a client with a bucket b: what it counts was let       *)
(* through since it began, and what was let through before the buckets     *)
(* before is long ago.                                                     *)
Live(h, c, b) ==
  /\ \A x \in Times : x >= b.windowStart + Window + MaxStall => h[c][x] = 0
  /\ Through(h, c, b.windowStart + MaxStall, Horizon) <= b.count
  /\ Through(h, c, b.windowStart - Window + MaxStall, Horizon) <= Max + b.count

(* What is known of a client without one. *)
Away(h, c, T) ==
  /\ \A x \in Times : x >= T => h[c][x] = 0
  /\ Through(h, c, T - Window, Horizon) <= Max

Fits(h, c) == \A t \in Times : Through(h, c, t, t + Window + 1 - MaxStall) <= 2 * Max

Bucket == [count : 0..Max, windowStart : Times]

(* A bucket that is swept is long over. *)
LEMMA Sweeps ==
  ASSUME MaxStall <= Window, NEW h \in History, NEW c \in Clients, NEW b \in Bucket,
         NEW T \in Times, Live(h, c, b), T - b.windowStart > StaleBucketTtl
  PROVE  Away(h, c, T)
<1> DEFINE s == b.windowStart
<1>1. s \in Times /\ b.count \in 0..Max
  BY DEF Bucket
<1>2. /\ T >= s + Window + MaxStall /\ T - Window >= s + MaxStall
      /\ s + MaxStall \in Int /\ T - Window \in Int /\ Horizon \in Int
  BY <1>1, TimesAre
<1>3. Through(h, c, T - Window, Horizon) <= Through(h, c, s + MaxStall, Horizon)
  BY <1>2, ThroughMore
<1>4. /\ Through(h, c, T - Window, Horizon) \in Nat
      /\ Through(h, c, s + MaxStall, Horizon) \in Nat
  BY ThroughNat
<1>5. \A x \in Times : x >= T => x >= s + Window + MaxStall
  BY <1>1, <1>2, TimesAre
<1>6. QED
  BY <1>1, <1>3, <1>4, <1>5, TimesAre DEF Live, Away

(* A stretch that reaches the time T, when the bucket is b, holds its   *)
(* requests and those of the bucket before.                                *)
LEMMA StretchFits ==
  ASSUME NEW g \in History, NEW c \in Clients, NEW b \in Bucket, NEW T \in Times,
         b.windowStart <= T, Live(g, c, b), NEW t \in Times,
         T < t + Window + 1 - MaxStall
  PROVE  Through(g, c, t, t + Window + 1 - MaxStall) <= 2 * Max
<1> DEFINE s == b.windowStart
           e == t + Window + 1 - MaxStall
<1>1. s \in Times /\ b.count \in 0..Max
  BY DEF Bucket
<1>2. s - Window + MaxStall <= t
  BY <1>1, TimesAre
<1>3. Through(g, c, t, e) <= Through(g, c, s - Window + MaxStall, Horizon)
  <2>1. Span(t, e) \subseteq Span(s - Window + MaxStall, Horizon)
    BY <1>1, <1>2, TimesAre DEF Span
  <2>2. \A x \in Span(s - Window + MaxStall, Horizon) : g[c][x] \in Nat
    BY DEF History, Span
  <2>3. QED
    BY <2>1, <2>2, SpanFinite, TotalMore DEF Through
<1>4. /\ Through(g, c, t, e) \in Nat
      /\ Through(g, c, s - Window + MaxStall, Horizon) \in Nat
  BY ThroughNat
<1>5. QED
  BY <1>1, <1>3, <1>4, TimesAre DEF Live

(* A request is counted in the bucket there is.                            *)
LEMMA CountsOn ==
  ASSUME MaxStall <= Window, NEW h \in History, NEW c \in Clients, NEW b \in Bucket,
         NEW T \in Times, NEW t \in Times, t <= T, T <= t + MaxStall,
         Live(h, c, b), b.windowStart <= T, Fits(h, c),
         t - b.windowStart < Window, b.count < Max,
         NEW g, g = Counted(h, c, T),
         NEW d, d = [b EXCEPT !.count = @ + 1]
  PROVE  Live(g, c, d) /\ Fits(g, c)
<1> DEFINE s == b.windowStart
<1>1. /\ s \in Times /\ b.count \in 0..Max
      /\ d \in Bucket /\ d.windowStart = s /\ d.count = b.count + 1
  BY TimesAre DEF Bucket
<1>2. g \in History
  BY CountedIs
<1>3. ASSUME NEW u, NEW v
      PROVE  Through(g, c, u, v) <= Through(h, c, u, v) + 1
  BY CountedAtMost
<1>4. Live(g, c, d)
  <2>1. ASSUME NEW x \in Times, x >= s + Window + MaxStall
        PROVE  g[c][x] = 0
    <3>1. x # T
      BY <1>1, <2>1, TimesAre
    <3>2. g[c][x] = h[c][x]
      BY <3>1, CountedIs
    <3>3. QED
      BY <2>1, <3>2 DEF Live
  <2>2. Through(g, c, s + MaxStall, Horizon) <= b.count + 1
    <3>1. /\ Through(g, c, s + MaxStall, Horizon) \in Nat
          /\ Through(h, c, s + MaxStall, Horizon) \in Nat
      BY <1>2, ThroughNat
    <3>2. Through(h, c, s + MaxStall, Horizon) <= b.count
      BY DEF Live
    <3>3. Through(g, c, s + MaxStall, Horizon) <= Through(h, c, s + MaxStall, Horizon) + 1
      BY <1>3
    <3>4. QED
      BY <1>1, <3>1, <3>2, <3>3
  <2>3. Through(g, c, s - Window + MaxStall, Horizon) <= Max + (b.count + 1)
    <3> DEFINE p == s - Window + MaxStall
    <3>1. Through(g, c, p, Horizon) \in Nat /\ Through(h, c, p, Horizon) \in Nat
      BY <1>2, ThroughNat
    <3>2. Through(h, c, p, Horizon) <= Max + b.count
      BY DEF Live
    <3>3. Through(g, c, p, Horizon) <= Through(h, c, p, Horizon) + 1
      BY <1>3
    <3>4. QED
      BY <1>1, <3>1, <3>2, <3>3, TimesAre
  <2>4. QED
    BY <1>1, <2>1, <2>2, <2>3 DEF Live
<1>5. Fits(g, c)
  <2> SUFFICES ASSUME NEW u \in Times
               PROVE  Through(g, c, u, u + Window + 1 - MaxStall) <= 2 * Max
    BY DEF Fits
  <2>1. CASE T < u + Window + 1 - MaxStall
    BY <1>1, <1>2, <1>4, <2>1, StretchFits
  <2>2. CASE ~(T < u + Window + 1 - MaxStall)
    <3>1. Through(g, c, u, u + Window + 1 - MaxStall) = Through(h, c, u, u + Window + 1 - MaxStall)
      BY <2>2, CountedOutside DEF Span
    <3>2. QED
      BY <3>1 DEF Fits
  <2>3. QED
    BY <2>1, <2>2
<1>6. QED
  BY <1>4, <1>5

(* A request begins a bucket, when what was let through is long ago.       *)
LEMMA CountsAnew ==
  ASSUME MaxStall <= Window, NEW h \in History, NEW c \in Clients,
         NEW T \in Times, NEW t \in Times, t <= T, T <= t + MaxStall,
         \A x \in Times : x >= t + MaxStall => h[c][x] = 0,
         Through(h, c, t - Window + MaxStall, Horizon) <= Max,
         Past(h, c, T), Fits(h, c),
         NEW g, g = Counted(h, c, T),
         NEW d, d = [count |-> 1, windowStart |-> t]
  PROVE  Live(g, c, d) /\ Fits(g, c)
<1>1. d \in Bucket /\ d.windowStart = t /\ d.count = 1
  BY TimesAre DEF Bucket
<1>2. g \in History
  BY CountedIs
<1>3. ASSUME NEW u, NEW v
      PROVE  Through(g, c, u, v) <= Through(h, c, u, v) + 1
  BY CountedAtMost
<1>4. Live(g, c, d)
  <2>1. ASSUME NEW x \in Times, x >= t + Window + MaxStall
        PROVE  g[c][x] = 0
    <3>1. x # T /\ x >= t + MaxStall
      BY <2>1, TimesAre
    <3>2. g[c][x] = h[c][x]
      BY <3>1, CountedIs
    <3>3. QED
      BY <3>1, <3>2
  <2>2. Through(g, c, t + MaxStall, Horizon) <= 1
    <3>1. Through(h, c, t + MaxStall, Horizon) = 0
      BY ThroughNone DEF Span
    <3>2. Through(g, c, t + MaxStall, Horizon) \in Nat
      BY <1>2, ThroughNat
    <3>3. Through(g, c, t + MaxStall, Horizon) <= Through(h, c, t + MaxStall, Horizon) + 1
      BY <1>3
    <3>4. QED
      BY <3>1, <3>2, <3>3
  <2>3. Through(g, c, t - Window + MaxStall, Horizon) <= Max + 1
    <3> DEFINE p == t - Window + MaxStall
    <3>1. Through(g, c, p, Horizon) \in Nat /\ Through(h, c, p, Horizon) \in Nat
      BY <1>2, ThroughNat
    <3>2. Through(g, c, p, Horizon) <= Through(h, c, p, Horizon) + 1
      BY <1>3
    <3>3. QED
      BY <3>1, <3>2, TimesAre
  <2>4. QED
    BY <1>1, <2>1, <2>2, <2>3 DEF Live
<1>5. Fits(g, c)
  <2> SUFFICES ASSUME NEW u \in Times
               PROVE  Through(g, c, u, u + Window + 1 - MaxStall) <= 2 * Max
    BY DEF Fits
  <2>1. CASE T < u + Window + 1 - MaxStall
    BY <1>1, <1>2, <1>4, <2>1, StretchFits
  <2>2. CASE ~(T < u + Window + 1 - MaxStall)
    <3>1. Through(g, c, u, u + Window + 1 - MaxStall) = Through(h, c, u, u + Window + 1 - MaxStall)
      BY <2>2, CountedOutside DEF Span
    <3>2. QED
      BY <3>1 DEF Fits
  <2>3. QED
    BY <2>1, <2>2
<1>6. QED
  BY <1>4, <1>5

(* Either the bucket before is over, or there is none, and then what was   *)
(* let through is long ago.                                                *)
LEMMA OverIsLongAgo ==
  ASSUME MaxStall <= Window, NEW h \in History, NEW c \in Clients, NEW b \in Bucket,
         NEW t \in Times, Live(h, c, b), t - b.windowStart >= Window
  PROVE  /\ \A x \in Times : x >= t + MaxStall => h[c][x] = 0
         /\ Through(h, c, t - Window + MaxStall, Horizon) <= Max
<1> DEFINE s == b.windowStart
<1>1. /\ s \in Times /\ b.count \in 0..Max
      /\ t - Window + MaxStall >= s + MaxStall
      /\ s + MaxStall \in Int /\ t - Window + MaxStall \in Int /\ Horizon \in Int
  BY TimesAre DEF Bucket
<1>2. \A x \in Times : x >= t + MaxStall => x >= s + Window + MaxStall
  BY <1>1, TimesAre
<1>3. Through(h, c, t - Window + MaxStall, Horizon) <= Through(h, c, s + MaxStall, Horizon)
  BY <1>1, ThroughMore
<1>4. /\ Through(h, c, t - Window + MaxStall, Horizon) \in Nat
      /\ Through(h, c, s + MaxStall, Horizon) \in Nat
  BY ThroughNat
<1>5. QED
  BY <1>1, <1>2, <1>3, <1>4, TimesAre DEF Live

LEMMA AwayIsLongAgo ==
  ASSUME NEW h \in History, NEW c \in Clients, NEW T \in Times, NEW t \in Times,
         T <= t + MaxStall, Away(h, c, T)
  PROVE  /\ \A x \in Times : x >= t + MaxStall => h[c][x] = 0
         /\ Through(h, c, t - Window + MaxStall, Horizon) <= Max
<1>1. /\ t - Window + MaxStall >= T - Window
      /\ T - Window \in Int /\ t - Window + MaxStall \in Int /\ Horizon \in Int
  BY TimesAre
<1>2. Through(h, c, t - Window + MaxStall, Horizon) <= Through(h, c, T - Window, Horizon)
  BY <1>1, ThroughMore
<1>3. /\ Through(h, c, t - Window + MaxStall, Horizon) \in Nat
      /\ Through(h, c, T - Window, Horizon) \in Nat
  BY ThroughNat
<1>4. \A x \in Times : x >= t + MaxStall => x >= T
  BY TimesAre
<1>5. QED
  BY <1>2, <1>3, <1>4, TimesAre DEF Away

(***************************************************************************)
(* RateLimiter: the invariant                                              *)
(***************************************************************************)

(* How late a thread can come to the mutex. *)
Stalled ==
  \A w \in Threads : thread[w] = "clock" => now[w] <= time /\ time <= now[w] + MaxStall

(* What a bucket counts was let through since it began. *)
CountsReal ==
  \A c \in DOMAIN buckets :
    /\ buckets[c].windowStart <= time
    /\ buckets[c].count <= Through(admitted, c, buckets[c].windowStart, time + 1)

PassedOK ==
  MaxStall <= Window =>
    \A c \in Clients :
      /\ Past(admitted, c, time) /\ Fits(admitted, c)
      /\ IF c \in DOMAIN buckets THEN Live(admitted, c, buckets[c]) ELSE Away(admitted, c, time)

WindowsInv == RLInv /\ Stalled /\ CountsReal /\ PassedOK

LEMMA WindowsInit == RLInit => WindowsInv
<1> SUFFICES ASSUME RLInit PROVE WindowsInv
  OBVIOUS
<1>1. RLInv
  BY RLInitOK
<1>2. Stalled /\ CountsReal
  BY DEF RLInit, Stalled, CountsReal
<1>3. ASSUME NEW c \in Clients
      PROVE  /\ Past(admitted, c, time) /\ Fits(admitted, c) /\ Away(admitted, c, time)
             /\ c \notin DOMAIN buckets
  <2>1. \A x \in Times : admitted[c][x] = 0
    BY DEF RLInit
  <2>2. \A t, u : Through(admitted, c, t, u) = 0
    BY <2>1, ThroughNone DEF Span
  <2>3. 0 <= 2 * Max
    BY TimesAre
  <2>4. c \notin DOMAIN buckets
    BY DEF RLInit
  <2>5. QED
    BY <2>1, <2>2, <2>3, <2>4, TimesAre DEF Past, Fits, Away
<1>4. QED
  BY <1>1, <1>2, <1>3 DEF WindowsInv, PassedOK

LEMMA TickWindows ==
  ASSUME WindowsInv, Tick
  PROVE  Stalled' /\ CountsReal' /\ PassedOK'
<1>1. /\ time \in Times /\ time' = time + 1 /\ time' \in Times
      /\ admitted \in History
      /\ UNCHANGED <<thread, client, now, buckets, admitted>>
  BY RLStepOK, TimesAre DEF WindowsInv, RLInv, RLTypeOK, Tick, History, RLNext, Times
<1>2. time \in Int /\ \A w \in Threads : thread[w] = "clock" => now[w] \in Int
  BY <1>1, TimesAre DEF WindowsInv, RLInv, Carrying
<1>3. Stalled'
  BY <1>1, <1>2, TimesAre DEF Tick, WindowsInv, Stalled
<1>4. ASSUME NEW c \in DOMAIN buckets
      PROVE  /\ buckets[c].windowStart <= time + 1
             /\ buckets[c].count <= Through(admitted, c, buckets[c].windowStart, time + 2)
  <2> DEFINE s == buckets[c].windowStart
             n == buckets[c].count
  <2>1. /\ s \in Int /\ n \in Nat /\ c \in Clients
        /\ s <= time /\ n <= Through(admitted, c, s, time + 1)
    BY TimesAre DEF WindowsInv, RLInv, RLTypeOK, CountsReal
  <2> HIDE DEF s, n
  <2>2. Through(admitted, c, s, time + 1) <= Through(admitted, c, s, time + 2)
    BY <1>1, <1>2, <2>1, ThroughMore
  <2>3. Through(admitted, c, s, time + 1) \in Nat /\ Through(admitted, c, s, time + 2) \in Nat
    BY <1>1, <2>1, ThroughNat
  <2>4. s <= time + 1 /\ n <= Through(admitted, c, s, time + 2)
    BY <1>2, <2>1, <2>2, <2>3
  <2>5. QED
    BY <2>4 DEF s, n
<1>5. CountsReal'
  <2>1. time' + 1 = time + 2
    BY <1>1, <1>2
  <2>2. QED
    BY <1>1, <1>4, <2>1 DEF CountsReal
<1>6. ASSUME MaxStall <= Window, NEW c \in Clients
      PROVE  /\ Past(admitted, c, time + 1)
             /\ c \notin DOMAIN buckets => Away(admitted, c, time + 1)
  <2>1. Past(admitted, c, time + 1)
    BY <1>1, <1>6, TimesAre DEF WindowsInv, PassedOK, Past
  <2>2. ASSUME c \notin DOMAIN buckets PROVE Away(admitted, c, time + 1)
    <3>1. Away(admitted, c, time)
      BY <1>6, <2>2 DEF WindowsInv, PassedOK
    <3>2. /\ time - Window \in Int /\ (time + 1) - Window \in Int /\ Horizon \in Int
          /\ time - Window <= (time + 1) - Window
      BY <1>1, TimesAre
    <3>3. Through(admitted, c, (time + 1) - Window, Horizon)
            <= Through(admitted, c, time - Window, Horizon)
      BY <1>1, <3>2, ThroughMore
    <3>4. /\ Through(admitted, c, (time + 1) - Window, Horizon) \in Nat
          /\ Through(admitted, c, time - Window, Horizon) \in Nat
      BY <1>1, ThroughNat
    <3>5. \A x \in Times : x >= time + 1 => x >= time
      BY <1>1, TimesAre
    <3>6. /\ \A x \in Times : x >= time => admitted[c][x] = 0
          /\ Through(admitted, c, time - Window, Horizon) <= Max
      BY <3>1 DEF Away
    <3>7. \A x \in Times : x >= time + 1 => admitted[c][x] = 0
      BY <3>5, <3>6
    <3>8. Through(admitted, c, (time + 1) - Window, Horizon) <= Max
      BY <3>3, <3>4, <3>6, TimesAre
    <3> DEFINE T == time + 1
    <3> HIDE DEF T
    <3>9. \A x \in Times : x >= T => admitted[c][x] = 0
      BY <3>7 DEF T
    <3>10. Through(admitted, c, T - Window, Horizon) <= Max
      BY <3>8 DEF T
    <3>11. Away(admitted, c, T)
      BY <3>9, <3>10 DEF Away
    <3>12. QED
      BY <3>11 DEF T
  <2>3. QED
    BY <2>1, <2>2
<1>7. PassedOK'
  BY <1>1, <1>6 DEF WindowsInv, PassedOK
<1>8. QED
  BY <1>3, <1>5, <1>7

LEMMA SweptIsOver ==
  ASSUME NEW t \in Times, NEW c \in DOMAIN buckets \ DOMAIN Swept(t),
         buckets[c].windowStart \in Times
  PROVE  t - buckets[c].windowStart > StaleBucketTtl
<1>1. Swept(t) = Restrict(buckets,
        {x \in DOMAIN buckets : t - buckets[x].windowStart <= StaleBucketTtl})
  BY DEF Swept
<1>2. ~(t - buckets[c].windowStart <= StaleBucketTtl)
  BY <1>1 DEF Restrict
<1>3. QED
  BY <1>2, TimesAre

(* What is known of a client depends on its own requests only. *)
LEMMA OthersTime ==
  ASSUME NEW h, NEW g, NEW c, g[c] = h[c]
  PROVE  /\ \A t, u : Through(g, c, t, u) = Through(h, c, t, u)
         /\ \A b : Live(h, c, b) => Live(g, c, b)
         /\ \A T : (Away(h, c, T) => Away(g, c, T)) /\ (Past(h, c, T) => Past(g, c, T))
         /\ Fits(h, c) => Fits(g, c)
<1>1. \A t, u : Through(g, c, t, u) = Through(h, c, t, u)
  BY DEF Through
<1>2. \A b : Live(h, c, b) => Live(g, c, b)
  BY <1>1 DEF Live
<1>3. \A T : (Away(h, c, T) => Away(g, c, T)) /\ (Past(h, c, T) => Past(g, c, T))
  BY <1>1 DEF Away, Past
<1>4. Fits(h, c) => Fits(g, c)
  BY <1>1 DEF Fits
<1>5. QED
  BY <1>1, <1>2, <1>3, <1>4

(* What the sweep at time t leaves of what is known, at time T. *)
LEMMA SweptKnown ==
  ASSUME WindowsInv, MaxStall <= Window, NEW t \in Times, t <= time, NEW c \in Clients
  PROVE  IF c \in DOMAIN Swept(t) THEN Live(admitted, c, Swept(t)[c]) ELSE Away(admitted, c, time)
<1>1. /\ time \in Times /\ admitted \in History
      /\ c \in DOMAIN buckets => buckets[c] \in Bucket /\ buckets[c].windowStart \in Times
  BY DEF WindowsInv, RLInv, RLTypeOK, History, Bucket
<1>2. c \in DOMAIN buckets => Live(admitted, c, buckets[c])
  BY DEF WindowsInv, PassedOK
<1>3. CASE c \in DOMAIN Swept(t)
  BY <1>2, <1>3, SweptIsPart
<1>4. CASE c \notin DOMAIN buckets
  BY <1>4, SweptIsPart DEF WindowsInv, PassedOK
<1>5. CASE c \in DOMAIN buckets \ DOMAIN Swept(t)
  <2>1. t - buckets[c].windowStart > StaleBucketTtl
    BY <1>1, <1>5, SweptIsOver
  <2>2. time - buckets[c].windowStart > StaleBucketTtl
    BY <1>1, <1>5, <2>1, TimesAre
  <2>3. Away(admitted, c, time)
    BY <1>1, <1>2, <1>5, <2>2, Sweeps
  <2>4. QED
    BY <1>5, <2>3
<1>6. QED
  BY <1>3, <1>4, <1>5

(* The count of one request: of what is known of its client a bucket with  *)
(* one more is known, or nothing is changed.                               *)
LEMMA CountWindows ==
  ASSUME WindowsInv, NEW w \in Threads, Count(w)
  PROVE  Stalled' /\ CountsReal' /\ PassedOK'
<1> DEFINE c == client[w]
           t == now[w]
           kept == Swept(t)
           b == Current(IF c \in DOMAIN kept THEN kept[c] ELSE NewBucket, t)
           ok == b.count < Max
           d == [b EXCEPT !.count = @ + 1]
           g == IF ok THEN Counted(admitted, c, time) ELSE admitted
           new == IF ok THEN d ELSE b
<1>1. /\ c \in Clients /\ t \in Times /\ time \in Times
      /\ t <= time /\ time <= t + MaxStall
      /\ admitted \in History /\ RLTypeOK
      /\ \A x \in DOMAIN buckets : x \in Clients /\ buckets[x] \in Bucket
  BY DEF WindowsInv, RLInv, RLTypeOK, Carrying, Stalled, Count, History, Bucket
<1>2. /\ time' = time
      /\ buckets' = [x \in DOMAIN kept \cup {c} |-> IF x # c THEN kept[x] ELSE new]
      /\ admitted' = g
      /\ thread' = [thread EXCEPT ![w] = "idle"] /\ now' = [now EXCEPT ![w] = 0]
  BY DEF Count, Counted
<1>3. Stalled'
  BY <1>1, <1>2 DEF WindowsInv, Stalled, RLTypeOK
<1>4. \A x \in DOMAIN kept : x \in DOMAIN buckets /\ kept[x] = buckets[x] /\ kept[x] \in Bucket
  BY <1>1, SweptIsPart
<1>5. b \in Bucket /\ (ok => d \in Bucket /\ d.count = b.count + 1 /\ d.windowStart = b.windowStart)
  <2>1. b \in Bucket
    BY <1>1, <1>4, CurrentTyped DEF Bucket
  <2> HIDE DEF b
  <2>2. QED
    BY <2>1, TimesAre DEF Bucket
<1>6. \/ c \in DOMAIN kept /\ b = kept[c] /\ b = buckets[c] /\ t - b.windowStart < Window
      \/ /\ b = [count |-> 0, windowStart |-> t] /\ ok /\ d = [count |-> 1, windowStart |-> t]
         /\ c \in DOMAIN kept => t - kept[c].windowStart >= Window
  <2>1. CASE c \in DOMAIN kept /\ ~(t - kept[c].windowStart >= Window)
    <3>1. kept[c].windowStart \in Times
      BY <1>4, <2>1 DEF Bucket
    <3>2. QED
      BY <1>1, <1>4, <2>1, <3>1, TimesAre DEF Current
  <2>2. CASE ~(c \in DOMAIN kept /\ ~(t - kept[c].windowStart >= Window))
    <3>1. t - NewBucket.windowStart >= Window
      BY <1>1, TimesAre DEF NewBucket
    <3>2. b = [count |-> 0, windowStart |-> t]
      BY <2>2, <3>1 DEF Current
    <3> HIDE DEF b
    <3>3. QED
      BY <2>2, <3>2, TimesAre
  <2>3. QED
    BY <2>1, <2>2
<1> HIDE DEF kept, b, c, t
<1>7. \A x \in Clients \ {c} : g[x] = admitted[x]
  BY <1>1, CountedIs
<1>8. new.windowStart <= time /\ new.count <= Through(g, c, new.windowStart, time + 1)
  <2>1. CASE ~ok
    <3>1. b = buckets[c] /\ c \in DOMAIN buckets
      BY <1>4, <1>6, <2>1
    <3>2. QED
      BY <2>1, <3>1 DEF WindowsInv, CountsReal
  <2>2. CASE ok
    <3> DEFINE s == b.windowStart
    <3>1. /\ s \in Times /\ b.count \in Nat /\ d.count = b.count + 1 /\ d.windowStart = s
      BY <1>5, <2>2, TimesAre DEF Bucket
    <3>2. s <= time /\ b.count <= Through(admitted, c, s, time + 1)
      <4>1. CASE c \in DOMAIN kept /\ b = buckets[c]
        BY <1>4, <4>1 DEF WindowsInv, CountsReal
      <4>2. CASE b = [count |-> 0, windowStart |-> t]
        <5>1. Through(admitted, c, s, time + 1) \in Nat
          BY <1>1, ThroughNat
        <5>2. QED
          BY <1>1, <4>2, <5>1
      <4>3. QED
        BY <1>6, <4>1, <4>2
    <3>3. time \in Span(s, time + 1)
      BY <1>1, <3>1, <3>2, TimesAre DEF Span
    <3>4. Through(g, c, s, time + 1) = Through(admitted, c, s, time + 1) + 1
      BY <1>1, <2>2, <3>3, CountedInside
    <3>5. Through(admitted, c, s, time + 1) \in Nat
      BY <1>1, ThroughNat
    <3> HIDE DEF d, g, s, ok
    <3>6. b.count + 1 <= Through(g, c, s, time + 1)
      BY <3>1, <3>2, <3>4, <3>5
    <3>7. QED
      BY <2>2, <3>1, <3>2, <3>6
  <2>3. QED
    BY <2>1, <2>2
<1>9. CountsReal'
  <2>1. ASSUME NEW x \in DOMAIN kept, x # c
        PROVE  /\ kept[x].windowStart <= time
               /\ kept[x].count <= Through(g, x, kept[x].windowStart, time + 1)
    <3>1. x \in DOMAIN buckets /\ kept[x] = buckets[x] /\ g[x] = admitted[x]
      BY <1>1, <1>4, <1>7, <2>1
    <3> HIDE DEF g
    <3>2. Through(g, x, kept[x].windowStart, time + 1)
            = Through(admitted, x, kept[x].windowStart, time + 1)
      BY <3>1, OthersTime
    <3>3. QED
      BY <3>1, <3>2 DEF WindowsInv, CountsReal
  <2> HIDE DEF g, new
  <2>2. QED
    BY <1>2, <1>8, <2>1 DEF CountsReal
<1>10. ASSUME MaxStall <= Window
       PROVE  /\ Past(g, c, time) /\ Fits(g, c) /\ Live(g, c, new)
  <2>1. /\ Past(admitted, c, time) /\ Fits(admitted, c)
        /\ IF c \in DOMAIN kept THEN Live(admitted, c, kept[c]) ELSE Away(admitted, c, time)
    BY <1>1, <1>10, SweptKnown DEF WindowsInv, PassedOK, kept
  <2>2. Past(g, c, time)
    <3>1. ASSUME NEW x \in Times, x > time, ok PROVE Counted(admitted, c, time)[c][x] = 0
      <4>1. x # time
        BY <1>1, <3>1, TimesAre
      <4>2. QED
        BY <1>1, <2>1, <3>1, <4>1, CountedIs DEF Past
    <3>2. QED
      BY <2>1, <3>1 DEF Past
  <2>3. CASE ~ok
    BY <1>6, <2>1, <2>2, <2>3
  <2>4. CASE ok /\ c \in DOMAIN kept /\ b = kept[c] /\ b = buckets[c] /\ t - b.windowStart < Window
    <3>1. b.windowStart <= time
      BY <1>4, <2>4 DEF WindowsInv, CountsReal
    <3>2. Live(g, c, d) /\ Fits(g, c)
      <4> DEFINE e == Counted(admitted, c, time)
      <4>1. Live(e, c, d) /\ Fits(e, c)
        <5> HIDE DEF e, d
        <5>1. e = Counted(admitted, c, time) /\ d = [b EXCEPT !.count = @ + 1]
          BY DEF e, d
        <5>2. QED
          BY <1>1, <1>5, <1>10, <2>1, <2>4, <3>1, <5>1, CountsOn
      <4>2. QED
        BY <2>4, <4>1
    <3>3. QED
      BY <2>2, <2>4, <3>2
  <2>5. CASE ok /\ b = [count |-> 0, windowStart |-> t] /\ d = [count |-> 1, windowStart |-> t]
             /\ (c \in DOMAIN kept => t - kept[c].windowStart >= Window)
    <3>1. /\ \A x \in Times : x >= t + MaxStall => admitted[c][x] = 0
          /\ Through(admitted, c, t - Window + MaxStall, Horizon) <= Max
      <4>1. CASE c \in DOMAIN kept
        BY <1>1, <1>4, <1>10, <2>1, <2>5, <4>1, OverIsLongAgo
      <4>2. CASE c \notin DOMAIN kept
        BY <1>1, <2>1, <4>2, AwayIsLongAgo
      <4>3. QED
        BY <4>1, <4>2
    <3>2. Live(g, c, d) /\ Fits(g, c)
      <4> DEFINE e == Counted(admitted, c, time)
      <4>1. Live(e, c, d) /\ Fits(e, c)
        <5> HIDE DEF e, d
        <5>1. e = Counted(admitted, c, time) /\ d = [count |-> 1, windowStart |-> t]
          BY <2>5 DEF e
        <5>2. QED
          BY <1>1, <1>10, <2>1, <3>1, <5>1, CountsAnew
      <4>2. QED
        BY <2>5, <4>1
    <3>3. QED
      BY <2>2, <2>5, <3>2
  <2>6. QED
    BY <1>6, <2>3, <2>4, <2>5
<1>11. PassedOK'
  <2> SUFFICES ASSUME MaxStall <= Window, NEW x \in Clients
               PROVE  /\ Past(g, x, time) /\ Fits(g, x)
                      /\ IF x \in DOMAIN kept \cup {c}
                         THEN Live(g, x, IF x # c THEN kept[x] ELSE new) ELSE Away(g, x, time)
    <3> HIDE DEF g, new
    <3>1. DOMAIN buckets' = DOMAIN kept \cup {c}
          /\ \A y \in DOMAIN kept \cup {c} : buckets'[y] = IF y # c THEN kept[y] ELSE new
      BY <1>2
    <3>2. QED
      BY <1>2, <3>1 DEF PassedOK
  <2>1. CASE x = c
    BY <1>10, <2>1
  <2>2. CASE x # c
    <3>1. g[x] = admitted[x]
      BY <1>7, <2>2
    <3> HIDE DEF g
    <3>2. /\ Past(admitted, x, time) /\ Fits(admitted, x)
          /\ IF x \in DOMAIN kept THEN Live(admitted, x, kept[x]) ELSE Away(admitted, x, time)
      BY <1>1, SweptKnown DEF WindowsInv, PassedOK, kept
    <3>3. QED
      BY <2>2, <3>1, <3>2, OthersTime
  <2>3. QED
    BY <2>1, <2>2
<1>12. QED
  BY <1>3, <1>9, <1>11

LEMMA WindowsStep == WindowsInv /\ [RLNext]_rlVars => WindowsInv'
<1> SUFFICES ASSUME WindowsInv, [RLNext]_rlVars PROVE WindowsInv'
  OBVIOUS
<1>1. RLInv'
  BY RLStepOK DEF WindowsInv
<1>2. ASSUME NEW w \in Threads, ReadClock(w) PROVE Stalled' /\ CountsReal' /\ PassedOK'
  <2>1. /\ UNCHANGED <<time, buckets, admitted>>
        /\ thread' = [thread EXCEPT ![w] = "clock"] /\ now' = [now EXCEPT ![w] = time]
    BY <1>2 DEF ReadClock
  <2>2. time \in Int /\ MaxStall \in Nat
    BY TimesAre DEF WindowsInv, RLInv, RLTypeOK
  <2>3. Stalled'
    BY <2>1, <2>2 DEF WindowsInv, Stalled, RLInv, RLTypeOK
  <2>4. CountsReal' /\ PassedOK'
    BY <2>1 DEF WindowsInv, CountsReal, PassedOK
  <2>5. QED
    BY <2>3, <2>4
<1>3. CASE UNCHANGED rlVars
  <2>1. UNCHANGED <<time, thread, now, buckets, admitted>>
    BY <1>3 DEF rlVars
  <2>2. Stalled'
    BY <2>1 DEF WindowsInv, Stalled
  <2>3. CountsReal' /\ PassedOK'
    BY <2>1 DEF WindowsInv, CountsReal, PassedOK
  <2>4. QED
    BY <1>1, <2>2, <2>3 DEF WindowsInv
<1>4. QED
  BY <1>1, <1>2, <1>3, TickWindows, CountWindows DEF WindowsInv, RLNext

(* The invariant of buckets and history, from which the bounds follow.     *)
THEOREM WindowsKept == RLSpec => []WindowsInv
  BY WindowsInit, WindowsStep, PTL DEF RLSpec

(* Of one client at most twice the limit passes in a stretch of a window   *)
(* (less what threads are late at the mutex), though rateLimitOK begins   *)
(* its window with any request after the old one, counts with the time of  *)
(* before the mutex, and the sweep forgets buckets.                        *)
THEOREM TwiceAtMost == RLSpec => []AtMostTwoWindows
<1>1. WindowsInv => AtMostTwoWindows
  <2> SUFFICES ASSUME WindowsInv, NEW c \in Clients, NEW t \in Times
               PROVE  Through(admitted, c, t, t + Window + 1 - MaxStall) <= 2 * Max
    BY AdmittedIs DEF AtMostTwoWindows
  <2>1. CASE MaxStall <= Window
    BY <2>1 DEF WindowsInv, PassedOK, Fits
  <2>2. CASE ~(MaxStall <= Window)
    <3>1. Span(t, t + Window + 1 - MaxStall) = {}
      BY <2>2, TimesAre DEF Span
    <3>2. Through(admitted, c, t, t + Window + 1 - MaxStall) = 0
      BY <3>1, TotalEmpty DEF Through
    <3>3. QED
      BY <3>2, TimesAre
  <2>3. QED
    BY <2>1, <2>2
<1>2. QED
  BY <1>1, WindowsKept, PTL

(* A request is refused on a full bucket, which counts what was let        *)
(* through since it began, less than a window before the request.          *)
LEMMA RefusedIsFull ==
  ASSUME WindowsInv, NEW w \in Threads, Count(w), admitted' = admitted
  PROVE  Admitted(client[w], now[w] - Window + 1, time + 1) >= Max
<1> DEFINE c == client[w]
           t == now[w]
           kept == Swept(t)
           b == Current(IF c \in DOMAIN kept THEN kept[c] ELSE NewBucket, t)
<1>1. /\ c \in Clients /\ t \in Times /\ time \in Times
      /\ admitted \in History /\ RLTypeOK
      /\ \A x \in DOMAIN buckets : x \in Clients /\ buckets[x] \in Bucket
  BY DEF WindowsInv, RLInv, RLTypeOK, Carrying, Count, History, Bucket
<1>2. \A x \in DOMAIN kept : x \in DOMAIN buckets /\ kept[x] = buckets[x] /\ kept[x] \in Bucket
  BY <1>1, SweptIsPart
<1>3. ~(b.count < Max)
  <2> SUFFICES ASSUME b.count < Max PROVE FALSE
    OBVIOUS
  <2>1. Counted(admitted, c, time) = admitted
    BY DEF Count, Counted
  <2>2. admitted[c][time] = admitted[c][time] + 1 /\ admitted[c][time] \in Nat
    BY <1>1, <2>1, CountedIs
  <2>3. QED
    BY <2>2
<1>4. /\ c \in DOMAIN kept /\ b = kept[c] /\ t - b.windowStart < Window
  <2>1. t - NewBucket.windowStart >= Window
    BY <1>1, TimesAre DEF NewBucket
  <2>2. ASSUME NEW x, t - x.windowStart >= Window PROVE Current(x, t).count < Max
    BY <2>2, TimesAre DEF Current
  <2>3. c \in DOMAIN kept
    BY <1>3, <2>1, <2>2
  <2>4. ~(t - kept[c].windowStart >= Window)
    BY <1>3, <2>2, <2>3
  <2>5. kept[c].windowStart \in Times
    BY <1>2, <2>3 DEF Bucket
  <2>6. QED
    BY <1>1, <2>3, <2>4, <2>5, TimesAre DEF Current
<1> DEFINE s == b.windowStart
<1>5. c \in DOMAIN buckets /\ b = buckets[c] /\ b \in Bucket
  BY <1>2, <1>4
<1> HIDE DEF b, kept, c, t
<1>6. s \in Times /\ b.count = Max
  BY <1>3, <1>5, TimesAre DEF Bucket
<1>7. b.count <= Through(admitted, c, s, time + 1)
  BY <1>5 DEF WindowsInv, CountsReal
<1>8. Through(admitted, c, s, time + 1) <= Through(admitted, c, t - Window + 1, time + 1)
  <2>1. /\ s \in Int /\ time + 1 \in Int /\ t - Window + 1 \in Int /\ t - Window + 1 <= s
    BY <1>1, <1>4, <1>6, TimesAre
  <2>2. QED
    BY <1>1, <2>1, ThroughMore
<1>9. /\ Through(admitted, c, s, time + 1) \in Nat
      /\ Through(admitted, c, t - Window + 1, time + 1) \in Nat
  BY <1>1, ThroughNat
<1>10. Through(admitted, c, t - Window + 1, time + 1) >= Max
  BY <1>6, <1>7, <1>8, <1>9, TimesAre
<1>11. QED
  BY <1>10, AdmittedIs DEF c, t

(* Nobody is refused early: whom rateLimitOK turns away has had Max        *)
(* requests let through since a window before.                             *)
THEOREM RefusedAtTheLimit == RLSpec => RefusedOnlyAtTheLimit
<1>1. WindowsInv /\ [RLNext]_rlVars =>
        [\A w \in Threads :
           thread[w] = "clock" /\ thread'[w] = "idle" /\ admitted' = admitted =>
             Admitted(client[w], now[w] - Window + 1, time + 1) >= Max]_rlVars
  <2> SUFFICES ASSUME WindowsInv, [RLNext]_rlVars, NEW w \in Threads,
                      thread[w] = "clock", thread'[w] = "idle", admitted' = admitted
               PROVE  Admitted(client[w], now[w] - Window + 1, time + 1) >= Max
    OBVIOUS
  <2>1. thread \in [Threads -> {"idle", "clock"}] /\ thread'[w] # thread[w]
    BY DEF WindowsInv, RLInv, RLTypeOK
  <2>2. ASSUME NEW v \in Threads, ReadClock(v) PROVE FALSE
    BY <2>1, <2>2 DEF ReadClock
  <2>3. ASSUME NEW v \in Threads, Count(v) PROVE v = w
    <3>1. thread' = [thread EXCEPT ![v] = "idle"]
      BY <2>3 DEF Count
    <3>2. QED
      BY <2>1, <3>1
  <2>4. ~Tick /\ ~UNCHANGED rlVars
    BY <2>1 DEF Tick, rlVars
  <2>5. Count(w)
    BY <2>2, <2>3, <2>4 DEF RLNext
  <2>6. QED
    BY <2>5, RefusedIsFull
<1>2. QED
  BY <1>1, WindowsKept, PTL DEF RLSpec, RefusedOnlyAtTheLimit
=============================================================================
