------------------------------ MODULE Dispatch ------------------------------
(***************************************************************************)
(* A request from the server's queue to its answer, for every channel at   *)
(* once: which session of the pool and which account locks its handler     *)
(* draws and in what order, the asynchronous task most handlers run in,    *)
(* the time-out on it, the reversal an ATM time-out starts, and the        *)
(* engine's shutdown.                                                      *)
(*                                                                         *)
(* A handler that started a task waits for it 5, 6 or 10 s.  When the time *)
(* is over it decides to answer TIMEOUT; but the future of std::async      *)
(* joins its task when it is destroyed, so the worker is not free, and the *)
(* answer not sent, before the task has ended.                             *)
(*                                                                         *)
(* Sessions are counted here (ConnectionPool has the pool's workings),     *)
(* account locks have one owner (AccountLockManager has their queues), and *)
(* a transaction is one step (Settlement has its statements).              *)
(***************************************************************************)
EXTENDS Naturals, FiniteSets, Sequences

LOCAL INSTANCE SequencesExt

CONSTANTS
  Requests,  \* HTTP requests, each on a worker thread of its own
  Accounts,  \* account numbers
  Offers,    \* what requests may be: [kind, accs], accs in the order they lock
  PoolSize,  \* sessions of the pool
  Nobody     \* the owner of a free account lock

(* ATM, POS, e-commerce, mobile, cardless cash and reversals run in a task; *)
(* so does the payment of a 3-D Secure verification.                        *)
Asynchronous ==
  {"withdrawal", "deposit", "pos", "ecom", "mobile", "iccw", "reversal", "verify"}
Kinds == Asynchronous \cup {"qr", "ringpay", "freeze"}

(* A job is a handler's work on a request, or the reversal started for it. *)
Jobs == Requests \X {"handler", "reversal"}

ASSUME DispatchAssumption ==
  /\ IsFiniteSet(Requests)
  /\ Accounts \cap {"session", "commit", "drop"} = {}
  /\ Offers \subseteq [kind : Kinds, accs : Seq(Accounts)]
  /\ PoolSize \in Nat \ {0}
  /\ Nobody \notin Jobs

VARIABLES
  pc, req,
  spawned,    \* requests whose reversal thread has not looked at the flag yet
  todo,       \* the steps a job still has: "session", an account, "commit", ...
  running,    \* the jobs that have a thread
  conns,      \* how many sessions a job holds
  owner,      \* who holds an account's lock
  dangling,   \* sessions given back to the pool after destroyPool() deleted them
  committed,  \* the jobs whose transaction was committed
  dropped,    \* the jobs that wrote a row to reversal_drop_file
  stage       \* of the engine: "running", "flagged", "stopped", "destroyed"

jobVars == <<todo, running, conns, owner, dangling, committed, dropped>>
vars == <<pc, req, spawned, jobVars, stage>>

Steps == Accounts \cup {"session", "commit", "drop"}

NoRequest == [kind |-> "none", accs |-> <<>>]

(* The queue of the pool: destroyPool() empties it, and whoever still has a *)
(* session then puts the deleted one back into it.                          *)
Free == IF stage = "destroyed" THEN dangling ELSE PoolSize - SumFunction(conns)

(***************************************************************************)
(* What each handler draws, in order                                       *)
(***************************************************************************)

(* The session first, and the account locks with it in hand. *)
AtmPlan(accs) == <<"session">> \o accs \o <<"commit">>
PosPlan(accs) == <<"session">> \o accs \o <<"commit">>
EcomPlan(accs) == <<"session">> \o accs \o <<"commit">>
MobilePlan(accs) == <<"session">> \o accs \o <<"commit">>
IccwPlan(accs) == <<"session">> \o accs \o <<"commit">>
QrPlan(accs) == <<"session">> \o accs \o <<"commit">>
RingPayPlan(accs) == <<"session">> \o accs \o <<"commit">>
ReversalPlan(accs) == <<"session">> \o accs \o <<"commit">>

(* Freezing locks the account before it has a session. *)
FreezePlan(accs) == accs \o <<"session", "commit">>

(* A verification has a session of its own when the payment draws one. *)
VerifyPlan(accs) == <<"session">> \o EcomPlan(accs)

Plan(q) ==
  LET PlanOf == [withdrawal |-> AtmPlan(q.accs), deposit |-> AtmPlan(q.accs),
                 pos |-> PosPlan(q.accs), ecom |-> EcomPlan(q.accs),
                 mobile |-> MobilePlan(q.accs), iccw |-> IccwPlan(q.accs),
                 qr |-> QrPlan(q.accs),
                 ringpay |-> RingPayPlan(q.accs), reversal |-> ReversalPlan(q.accs),
                 freeze |-> FreezePlan(q.accs), verify |-> VerifyPlan(q.accs)]
  IN  PlanOf[q.kind]

(* The reversal of an ATM time-out has the _resolvedAccountNumber of the   *)
(* request's data, which the code never sets but a client may; without one *)
(* it is refused as ERR_REVERSAL_MISSING_FIELDS before it draws a session. *)
AutoReversalPlans == {<<>>} \cup {ReversalPlan(<<a>>) : a \in Accounts}

Init ==
  /\ pc = [r \in Requests |-> "idle"]
  /\ req = [r \in Requests |-> NoRequest]
  /\ todo = [j \in Jobs |-> <<>>]
  /\ running = {} /\ committed = {} /\ dropped = {} /\ spawned = {}
  /\ conns = [j \in Jobs |-> 0]
  /\ owner = [a \in Accounts |-> Nobody]
  /\ dangling = 0 /\ stage = "running"

Goto(r, l) == pc' = [pc EXCEPT ![r] = l]

(***************************************************************************)
(* The worker thread                                                       *)
(***************************************************************************)

(* The server takes connections until it is stopped. *)
Accept(r) ==
  /\ pc[r] = "idle" /\ stage \in {"running", "flagged"}
  /\ \E q \in Offers : req' = [req EXCEPT ![r] = q]
  /\ Goto(r, "queued")
  /\ UNCHANGED <<spawned, jobVars, stage>>

(* What is queued is served, also after stop(). *)
Begin(r) ==
  /\ pc[r] = "queued"
  /\ todo' = [todo EXCEPT ![<<r, "handler">>] = Plan(req[r])]
  /\ running' = running \cup {<<r, "handler">>}
  /\ Goto(r, "waiting")
  /\ UNCHANGED <<req, spawned, conns, owner, dangling, committed, dropped, stage>>

(* wait_for gives up on the task; in a verification, that of the payment.  *)
(* For a withdrawal a detached thread is to reverse it.                    *)
TimeOut(r) ==
  /\ pc[r] = "waiting" /\ req[r].kind \in Asynchronous
  /\ <<r, "handler">> \in running
  /\ req[r].kind = "verify" => conns[<<r, "handler">>] > 0
  /\ spawned' = IF req[r].kind = "withdrawal" THEN spawned \cup {r} ELSE spawned
  /\ Goto(r, "timedOut")
  /\ UNCHANGED <<req, jobVars, stage>>

(* A slip in Reply: a timed-out task is left to itself. *)
ReplyAtTimeOut(r) ==
  /\ \/ pc[r] = "waiting" /\ <<r, "handler">> \notin running
     \/ pc[r] = "timedOut"
  /\ Goto(r, "done")
  /\ UNCHANGED <<req, spawned, jobVars, stage>>

(* The handler returns, which joins its task, and the answer is sent. *)
Reply(r) ==
  /\ pc[r] \in {"waiting", "timedOut"} /\ <<r, "handler">> \notin running
  /\ Goto(r, "done")
  /\ UNCHANGED <<req, spawned, jobVars, stage>>

(* The detached thread looks at g_engineShutdown, and goes on or ends. *)
StartReversal(r) ==
  /\ r \in spawned
  /\ spawned' = spawned \ {r}
  /\ IF stage = "running"
     THEN /\ running' = running \cup {<<r, "reversal">>}
          /\ \E plan \in AutoReversalPlans : todo' = [todo EXCEPT ![<<r, "reversal">>] = plan]
     ELSE UNCHANGED <<running, todo>>
  /\ UNCHANGED <<pc, req, conns, owner, dangling, committed, dropped, stage>>

(***************************************************************************)
(* The steps of a job                                                      *)
(***************************************************************************)
(* The next step of job j is one of S. *)
At(j, S) == j \in running /\ todo[j] # <<>> /\ Head(todo[j]) \in S

Reversal(j) == j[2] = "reversal" \/ req[j[1]].kind = "reversal"

Advance(j) == todo' = [todo EXCEPT ![j] = Tail(@)]

ReleaseAll(j) ==
  /\ dangling' = IF stage = "destroyed" THEN dangling + conns[j] ELSE dangling
  /\ conns' = [conns EXCEPT ![j] = 0]
  /\ owner' = [a \in Accounts |-> IF owner[a] = j THEN Nobody ELSE owner[a]]

(* A slip in End: an account lock taken by hand is not released. *)
EndKeepingLocks(j) ==
  /\ running' = running \ {j}
  /\ todo' = [todo EXCEPT ![j] = <<>>]
  /\ conns' = [conns EXCEPT ![j] = 0]
  /\ UNCHANGED <<owner, dangling>>

(* The scopes of the locks and of the session are left. *)
End(j) ==
  /\ running' = running \ {j}
  /\ todo' = [todo EXCEPT ![j] = <<>>]
  /\ ReleaseAll(j)

(* A slip in Throw: the reversal draws the new session before it gives the *)
(* old one back.                                                           *)
ThrowKeepingSession(j) ==
  IF Reversal(j) /\ Last(todo[j]) = "commit"
  THEN /\ todo' = [todo EXCEPT ![j] = <<"session", "drop">>]
       /\ UNCHANGED <<running, conns, owner, dangling>>
  ELSE End(j)

(* An exception ends the job; a reversal gives back what it has and draws  *)
(* a new session to be queued in reversal_drop_file, once.                 *)
Throw(j) ==
  IF Reversal(j) /\ Last(todo[j]) = "commit"
  THEN /\ todo' = [todo EXCEPT ![j] = <<"session", "drop">>]
       /\ ReleaseAll(j)
       /\ UNCHANGED running
  ELSE End(j)

DrawSession(j) ==
  /\ At(j, {"session"}) /\ Free > 0
  /\ conns' = [conns EXCEPT ![j] = @ + 1]
  /\ dangling' = IF stage = "destroyed" THEN dangling - 1 ELSE dangling
  /\ Advance(j)
  /\ UNCHANGED <<pc, req, spawned, running, owner, committed, dropped, stage>>

(* A slip in SessionTimeOut: who holds a session waits on for the next. *)
SessionTimeOutFirst(j) ==
  /\ At(j, {"session"}) /\ Free = 0 /\ conns[j] = 0
  /\ Throw(j)
  /\ UNCHANGED <<pc, req, spawned, committed, dropped, stage>>

(* acquire() throws after POOL_TIMEOUT_MS without a free session. *)
SessionTimeOut(j) ==
  /\ At(j, {"session"}) /\ Free = 0
  /\ Throw(j)
  /\ UNCHANGED <<pc, req, spawned, committed, dropped, stage>>

(* ScopedLock waits for the account as long as it takes. *)
LockAccount(j) ==
  /\ At(j, Accounts) /\ owner[Head(todo[j])] = Nobody
  /\ owner' = [owner EXCEPT ![Head(todo[j])] = j]
  /\ Advance(j)
  /\ UNCHANGED <<pc, req, spawned, running, conns, dangling, committed, dropped, stage>>

Commit(j) ==
  /\ At(j, {"commit"})
  /\ committed' = committed \cup {j}
  /\ End(j)
  /\ UNCHANGED <<pc, req, spawned, dropped, stage>>

(* The INSERT into reversal_drop_file. *)
WriteDrop(j) ==
  /\ At(j, {"drop"})
  /\ dropped' = dropped \cup {j}
  /\ End(j)
  /\ UNCHANGED <<pc, req, spawned, committed, stage>>

(* A reversal's health check fails: it is queued on the session it has. *)
DatabaseDown(j) ==
  /\ At(j, Accounts) /\ Reversal(j) /\ conns[j] > 0
  /\ todo' = [todo EXCEPT ![j] = <<"drop">>]
  /\ UNCHANGED <<pc, req, spawned, running, conns, owner, dangling, committed, dropped,
                 stage>>

(* Card, PIN, fraud, funds or limits refuse the request, or a statement    *)
(* throws, before the locks or under them.                                 *)
Fail(j) ==
  /\ At(j, Steps) /\ conns[j] > 0
  /\ Throw(j)
  /\ UNCHANGED <<pc, req, spawned, committed, dropped, stage>>

(* An automatic reversal without an account is refused and its thread ends. *)
EndEmpty(j) ==
  /\ j \in running /\ todo[j] = <<>>
  /\ End(j)
  /\ UNCHANGED <<pc, req, spawned, committed, dropped, stage>>

(***************************************************************************)
(* main() and the signal                                                   *)
(***************************************************************************)

(* onSignal() sets g_engineShutdown ... *)
Signal ==
  /\ stage = "running" /\ stage' = "flagged"
  /\ UNCHANGED <<pc, req, spawned, jobVars>>

(* ... and stops the server. *)
StopServer ==
  /\ stage = "flagged" /\ stage' = "stopped"
  /\ UNCHANGED <<pc, req, spawned, jobVars>>

(* listen() returns when the queue is served and its workers are joined;   *)
(* then destroyPool() deletes the sessions, those in use included.         *)
Destroy ==
  /\ stage = "stopped" /\ \A r \in Requests : pc[r] \in {"idle", "done"}
  /\ stage' = "destroyed"
  /\ UNCHANGED <<pc, req, spawned, jobVars>>

Stopped ==
  /\ stage = "destroyed" /\ running = {} /\ spawned = {}
  /\ UNCHANGED vars

(***************************************************************************)
(* The specification                                                       *)
(***************************************************************************)
WorkerStep(r) == Begin(r) \/ Reply(r)
JobStep(j) ==
  \/ DrawSession(j) \/ SessionTimeOut(j) \/ LockAccount(j)
  \/ Commit(j) \/ WriteDrop(j) \/ EndEmpty(j)

Next ==
  \/ \E r \in Requests : Accept(r) \/ TimeOut(r) \/ StartReversal(r) \/ WorkerStep(r)
  \/ \E j \in Jobs : JobStep(j) \/ DatabaseDown(j) \/ Fail(j)
  \/ Signal \/ StopServer \/ Destroy \/ Stopped

Spec == Init /\ [][Next]_vars

(* Threads run, the database answers, a wait for a session ends at its     *)
(* time-out.  Nothing is assumed of the handlers' time-outs.  A job may    *)
(* have to try for a lock many times, but the requests are finitely many.  *)
FairSpec ==
  /\ Spec
  /\ \A r \in Requests : WF_vars(WorkerStep(r))
  /\ \A j \in Jobs : WF_vars(JobStep(j))

(***************************************************************************)
(* Properties                                                              *)
(***************************************************************************)
TypeOK ==
  /\ pc \in [Requests -> {"idle", "queued", "waiting", "timedOut", "done"}]
  /\ req \in [Requests -> Offers \cup {NoRequest}]
  /\ spawned \subseteq Requests
  /\ todo \in [Jobs -> Seq(Steps)]
  /\ running \subseteq Jobs /\ committed \subseteq Jobs /\ dropped \subseteq Jobs
  /\ conns \in [Jobs -> 0..2]
  /\ \A j \in Jobs : conns[j] = 2 => req[j[1]].kind = "verify"
  /\ owner \in [Accounts -> Jobs \cup {Nobody}]
  /\ dangling \in Nat /\ stage \in {"running", "flagged", "stopped", "destroyed"}

(* A job that has ended, however it ended, holds no session and no account *)
(* lock: a forgotten lock would block the account for good.                *)
ReleasedInFull ==
  \A j \in Jobs \ running :
    conns[j] = 0 /\ \A a \in Accounts : owner[a] # j

Uses(j) == conns[j] > 0 \/ At(j, {"session"})

(* No handler uses or asks for a session once destroyPool() has deleted    *)
(* them, timed-out tasks included: only a reversal may, which was started  *)
(* for a withdrawal before the signal and outlives the workers.            *)
NoHandlerAfterDestroy ==
  stage = "destroyed" =>
    \A j \in Jobs : Uses(j) =>
      j[2] = "reversal" /\ j[1] \notin spawned /\ req[j[1]].kind = "withdrawal"

(* What a request does is decided when its answer is sent, a TIMEOUT       *)
(* included: no handler commits behind the back of a client that was told. *)
NoCommitAfterAnswer ==
  [][\A r \in Requests :
       pc[r] = "done" => (<<r, "handler">> \in committed' => <<r, "handler">> \in committed)]_vars

(* Handlers that draw sessions and account locks in different orders       *)
(* (freezing the lock first, the others the session, a verification two    *)
(* sessions) never hold each other up for good.                            *)
EveryRequestEnds ==
  \A r \in Requests : pc[r] = "queued" ~> pc[r] = "done"
=============================================================================
