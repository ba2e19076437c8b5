---------------------------- MODULE ThreeDSecure ----------------------------
(***************************************************************************)
(* tds.cpp: an e-commerce payment behind a one-time password.              *)
(*                                                                         *)
(* Initiation parks the payment as a PENDING challenge.  A verification    *)
(* reads the challenge, compares status, expiry and password, marks the    *)
(* challenge VERIFIED and makes the payment (processECOMTransaction).      *)
(* Each of these is a statement of its own, outside any transaction, and   *)
(* other workers run between them.                                         *)
(*                                                                         *)
(* A verification keeps its connection while the payment, which runs in an *)
(* async task the worker waits for, draws a second one.  The pool counts   *)
(* here by its sessions alone (its workings are in ConnectionPool): a      *)
(* request gets one if not all are taken, and an error once it has waited  *)
(* POOL_TIMEOUT_MS with none free.  The payment is one step (its workings  *)
(* are in Settlement).                                                     *)
(***************************************************************************)
EXTENDS Naturals, FiniteSets

LOCAL INSTANCE Functions

CONSTANTS
  Workers,     \* the server's worker threads
  Challenges,  \* challenge ids; no two initiations draw the same
  PoolSize,    \* sessions of the connection pool
  MaxRequests  \* requests per worker (a bound)

ASSUME TdsAssumption ==
  /\ IsFiniteSet(Workers)
  /\ PoolSize \in Nat \ {0}
  /\ MaxRequests \in Nat

VARIABLES
  status,    \* tds_challenges.status, "none" where there is no row
  lapsed,    \* the challenges whose expires_at has passed
  stage, chal,
  rightOtp,  \* the request came with the challenge's password
  conns,     \* how many sessions the request holds
  requests,
  \* history
  late,      \* the request arrived after its challenge was used or had lapsed
  paid       \* how often the parked payment was made

locals == <<chal, rightOtp, requests, late>>
tdsVars == <<status, lapsed, stage, locals, conns, paid>>

Free == PoolSize - SumFunction(conns)

TdsInit ==
  /\ status = [c \in Challenges |-> "none"]
  /\ lapsed = {}
  /\ stage = [w \in Workers |-> "idle"]
  /\ chal \in [Workers -> Challenges]
  /\ rightOtp = [w \in Workers |-> FALSE]
  /\ conns = [w \in Workers |-> 0]
  /\ requests = [w \in Workers |-> 0]
  /\ late = [w \in Workers |-> FALSE]
  /\ paid = [c \in Challenges |-> 0]

TdsGoto(w, l) == stage' = [stage EXCEPT ![w] = l]
SetStatus(w, s) == status' = [status EXCEPT ![chal[w]] = s]

(***************************************************************************)
(* The connections                                                         *)
(***************************************************************************)

(* Where a request goes with the session it asked for. *)
AfterConnect == [parkConnect |-> "park", connect |-> "read", payConnect |-> "pay"]

Connecting(w) == stage[w] \in DOMAIN AfterConnect

(* ScopedConnection in each handler, and in the payment's core. *)
Connect(w) ==
  /\ Connecting(w) /\ Free > 0
  /\ conns' = [conns EXCEPT ![w] = @ + 1]
  /\ TdsGoto(w, AfterConnect[stage[w]])
  /\ UNCHANGED <<status, lapsed, locals, paid>>

(* A slip in ConnectTimeOut: the second session is waited for forever. *)
ConnectTimeOutFirst(w) ==
  /\ Connecting(w) /\ Free = 0 /\ stage[w] # "payConnect"
  /\ TdsGoto(w, "finish")
  /\ UNCHANGED <<status, lapsed, locals, conns, paid>>

(* acquire() throws.  In a verification that wanted its second session the *)
(* challenge is VERIFIED by now and stays so.                              *)
ConnectTimeOut(w) ==
  /\ Connecting(w) /\ Free = 0
  /\ TdsGoto(w, "finish")
  /\ UNCHANGED <<status, lapsed, locals, conns, paid>>

(* The handler returns: its session is released and its locals are gone. *)
Finish(w) ==
  /\ stage[w] = "finish"
  /\ conns' = [conns EXCEPT ![w] = 0]
  /\ TdsGoto(w, "idle")
  /\ rightOtp' = [rightOtp EXCEPT ![w] = FALSE]
  /\ late' = [late EXCEPT ![w] = FALSE]
  /\ UNCHANGED <<status, lapsed, chal, requests, paid>>

(***************************************************************************)
(* processECOM3DSInitiate()                                                *)
(***************************************************************************)

ReceiveInitiate(w) ==
  /\ stage[w] = "idle" /\ requests[w] < MaxRequests
  /\ requests' = [requests EXCEPT ![w] = @ + 1]
  /\ \E c \in Challenges :
       /\ status[c] = "none"
       /\ \A v \in Workers : stage[v] \in {"parkConnect", "park"} => chal[v] # c
       /\ chal' = [chal EXCEPT ![w] = c]
  /\ TdsGoto(w, "parkConnect")
  /\ UNCHANGED <<status, lapsed, rightOtp, conns, late, paid>>

(* The card is good and the INSERT succeeds. *)
Park(w) ==
  /\ stage[w] = "park"
  /\ SetStatus(w, "PENDING")
  /\ TdsGoto(w, "finish")
  /\ UNCHANGED <<lapsed, locals, conns, paid>>

(***************************************************************************)
(* process3DSVerify()                                                      *)
(***************************************************************************)

ReceiveVerify(w) ==
  /\ stage[w] = "idle" /\ requests[w] < MaxRequests
  /\ requests' = [requests EXCEPT ![w] = @ + 1]
  /\ \E c \in Challenges, right \in BOOLEAN :
       /\ chal' = [chal EXCEPT ![w] = c]
       /\ rightOtp' = [rightOtp EXCEPT ![w] = right]
       /\ late' = [late EXCEPT ![w] = status[c] \in {"VERIFIED", "EXPIRED"} \/ c \in lapsed]
  /\ TdsGoto(w, "connect")
  /\ UNCHANGED <<status, lapsed, conns, paid>>

(* A slip in Usable: only an expired challenge is refused. *)
UsableUnlessExpired(c) == status[c] \notin {"none", "EXPIRED"}

(* The row exists and no verification has used it or found it expired. *)
Usable(c) == status[c] = "PENDING"

(* The SELECT, and the refusal of an unknown or used challenge. *)
Read(w) ==
  /\ stage[w] = "read"
  /\ TdsGoto(w, IF Usable(chal[w]) THEN "check" ELSE "finish")
  /\ UNCHANGED <<status, lapsed, locals, conns, paid>>

(* now > expiresAt *)
Expire(w) ==
  /\ stage[w] = "check" /\ chal[w] \in lapsed
  /\ SetStatus(w, "EXPIRED")
  /\ TdsGoto(w, "finish")
  /\ UNCHANGED <<lapsed, locals, conns, paid>>

(* In time: a wrong password is refused, with the right one it goes on. *)
CompareOtp(w) ==
  /\ stage[w] = "check" /\ chal[w] \notin lapsed
  /\ TdsGoto(w, IF rightOtp[w] THEN "mark" ELSE "finish")
  /\ UNCHANGED <<status, lapsed, locals, conns, paid>>

(* A slip in Mark: the row is left for after the payment. *)
MarkNothing(w) ==
  /\ stage[w] = "mark"
  /\ TdsGoto(w, "payConnect")
  /\ UNCHANGED <<status, lapsed, locals, conns, paid>>

(* The UPDATE does not look at the status it overwrites. *)
Mark(w) ==
  /\ stage[w] = "mark"
  /\ SetStatus(w, "VERIFIED")
  /\ TdsGoto(w, "payConnect")
  /\ UNCHANGED <<lapsed, locals, conns, paid>>

(* A slip in PaymentEnds: both sessions are counted as still in use. *)
PaymentEndsAlone(w) == TdsGoto(w, "finish") /\ UNCHANGED conns

(* The task is done and its session goes back; the worker has waited for   *)
(* it, whether or not wait_for timed out before.                           *)
PaymentEnds(w) ==
  /\ TdsGoto(w, "finish")
  /\ conns' = [conns EXCEPT ![w] = @ - 1]

(* The purchase commits.  The answer may still be an error: the wrapper's  *)
(* time-out, or the lost answer of the COMMIT.                             *)
Pay(w) ==
  /\ stage[w] = "pay"
  /\ paid' = [paid EXCEPT ![chal[w]] = @ + 1]
  /\ PaymentEnds(w)
  /\ UNCHANGED <<status, lapsed, locals>>

(* Card, fraud, funds or the database refuse the purchase. *)
PayRefused(w) ==
  /\ stage[w] = "pay"
  /\ PaymentEnds(w)
  /\ UNCHANGED <<status, lapsed, locals, paid>>

(* A statement throws: the handler answers ERR_EXCEPTION.  The UPDATE and  *)
(* the INSERT may have taken effect all the same.                          *)
Fail(w) ==
  /\ stage[w] \in {"park", "read", "check", "mark"}
  /\ stage[w] = "check" => chal[w] \in lapsed
  /\ \/ UNCHANGED status
     \/ stage[w] = "park" /\ SetStatus(w, "PENDING")
     \/ stage[w] = "check" /\ SetStatus(w, "EXPIRED")
     \/ stage[w] = "mark" /\ SetStatus(w, "VERIFIED")
  /\ TdsGoto(w, "finish")
  /\ UNCHANGED <<lapsed, locals, conns, paid>>

(* Ten minutes are over. *)
Lapse ==
  /\ \E c \in Challenges \ lapsed : status[c] # "none" /\ lapsed' = lapsed \cup {c}
  /\ UNCHANGED <<status, stage, locals, conns, paid>>

(***************************************************************************)
(* The specification                                                       *)
(***************************************************************************)
Step(w) ==
  \/ Connect(w) \/ ConnectTimeOut(w) \/ Park(w) \/ Read(w) \/ Expire(w)
  \/ CompareOtp(w) \/ Mark(w) \/ Pay(w) \/ PayRefused(w) \/ Finish(w)

TdsFinished ==
  /\ \A w \in Workers : stage[w] = "idle" /\ requests[w] = MaxRequests
  /\ UNCHANGED tdsVars

TdsNext ==
  \/ \E w \in Workers : ReceiveInitiate(w) \/ ReceiveVerify(w) \/ Step(w) \/ Fail(w)
  \/ Lapse \/ TdsFinished

TdsSpec == TdsInit /\ [][TdsNext]_tdsVars

(* Threads run, statements return, and a wait for a session ends at its    *)
(* time-out.                                                               *)
TdsFairSpec == TdsSpec /\ \A w \in Workers : WF_tdsVars(Step(w))

(***************************************************************************)
(* Properties                                                              *)
(***************************************************************************)

TdsTypeOK ==
  /\ status \in [Challenges -> {"none", "PENDING", "VERIFIED", "EXPIRED"}]
  /\ lapsed \subseteq Challenges
  /\ stage \in [Workers -> {"idle", "parkConnect", "park", "connect", "read", "check",
                         "mark", "payConnect", "pay", "finish"}]
  /\ chal \in [Workers -> Challenges]
  /\ rightOtp \in [Workers -> BOOLEAN] /\ late \in [Workers -> BOOLEAN]
  /\ conns \in [Workers -> 0..2]
  /\ requests \in [Workers -> 0..MaxRequests]
  /\ paid \in [Challenges -> Nat]

(* A request's sessions are those of the handler and of the payment's core *)
(* while each runs: none is leaked by a refusal, a time-out or a failure.  *)
SessionsMatchWork ==
  \A w \in Workers :
    /\ stage[w] \in {"idle", "parkConnect", "connect"} => conns[w] = 0
    /\ stage[w] \in {"park", "read", "check", "mark", "payConnect"} => conns[w] = 1
    /\ stage[w] = "pay" => conns[w] = 2
    /\ stage[w] = "finish" => conns[w] <= 1

(* A verification that arrives when its challenge has been used, was found *)
(* expired or has lapsed makes no payment, whatever overlapped before it   *)
(* ("OTPs expire after 10 minutes", README.md:739).                        *)
LateRequestsNeverPay ==
  \A w \in Workers : late[w] => stage[w] \notin {"mark", "payConnect", "pay"}

(* The status column can be relied on although every writer overwrites it  *)
(* unread: a challenge that was paid, or is about to be, is not offered as *)
(* PENDING, and only one whose time is over is EXPIRED.                    *)
StatusTellsTruth ==
  /\ \A c \in Challenges :
       /\ paid[c] > 0 => status[c] \in {"VERIFIED", "EXPIRED"}
       /\ status[c] = "EXPIRED" => c \in lapsed
  /\ \A w \in Workers : stage[w] \in {"payConnect", "pay"} =>
                           status[chal[w]] \in {"VERIFIED", "EXPIRED"}

(* Requests that hold one session and wait for another never hold each     *)
(* other up for good: every request ends.                                  *)
EveryRequestEnds == \A w \in Workers : stage[w] # "idle" ~> stage[w] = "idle"

(***************************************************************************)
(* What the documentation says and the code does not do                    *)
(***************************************************************************)

(* "Each challengeId can only be verified once" (README.md:740).  Two      *)
(* verifications that read the row before either marks it both pay.        *)
PaidOnce == \A c \in Challenges : paid[c] <= 1
=============================================================================
