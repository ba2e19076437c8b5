-------------------------- MODULE IdempotencyGate --------------------------
(***************************************************************************)
(* idempotency.cpp and its two users in parser&router.cpp: the generic     *)
(* JSON routes (registerJsonPost, "direct" here) and POST                  *)
(* /transaction/initiate ("initiate").                                     *)
(*                                                                         *)
(* A request with an Idempotency-Key inserts a row IN_PROGRESS; a          *)
(* duplicate-key error sends it to look the row up instead.  The first one *)
(* runs the handler and updates the row with the answer.  The insert, the  *)
(* look-up, the handler's commit, its return and the update are separate   *)
(* steps on separate or shared connections, so requests with one key       *)
(* interleave between them.  Each step that needs the database can fail:   *)
(* Database::acquire() throws (pool exhausted), or the statement does.     *)
(* The engine can crash; the rows survive it.                              *)
(*                                                                         *)
(* Requests without a key, whose steps touch no row, are left out.         *)
(***************************************************************************)
EXTENDS Naturals, FiniteSets

CONSTANTS
  Requests,   \* HTTP requests: first attempts, retries, duplicates
  Keys,       \* Idempotency-Key values
  Routes,     \* the routes the requests use, among "initiate" and "direct"
  NoRequest,  \* no request
  MaxFaults   \* how many database failures and crashes happen (a bound)

ASSUME GateAssumption ==
  /\ IsFiniteSet(Requests)
  /\ Routes \subseteq {"initiate", "direct"}
  /\ NoRequest \notin Requests
  /\ MaxFaults \in Nat

VARIABLES
  record,      \* record[k]: the row of key k, or NoRecord
  pc, key, route, answer, \* of each request; answer is what it carries to its end
  registered,  \* requests whose INSERT made the row
  executed,    \* requests whose handler committed its effect (history)
  cutShort,    \* keys whose owner lost its chance to update the row (history)
  faults

requestVars == <<key, route>>
vars == <<record, pc, key, route, answer, registered, executed, cutShort, faults>>

(* An answer: its HTTP status, and whether its body says that the request  *)
(* was done (SUCCESS).  The two differ: httpStatusFor() gives 200 to every *)
(* body without an errorCode, a DECLINED one (suspected fraud: pos.cpp:161,*)
(* mobile.cpp:146, iccw.cpp:160, ecom.cpp:181, ringpay.cpp:168), BLOCKED   *)
(* (ringpay.cpp:242), FAILED (ringpay.cpp:294, booked and taken back in    *)
(* one transaction), QUEUED (reversal.cpp:321) or CHALLENGE_REQUIRED       *)
(* (tds.cpp:77) included.                                                  *)
Success == [code |-> 200, success |-> TRUE]
Other(c) == [code |-> c, success |-> FALSE]

NoRecord == [status |-> "NONE", answer |-> Other(0), by |-> NoRequest]
InProgress == [status |-> "IN_PROGRESS", answer |-> Other(0), by |-> NoRequest]

(* update(): 2xx is COMPLETED, the rest FAILED. *)
Outcome(a, r) ==
  [status |-> IF a.code \in 200..299 THEN "COMPLETED" ELSE "FAILED", answer |-> a, by |-> r]

Init ==
  /\ record = [k \in Keys |-> NoRecord]
  /\ pc = [r \in Requests |-> "new"]
  /\ key \in [Requests -> Keys]
  /\ route \in [Requests -> Routes]
  /\ answer = [r \in Requests |-> Other(0)]
  /\ registered = {} /\ executed = {} /\ cutShort = {}
  /\ faults = 0

Goto(r, l) == pc' = [pc EXCEPT ![r] = l]

(* The request carries answer a to the step l. *)
Carry(r, a, l) == answer' = [answer EXCEPT ![r] = a] /\ Goto(r, l)

Fault == faults < MaxFaults /\ faults' = faults + 1

(***************************************************************************)
(* Before the gate                                                         *)
(***************************************************************************)

(* Authentication fails, or on a direct route a permission, the rate limit *)
(* or the body: the row is not touched.                                    *)
Refuse(r) ==
  /\ pc[r] = "new"
  /\ \E c \in (IF route[r] = "direct" THEN {401, 403, 429, 400} ELSE {401}) :
       Carry(r, Other(c), "done")
  /\ UNCHANGED <<record, requestVars, registered, executed, cutShort, faults>>

(* POST /transaction/initiate rejects the rate or the body through         *)
(* finish(), which updates the row of the key.  The 429 is outside the     *)
(* route's try block, the 400s are inside.                                 *)
RejectThroughFinish(r) ==
  /\ pc[r] = "new" /\ route[r] = "initiate"
  /\ \/ Carry(r, Other(429), "lastUpdate")
     \/ Carry(r, Other(400), "update")
  /\ UNCHANGED <<record, requestVars, registered, executed, cutShort, faults>>

Admit(r) ==
  /\ pc[r] = "new"
  /\ Goto(r, "insert")
  /\ UNCHANGED <<record, requestVars, answer, registered, executed, cutShort, faults>>

(***************************************************************************)
(* checkOrRegister()                                                       *)
(***************************************************************************)

(* A slip in InsertNew: the row is created with its final status. *)
InsertCompleted(r) ==
  /\ pc[r] = "insert" /\ record[key[r]] = NoRecord
  /\ record' = [record EXCEPT ![key[r]] = Outcome(Success, r)]
  /\ registered' = registered \cup {r}
  /\ Goto(r, "handler")
  /\ UNCHANGED <<requestVars, answer, executed, cutShort, faults>>

InsertNew(r) ==
  /\ pc[r] = "insert" /\ record[key[r]] = NoRecord
  /\ record' = [record EXCEPT ![key[r]] = InProgress]
  /\ registered' = registered \cup {r}
  /\ Goto(r, "handler")
  /\ UNCHANGED <<requestVars, answer, executed, cutShort, faults>>

InsertDuplicate(r) ==
  /\ pc[r] = "insert" /\ record[key[r]] # NoRecord
  /\ Goto(r, "lookup")
  /\ UNCHANGED <<record, requestVars, answer, registered, executed, cutShort, faults>>

(* No connection, or an error other than a duplicate, or a failing SELECT: *)
(* the request goes on without a row of its own.                           *)
LetThrough(r) ==
  /\ pc[r] \in {"insert", "lookup"}
  /\ Fault
  /\ Goto(r, "handler")
  /\ UNCHANGED <<record, requestVars, answer, registered, executed, cutShort>>

Conflict(r) ==
  /\ pc[r] = "lookup" /\ record[key[r]].status = "IN_PROGRESS"
  /\ Carry(r, Other(409), "done")
  /\ UNCHANGED <<record, requestVars, registered, executed, cutShort, faults>>

(* A slip in Replay: a failed attempt does not count, and runs again. *)
ReplayOnlyCompleted(r) ==
  /\ pc[r] = "lookup" /\ record[key[r]].status \in {"COMPLETED", "FAILED"}
  /\ IF record[key[r]].status = "COMPLETED"
     THEN Carry(r, record[key[r]].answer, "done")
     ELSE Goto(r, "handler") /\ UNCHANGED answer
  /\ UNCHANGED <<record, requestVars, registered, executed, cutShort, faults>>

(* A slip in Replay: the replayed answer goes through finish() as well. *)
ReplayThroughFinish(r) ==
  /\ pc[r] = "lookup" /\ record[key[r]].status \in {"COMPLETED", "FAILED"}
  /\ Carry(r, record[key[r]].answer, "update")
  /\ UNCHANGED <<record, requestVars, registered, executed, cutShort, faults>>

Replay(r) ==
  /\ pc[r] = "lookup" /\ record[key[r]].status \in {"COMPLETED", "FAILED"}
  /\ Carry(r, record[key[r]].answer, "done")
  /\ UNCHANGED <<record, requestVars, registered, executed, cutShort, faults>>

(***************************************************************************)
(* The handler                                                             *)
(***************************************************************************)

(* /transaction/initiate learns the channel only now: 403, or 400 for an   *)
(* unknown one.                                                            *)
RejectChannel(r) ==
  /\ pc[r] = "handler" /\ route[r] = "initiate"
  /\ \E c \in {403, 400} : Carry(r, Other(c), "update")
  /\ UNCHANGED <<record, requestVars, registered, executed, cutShort, faults>>

(* The handler does what its answer SUCCESS will say (for a card that is   *)
(* active already, card_mgmt.cpp:41, that is nothing).                     *)
Commit(r) ==
  /\ pc[r] = "handler"
  /\ executed' = executed \cup {r}
  /\ Goto(r, "committed")
  /\ UNCHANGED <<record, requestVars, answer, registered, cutShort, faults>>

(* The handler answers: SUCCESS after a commit; without one an error, 400  *)
(* for all of them, or one of the answers that have no errorCode.  The     *)
(* channel's time-out firing first, an error in spite of a commit.         *)
Return(r) ==
  /\ \/ pc[r] = "committed" /\ \E a \in {Success, Other(400)} : Carry(r, a, "update")
     \/ pc[r] = "handler" /\ \E c \in {200, 400} : Carry(r, Other(c), "update")
  /\ UNCHANGED <<record, requestVars, registered, executed, cutShort, faults>>

(* The handler throws.  /transaction/initiate answers 500 through          *)
(* finish(); a direct route answers 500 and leaves the row as it is.       *)
Throw(r) ==
  /\ pc[r] \in {"handler", "committed"}
  /\ \/ route[r] = "initiate" /\ Carry(r, Other(500), "lastUpdate") /\ UNCHANGED cutShort
     \/ /\ route[r] = "direct" /\ Carry(r, Other(500), "done")
        /\ cutShort' = IF r \in registered THEN cutShort \cup {key[r]} ELSE cutShort
  /\ UNCHANGED <<record, requestVars, registered, executed, faults>>

(***************************************************************************)
(* Idempotency::update() and the answer                                    *)
(***************************************************************************)

(* A slip in Store: the row keeps its status. *)
StoreNothing(k, r) == UNCHANGED record

(* UPDATE ... WHERE idempotency_key = k: nothing happens without a row. *)
Store(k, r) ==
  record' = [record EXCEPT ![k] = IF @ = NoRecord THEN @ ELSE Outcome(answer[r], r)]

UpdateOk(r) ==
  /\ pc[r] \in {"update", "lastUpdate"}
  /\ Store(key[r], r)
  /\ Goto(r, "done")
  /\ UNCHANGED <<requestVars, answer, registered, executed, cutShort, faults>>

(* The UPDATE fails: swallowed, and the answer goes out. *)
UpdateLost(r) ==
  /\ pc[r] \in {"update", "lastUpdate"}
  /\ Fault
  /\ Goto(r, "done")
  /\ cutShort' = cutShort \cup {key[r]}
  /\ UNCHANGED <<record, requestVars, answer, registered, executed>>

(* No connection for update(): it throws.  Inside the try block of         *)
(* /transaction/initiate the catch calls finish() again, with 500;         *)
(* elsewhere the client gets 500 and the row stays.                        *)
UpdateThrows(r) ==
  /\ pc[r] \in {"update", "lastUpdate"}
  /\ Fault
  /\ IF route[r] = "initiate" /\ pc[r] = "update"
     THEN Carry(r, Other(500), "lastUpdate") /\ UNCHANGED cutShort
     ELSE Carry(r, Other(500), "done") /\ cutShort' = cutShort \cup {key[r]}
  /\ UNCHANGED <<record, requestVars, registered, executed>>

(***************************************************************************)
(* The engine crashes: requests under way are gone, rows stay.             *)
(***************************************************************************)
Underway == {r \in Requests : pc[r] \notin {"new", "done", "lost"}}

Crash ==
  /\ Fault /\ Underway # {}
  /\ pc' = [r \in Requests |-> IF r \in Underway THEN "lost" ELSE pc[r]]
  /\ cutShort' = cutShort \cup {key[r] : r \in Underway}
  /\ UNCHANGED <<record, requestVars, answer, registered, executed>>

Finished ==
  /\ \A r \in Requests : pc[r] \in {"done", "lost"}
  /\ UNCHANGED vars

(* What a request does once admitted, if nothing fails. *)
Proceed(r) ==
  \/ InsertNew(r) \/ InsertDuplicate(r) \/ Conflict(r) \/ Replay(r)
  \/ RejectChannel(r) \/ Commit(r) \/ Return(r) \/ Throw(r) \/ UpdateOk(r)

Next ==
  \/ \E r \in Requests :
       \/ Refuse(r) \/ RejectThroughFinish(r) \/ Admit(r) \/ LetThrough(r)
       \/ Proceed(r) \/ UpdateLost(r) \/ UpdateThrows(r)
  \/ Crash
  \/ Finished

Spec == Init /\ [][Next]_vars

(* Handlers return and threads run; clients need not send anything. *)
FairSpec == Spec /\ \A r \in Requests : WF_vars(Proceed(r))

(***************************************************************************)
(* Properties                                                              *)
(***************************************************************************)

Answers ==
  [code : {0, 200, 400, 401, 403, 409, 429, 500}, success : BOOLEAN]

TypeOK ==
  /\ record \in [Keys -> [status : {"NONE", "IN_PROGRESS", "COMPLETED", "FAILED"},
                          answer : Answers, by : Requests \cup {NoRequest}]]
  /\ pc \in [Requests -> {"new", "insert", "lookup", "handler", "committed",
                          "update", "lastUpdate", "done", "lost"}]
  /\ key \in [Requests -> Keys] /\ route \in [Requests -> Routes]
  /\ answer \in [Requests -> Answers]
  /\ registered \subseteq Requests /\ executed \subseteq Requests
  /\ cutShort \subseteq Keys
  /\ faults \in 0..MaxFaults

(* "prevent duplicate charges on network retries" (README.md:985): of the  *)
(* requests with one key at most one takes effect, and each further one    *)
(* has cost a database failure that let it through without a row.  Holds   *)
(* across crashes, rejections and rewritten rows.                          *)
AtMostOnePerKey ==
  \A k \in Keys :
    /\ Cardinality({r \in executed : key[r] = k} \cap registered) <= 1
    /\ Cardinality({r \in executed : key[r] = k}) <= 1 + faults

(* SUCCESS is true: whether it is given by the execution or replayed from  *)
(* the row, some request with that key has committed.  (The status 200 and *)
(* a row COMPLETED alone say nothing, see Other.)                          *)
SuccessIsReal ==
  \A r \in Requests :
    pc[r] = "done" /\ answer[r].success => \E q \in executed : key[q] = key[r]

(* While the database answers, a completed row is rewritten only by a      *)
(* request that /transaction/initiate rejected before the gate: neither a  *)
(* concurrent duplicate nor a replay touches it.                           *)
CompletedRewrittenOnlyByRejected ==
  [][\A k \in Keys :
       record[k].status = "COMPLETED" /\ record'[k] # record[k] /\ faults = 0 =>
         \E r \in Requests \ registered :
           /\ key[r] = k /\ pc[r] \in {"update", "lastUpdate"} /\ pc'[r] = "done"
           /\ route[r] = "initiate" /\ answer[r].code \in {400, 429}]_vars

(* A key is not IN_PROGRESS for ever, unless a crash, a failed update or,  *)
(* on a direct route, an exception of the handler cut its owner short.     *)
KeyReleased ==
  \A k \in Keys :
    record[k].status = "IN_PROGRESS" ~>
      record[k].status # "IN_PROGRESS" \/ k \in cutShort
=============================================================================
