--------------------------- MODULE PriorityMutex ---------------------------
(***************************************************************************)
(* What the account lock manager promises its callers, without saying how: *)
(* one holder per account at a time; a caller that finds the account free  *)
(* takes it at once; a caller that finds it taken waits; and a holder that *)
(* leaves passes the account straight to a waiter, a CREDIT if any CREDIT  *)
(* waits.  There are no counters, no entries and no wake-ups here: a pass  *)
(* is one step.  AccountLockManager implements this specification.         *)
(***************************************************************************)
CONSTANTS
  Threads,         \* the worker threads of the HTTP server
  Accounts         \* account numbers

VARIABLES
  holder,          \* holder[a]: the threads that own account a
  waitingCredits,  \* waitingCredits[a]: the CREDIT operations waiting for a
  waitingDebits    \* waitingDebits[a]: the DEBIT operations waiting for a

vars == <<holder, waitingCredits, waitingDebits>>

Waiting(a) == waitingCredits[a] \cup waitingDebits[a]

Init ==
  /\ holder = [a \in Accounts |-> {}]
  /\ waitingCredits = [a \in Accounts |-> {}]
  /\ waitingDebits = [a \in Accounts |-> {}]

(* A thread takes an account nobody owns. *)
Take(t, a) ==
  /\ holder[a] = {}
  /\ holder' = [holder EXCEPT ![a] = {t}]
  /\ UNCHANGED <<waitingCredits, waitingDebits>>

(* A thread finds the account owned by another one, and waits. *)
WaitAsCredit(t, a) ==
  /\ holder[a] # {}
  /\ t \notin holder[a] \cup Waiting(a)
  /\ waitingCredits' = [waitingCredits EXCEPT ![a] = @ \cup {t}]
  /\ UNCHANGED <<holder, waitingDebits>>

WaitAsDebit(t, a) ==
  /\ holder[a] # {}
  /\ t \notin holder[a] \cup Waiting(a)
  /\ waitingDebits' = [waitingDebits EXCEPT ![a] = @ \cup {t}]
  /\ UNCHANGED <<holder, waitingCredits>>

(* The holder leaves and a waiting CREDIT becomes the holder. *)
PassToCredit(t, u, a) ==
  /\ holder[a] = {t}
  /\ u \in waitingCredits[a]
  /\ holder' = [holder EXCEPT ![a] = {u}]
  /\ waitingCredits' = [waitingCredits EXCEPT ![a] = @ \ {u}]
  /\ UNCHANGED waitingDebits

(* The holder leaves, no CREDIT waits, and a DEBIT becomes the holder. *)
PassToDebit(t, u, a) ==
  /\ holder[a] = {t}
  /\ waitingCredits[a] = {}
  /\ u \in waitingDebits[a]
  /\ holder' = [holder EXCEPT ![a] = {u}]
  /\ waitingDebits' = [waitingDebits EXCEPT ![a] = @ \ {u}]
  /\ UNCHANGED waitingCredits

(* The holder leaves and nobody waits. *)
Leave(t, a) ==
  /\ holder[a] = {t}
  /\ Waiting(a) = {}
  /\ holder' = [holder EXCEPT ![a] = {}]
  /\ UNCHANGED <<waitingCredits, waitingDebits>>

Next ==
  \E t \in Threads, a \in Accounts :
    \/ Take(t, a)
    \/ WaitAsCredit(t, a)
    \/ WaitAsDebit(t, a)
    \/ \E u \in Threads : PassToCredit(t, u, a) \/ PassToDebit(t, u, a)
    \/ Leave(t, a)

Spec == Init /\ [][Next]_vars
=============================================================================
