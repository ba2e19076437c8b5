----------------------------- MODULE Settlement -----------------------------
(***************************************************************************)
(* How the channels move money: atm.cpp, pos.cpp, ecom.cpp, qrcode.cpp,    *)
(* mobile.cpp, iccw.cpp, ringpay.cpp, reversal.cpp and the freeze          *)
(* operation of account.cpp, from the point where a request has passed the *)
(* validation of its card and of fraud, which touch nothing of this state. *)
(*                                                                         *)
(* Every operation follows the same plan: lock the account in the engine   *)
(* (AccountLockManager), open a database transaction, read the balance     *)
(* with FOR UPDATE, check, write balance and rows, commit, unlock.  The    *)
(* operations differ in what they lock and in the order of their steps,    *)
(* which Plan gives.  A transaction's writes become visible in one step,   *)
(* its commit; an error at any earlier point rolls it back and leaves      *)
(* nothing.  A crash of the engine is every worker failing.                *)
(* InnoDB's row locks are those of the SELECT ... FOR UPDATE statements    *)
(* and of a reversal's UPDATE of the row it reverses.  The channels'       *)
(* tables have no index but the primary key, so a refund, which looks its  *)
(* purchase up by another column, locks every row of the channel's table   *)
(* and the gap that INSERTs go to.  That InnoDB breaks a deadlock is one   *)
(* more cause of Fail, but for a reversal's (LoseCredit).                  *)
(*                                                                         *)
(* Amounts and fees are integers, the cents the columns keep, and have a   *)
(* sign: few handlers look at it.  Rows of the channels' tables are the    *)
(* committed requests; the SUMs over a window of them are kept as running  *)
(* totals in usage.                                                        *)
(***************************************************************************)
EXTENDS Integers, FiniteSets, Sequences

CONSTANTS
  Workers,    \* the server's worker threads; each runs one request, whose
              \* transaction id it stands for
  Accounts,   \* account numbers, ordered as the code's strings are
  Offers,     \* what requests may ask for: [kind, acc, to, amount, fee]
  Opening,    \* the balances at the start
  Limit       \* per bucket: ATM_DAILY_WITHDRAWAL_LIMIT, MOB_HOURLY_LIMIT, ...

Debits == {"withdraw", "posBuy", "ecomBuy", "qrBuy", "iccw", "ringpay"}
Refunds == {"posRefund", "ecomRefund", "qrRefund"}
Freezes == {"freeze", "unfreeze"}
Kinds == Debits \cup Refunds \cup Freezes \cup {"deposit", "transfer", "reverse"}

(* The windows the limits are taken over, per account. *)
Buckets == {"atmOut", "atmIn", "mobileHour", "mobileDay", "ringDay"}

ASSUME SettlementAssumption ==
  /\ Accounts \subseteq Nat
  /\ Offers \subseteq [kind : Kinds, acc : Accounts, to : Accounts,
                       amount : Int, fee : Int]
  /\ Opening \in [Accounts -> Nat]
  /\ Limit \in [Buckets -> Nat]

VARIABLES
  \* the database
  balance,         \* accounts.balance
  frozen,          \* accounts.is_frozen
  committed,       \* the requests whose rows are in the tables
  usage,           \* usage[b][a]: the SUM over the rows of a in bucket b
  hourly,          \* the transfers of a whose rows are less than an hour old
  refunded, flag,  \* columns of the purchase rows
  dropped,         \* reversals in reversal_drop_file
  rows,            \* rows[w]: account rows w's transaction has locked
  lockedOriginal,  \* refunds that have locked the table of their purchase, and
                   \* reversals that have locked the row they reverse
  \* the workers
  pc, req,
  orig,            \* the request a refund or a reversal refers to
  found,           \* the account a POS refund found before locking, if any
  holds,           \* the accounts w holds in AccountLockManager
  seen,            \* seen[w][a]: the balance of a that w has read
  seenRefunded,    \* the refunded_amount w has read
  \* history
  repaid,          \* repaid[p]: what refunds of p have returned in all
  reversed         \* the reversals that were answered REVERSED

columns == <<usage, hourly, refunded, flag>>
locals == <<req, orig, found, seenRefunded>>
vars == <<balance, frozen, committed, columns, dropped, rows, lockedOriginal,
          pc, locals, holds, seen, repaid, reversed>>

NoRequest == [kind |-> "none", acc |-> 0, to |-> 0, amount |-> 0, fee |-> 0]

Kind(w) == req[w].kind

(* What a request asks for is known once it is received. *)
Amount(w) == req[w].amount
WithFee(w) == req[w].amount + req[w].fee

(* These are refused unless their amount is positive; of the others, and   *)
(* of the fees, nobody asks.  (A POS refund is in Refundable.)             *)
Valid(q) == q.kind \in {"posBuy", "ecomBuy", "qrBuy", "iccw", "reverse"} => q.amount > 0

(***************************************************************************)
(* The operations, each as the order of its steps: the step that follows   *)
(* each of its steps, "start" being the entry.                             *)
(***************************************************************************)

(* The limit is read after the balance ... *)
Withdrawal == [start |-> "lock", lock |-> "balance", balance |-> "limit", limit |-> "commit"]

(* A slip in Deposit: the limit is read before the lock is taken. *)
DepositLimitUnlocked ==
  [start |-> "limit", limit |-> "lock", lock |-> "balance", balance |-> "commit"]

(* ... or before it. *)
Deposit == [start |-> "lock", lock |-> "limit", limit |-> "balance", balance |-> "commit"]

Transfer == [start |-> "lock", lock |-> "balance", balance |-> "limit", limit |-> "commit"]

PosPurchase == [start |-> "lock", lock |-> "balance", balance |-> "commit"]
EcomPurchase == [start |-> "lock", lock |-> "balance", balance |-> "commit"]
QrPurchase == [start |-> "lock", lock |-> "balance", balance |-> "commit"]
CardlessCash == [start |-> "lock", lock |-> "balance", balance |-> "commit"]

(* RingPay looks at the freeze flag and at its limits before it locks. *)
RingPayment ==
  [start |-> "check", check |-> "limit", limit |-> "lock", lock |-> "balance",
   balance |-> "commit"]

(* A POS refund looks for the account of its purchase before it locks. *)
PosRefund ==
  [start |-> "find", find |-> "lock", lock |-> "original", original |-> "balance",
   balance |-> "commit"]

EcomRefund == [start |-> "lock", lock |-> "original", original |-> "balance", balance |-> "commit"]
QrRefund == [start |-> "lock", lock |-> "original", original |-> "balance", balance |-> "commit"]

(* A reversal does not look at the transaction it reverses, but marks it. *)
Reversal == [start |-> "lock", lock |-> "balance", balance |-> "mark", mark |-> "commit"]

(* Freezing locks the account row as the others do. *)
Freezing == [start |-> "lock", lock |-> "balance", balance |-> "commit"]

Plan ==
  [withdraw |-> Withdrawal, deposit |-> Deposit, transfer |-> Transfer,
   posBuy |-> PosPurchase, ecomBuy |-> EcomPurchase, qrBuy |-> QrPurchase,
   iccw |-> CardlessCash, ringpay |-> RingPayment, posRefund |-> PosRefund,
   ecomRefund |-> EcomRefund, qrRefund |-> QrRefund, reverse |-> Reversal,
   freeze |-> Freezing, unfreeze |-> Freezing]

(* The accounts whose balance row the request reads and locks. *)
AccountsOf(w) ==
  CASE Kind(w) = "transfer" -> {req[w].acc, req[w].to}
    [] Kind(w) = "posRefund" -> {req[orig[w]].acc}
    [] OTHER -> {req[w].acc}

(* A slip in ToLock: a POS refund relies on the lock of its table. *)
LocksButRefunds(w) == IF Kind(w) = "posRefund" THEN {} ELSE AccountsOf(w)

(* The accounts it locks in the engine. *)
ToLock(w) == IF Kind(w) = "posRefund" THEN found[w] ELSE AccountsOf(w)

(* A slip in NextOf: in any order. *)
AnyOf(a, S, T) == a \in S \ T

(* a is the next of S \ T, in ascending order. *)
NextOf(a, S, T) == a \in S \ T /\ \A b \in S \ T : a <= b

(***************************************************************************)
(* Limits and refunds                                                      *)
(***************************************************************************)
BucketsOf(k) ==
  CASE k = "withdraw" -> {"atmOut"}
    [] k = "deposit" -> {"atmIn"}
    [] k = "transfer" -> {"mobileHour", "mobileDay"}
    [] k = "ringpay" -> {"ringDay"}
    [] OTHER -> {}

(* What a row counts for: an ATM withdrawal with its fee, others without. *)
Charge(w) == IF Kind(w) = "withdraw" THEN WithFee(w) ELSE Amount(w)

WithinLimits(w) ==
  \A b \in BucketsOf(Kind(w)) : usage[b][req[w].acc] + Charge(w) <= Limit[b]

PurchaseOf(k) ==
  CASE k = "posRefund" -> "posBuy"
    [] k = "ecomRefund" -> "ecomBuy"
    [] k = "qrRefund" -> "qrBuy"

(* The row the refund names is in the table of its channel. *)
PurchaseExists(w) == orig[w] \in committed /\ Kind(orig[w]) = PurchaseOf(Kind(w))

(* A slip in Refundable: each part is compared with the whole purchase. *)
RefundableEachTime(w) ==
  LET p == orig[w] IN
  /\ PurchaseExists(w)
  /\ Amount(w) <= Amount(p)
  /\ Kind(w) = "posRefund" => flag[p] = "N" /\ refunded[p] <= 0 /\ Amount(w) > 0
  /\ Kind(w) = "ecomRefund" => flag[p] # "RF"
  /\ Kind(w) = "qrRefund" =>
       /\ req[p].acc = req[w].acc
       /\ \A v \in committed : ~(Kind(v) = "qrRefund" /\ orig[v] = p)

(* A POS or QR purchase is refunded once, an e-commerce purchase in parts. *)
(* A QR refund must name the account that paid.  (The sum of doubles may   *)
(* exceed the purchase though the parts do not: one more cause of Fail.)   *)
Refundable(w) ==
  LET p == orig[w] IN
  /\ PurchaseExists(w)
  /\ Kind(w) = "posRefund" =>
       flag[p] = "N" /\ refunded[p] <= 0 /\ Amount(w) > 0 /\ Amount(w) <= Amount(p)
  /\ Kind(w) = "ecomRefund" => flag[p] # "RF" /\ Amount(w) + refunded[p] <= Amount(p)
  /\ Kind(w) = "qrRefund" =>
       /\ req[p].acc = req[w].acc
       /\ Amount(w) <= Amount(p)
       /\ \A v \in committed : ~(Kind(v) = "qrRefund" /\ orig[v] = p)

(* A slip in Affordable: the fee is forgotten. *)
AffordableWithoutFee(w) ==
  /\ Kind(w) \in Debits \cup {"transfer"} => seen[w][req[w].acc] >= Amount(w)
  /\ Kind(w) = "posRefund" => Amount(w) > req[orig[w]].fee

(* Debits need funds for amount and fee; a POS refund must exceed the fee  *)
(* of the purchase, which it keeps.                                        *)
Affordable(w) ==
  /\ Kind(w) \in Debits \cup {"transfer"} => seen[w][req[w].acc] >= WithFee(w)
  /\ Kind(w) = "posRefund" => Amount(w) > req[orig[w]].fee

(* What a credit adds to the account. *)
Credited(w) ==
  CASE Kind(w) = "reverse" -> WithFee(w)
    [] Kind(w) = "posRefund" -> Amount(w) - req[orig[w]].fee
    [] OTHER -> Amount(w)

(* The balance w writes for a, from the balance it has read.  In a         *)
(* transfer to the same account the second UPDATE overwrites the first.    *)
Written(w, a) ==
  IF Kind(w) = "transfer" /\ a = req[w].to THEN seen[w][a] + Amount(w)
  ELSE IF Kind(w) \in Debits \cup {"transfer"} THEN seen[w][a] - WithFee(w)
  ELSE seen[w][a] + Credited(w)

(***************************************************************************)
(* Waiting for a row                                                       *)
(***************************************************************************)

(* The table a row of this kind is in, as far as others lock it. *)
TableOf(k) ==
  CASE k \in {"posBuy", "posRefund"} -> "transaction_pos"
    [] k \in {"ecomBuy", "ecomRefund"} -> "transaction_ecom"
    [] k \in {"qrBuy", "qrRefund"} -> "transaction_qrcode"
    [] OTHER -> "other"

(* Request p has a row with a reversal_status column. *)
Markable(p) == p \in committed /\ Kind(p) \notin Freezes \cup {"reverse"}

(* The transaction of refund v has locked the table k's row is in. *)
HasTable(v, k) ==
  v \in lockedOriginal /\ Kind(v) \in Refunds /\ TableOf(Kind(v)) = TableOf(k)

(* The transaction of reversal v has locked the row of request p. *)
HasMarked(v, p) == v \in lockedOriginal /\ Kind(v) = "reverse" /\ orig[v] = p

(* w waits for v: a refund for who has locked its table or a row of it, a  *)
(* reversal for who has locked the row it marks, and the INSERT of a       *)
(* purchase for a refund.                                                  *)
AwaitsTable(w, v) ==
  \/ /\ pc[w] = "original"
     /\ \/ HasTable(v, Kind(w))
        \/ HasMarked(v, orig[v]) /\ TableOf(Kind(orig[v])) = TableOf(Kind(w))
  \/ /\ pc[w] = "mark" /\ Markable(orig[w])
     /\ HasTable(v, Kind(orig[w])) \/ HasMarked(v, orig[w])
  \/ pc[w] = "commit" /\ v # w /\ HasTable(v, Kind(w)) /\ Affordable(w)

(* w waits for a row of accounts that v has locked. *)
AwaitsRow(w, v) == pc[w] = "balance" /\ \E a \in rows[v] : NextOf(a, AccountsOf(w), rows[w])

(***************************************************************************)
(* The initial state: an empty day                                         *)
(***************************************************************************)
Init ==
  /\ balance = Opening
  /\ frozen = [a \in Accounts |-> FALSE]
  /\ committed = {} /\ dropped = {} /\ lockedOriginal = {}
  /\ usage = [b \in Buckets |-> [a \in Accounts |-> 0]]
  /\ hourly = [a \in Accounts |-> <<>>]
  /\ refunded = [w \in Workers |-> 0]
  /\ flag = [w \in Workers |-> "N"]
  /\ rows = [w \in Workers |-> {}]
  /\ pc = [w \in Workers |-> "idle"]
  /\ req = [w \in Workers |-> NoRequest]
  /\ orig = [w \in Workers |-> w]
  /\ found = [w \in Workers |-> {}]
  /\ holds = [w \in Workers |-> {}]
  /\ seen = [w \in Workers |-> [a \in Accounts |-> 0]]
  /\ seenRefunded = [w \in Workers |-> 0]
  /\ repaid = [w \in Workers |-> 0]
  /\ reversed = {}

Goto(w, l) == pc' = [pc EXCEPT ![w] = l]
Proceed(w) == Goto(w, Plan[Kind(w)][pc[w]])

(***************************************************************************)
(* Before the transaction                                                  *)
(***************************************************************************)

(* A valid request reaches its handler's core.  A refund and a reversal    *)
(* name another request.                                                   *)
Receive(w) ==
  /\ pc[w] = "idle"
  /\ \E q \in Offers :
       /\ Valid(q)
       /\ req' = [req EXCEPT ![w] = q]
       /\ \E p \in (IF q.kind \in Refunds \cup {"reverse"} THEN Workers \ {w} ELSE {w}) :
            orig' = [orig EXCEPT ![w] = p]
       /\ Goto(w, Plan[q.kind].start)
  /\ UNCHANGED <<balance, frozen, committed, columns, dropped, rows, lockedOriginal,
                 found, holds, seen, seenRefunded, repaid, reversed>>

(* RingPay, and no other operation, refuses a frozen account. *)
CheckFrozen(w) ==
  /\ pc[w] = "check"
  /\ IF frozen[req[w].acc] THEN Goto(w, "leave") ELSE Proceed(w)
  /\ UNCHANGED <<balance, frozen, committed, columns, dropped, rows, lockedOriginal,
                 locals, holds, seen, repaid, reversed>>

(* A POS refund looks the account of the purchase up. *)
Find(w) ==
  /\ pc[w] = "find"
  /\ found' = [found EXCEPT ![w] = IF PurchaseExists(w) THEN {req[orig[w]].acc} ELSE {}]
  /\ Proceed(w)
  /\ UNCHANGED <<balance, frozen, committed, columns, dropped, rows, lockedOriginal,
                 req, orig, seenRefunded, holds, seen, repaid, reversed>>

(* AccountLockManager::ScopedLock, for the lowest account not yet held.    *)
(* A POS refund that found no account goes on without a lock.              *)
Lock(w) ==
  /\ pc[w] = "lock"
  /\ \/ /\ ToLock(w) = {}
        /\ Proceed(w)
        /\ UNCHANGED holds
     \/ \E a \in Accounts :
          /\ NextOf(a, ToLock(w), holds[w])
          /\ \A v \in Workers : a \notin holds[v]
          /\ holds' = [holds EXCEPT ![w] = @ \cup {a}]
          /\ IF ToLock(w) \subseteq holds[w] \cup {a} THEN Proceed(w) ELSE Goto(w, "lock")
  /\ UNCHANGED <<balance, frozen, committed, columns, dropped, rows, lockedOriginal,
                 locals, seen, repaid, reversed>>

(***************************************************************************)
(* Inside the transaction                                                  *)
(***************************************************************************)

(* The transaction ends and its row locks go. *)
EndTransaction(w) ==
  /\ rows' = [rows EXCEPT ![w] = {}]
  /\ lockedOriginal' = lockedOriginal \ {w}
  /\ Goto(w, "leave")

(* SELECT ... FROM the purchases ... FOR UPDATE, and the refund's guards. *)
LockOriginal(w) ==
  /\ pc[w] = "original"
  /\ \A v \in Workers : ~AwaitsTable(w, v)
  /\ IF Refundable(w)
     THEN /\ lockedOriginal' = lockedOriginal \cup {w}
          /\ seenRefunded' = [seenRefunded EXCEPT ![w] = refunded[orig[w]]]
          /\ Proceed(w)
          /\ UNCHANGED rows
     ELSE EndTransaction(w) /\ UNCHANGED seenRefunded
  /\ UNCHANGED <<balance, frozen, committed, columns, dropped, req, orig, found,
                 holds, seen, repaid, reversed>>

(* A slip in ReadBalance: SELECT balance without FOR UPDATE. *)
ReadBalanceUnlocked(w) ==
  /\ pc[w] = "balance"
  /\ \E a \in Accounts :
       /\ NextOf(a, AccountsOf(w), rows[w])
       /\ rows' = [rows EXCEPT ![w] = @ \cup {a}]
       /\ seen' = [seen EXCEPT ![w][a] = balance[a]]
       /\ IF AccountsOf(w) \subseteq rows[w] \cup {a} THEN Proceed(w) ELSE Goto(w, "balance")
  /\ UNCHANGED <<balance, frozen, committed, columns, dropped, lockedOriginal,
                 locals, holds, repaid, reversed>>

(* SELECT balance ... FOR UPDATE, in ascending order for a transfer. *)
ReadBalance(w) ==
  /\ pc[w] = "balance"
  /\ \E a \in Accounts :
       /\ NextOf(a, AccountsOf(w), rows[w])
       /\ \A v \in Workers : a \notin rows[v]
       /\ rows' = [rows EXCEPT ![w] = @ \cup {a}]
       /\ seen' = [seen EXCEPT ![w][a] = balance[a]]
       /\ IF AccountsOf(w) \subseteq rows[w] \cup {a} THEN Proceed(w) ELSE Goto(w, "balance")
  /\ UNCHANGED <<balance, frozen, committed, columns, dropped, lockedOriginal,
                 locals, holds, repaid, reversed>>

(* The SUM over the window, and the comparison with the limit. *)
ReadLimit(w) ==
  /\ pc[w] = "limit"
  /\ IF WithinLimits(w)
     THEN Proceed(w) /\ UNCHANGED <<rows, lockedOriginal>>
     ELSE EndTransaction(w)
  /\ UNCHANGED <<balance, frozen, committed, columns, dropped, locals, holds,
                 seen, repaid, reversed>>

Refuse(w) ==
  /\ pc[w] = "commit" /\ ~Affordable(w)
  /\ EndTransaction(w)
  /\ UNCHANGED <<balance, frozen, committed, columns, dropped, locals, holds,
                 seen, repaid, reversed>>

(* UPDATE ... SET reversal_status = 'REVERSED' of the row reversed.        *)
Mark(w) ==
  /\ pc[w] = "mark" /\ \A v \in Workers : ~AwaitsTable(w, v)
  /\ lockedOriginal' = IF Markable(orig[w]) THEN lockedOriginal \cup {w} ELSE lockedOriginal
  /\ Proceed(w)
  /\ UNCHANGED <<balance, frozen, committed, columns, dropped, rows, locals, holds,
                 seen, repaid, reversed>>

(* An error of that statement, the time-out of its wait included, is       *)
(* swallowed.                                                              *)
MarkFails(w) ==
  /\ pc[w] = "mark"
  /\ Proceed(w)
  /\ UNCHANGED <<balance, frozen, committed, columns, dropped, rows, lockedOriginal,
                 locals, holds, seen, repaid, reversed>>

(* u and w wait for each other's rows, which InnoDB ends. *)
Deadlocked(u, w) == AwaitsRow(u, w) /\ AwaitsTable(w, u)

(* So is the error of a deadlock, with which InnoDB rolls the transaction  *)
(* back: the COMMIT that follows has nothing to commit, and the reversal   *)
(* is answered.                                                            *)
LoseCredit(w) ==
  /\ pc[w] = "mark" /\ \E u \in Workers : Deadlocked(u, w)
  /\ reversed' = reversed \cup {w}
  /\ EndTransaction(w)
  /\ UNCHANGED <<balance, frozen, committed, columns, dropped, locals, holds, seen, repaid>>

(* Doubles are compared: two parts that make up the purchase may add up to *)
(* a little less.                                                          *)
FlagsFor(w, total) ==
  IF total # Amount(orig[w]) THEN {"PR"}
  ELSE IF Kind(w) = "posRefund" \/ seenRefunded[w] = 0 \/ Amount(w) = 0 THEN {"RF"}
  ELSE {"RF", "PR"}

(* A refund's columns of the purchase row. *)
MarkRefunded(w) ==
  LET p == orig[w]
      total == seenRefunded[w] + Amount(w) IN
  IF Kind(w) \in {"posRefund", "ecomRefund"}
  THEN /\ refunded' = [refunded EXCEPT ![p] = total]
       /\ \E f \in FlagsFor(w, total) : flag' = [flag EXCEPT ![p] = f]
  ELSE UNCHANGED <<refunded, flag>>

(* The reversal's answer: REVERSED, or QUEUED if the COMMIT's own answer   *)
(* is lost, or FAILED if the queue cannot be written either.               *)
Answered(w) ==
  \/ reversed' = reversed \cup {w} /\ UNCHANGED dropped
  \/ dropped' = dropped \cup {w} /\ UNCHANGED reversed
  \/ UNCHANGED <<reversed, dropped>>

(* The UPDATEs and INSERTs of an operation become visible. *)
Settle(w) ==
  /\ pc[w] = "commit" /\ Kind(w) \notin Freezes /\ Affordable(w)
  /\ \A v \in Workers : ~AwaitsTable(w, v)
  /\ balance' = [a \in Accounts |-> IF a \in AccountsOf(w) THEN Written(w, a) ELSE balance[a]]
  /\ committed' = committed \cup {w}
  /\ usage' = [b \in Buckets |-> [a \in Accounts |->
                 usage[b][a] + IF b \in BucketsOf(Kind(w)) /\ a = req[w].acc
                               THEN Charge(w) ELSE 0]]
  /\ hourly' = IF Kind(w) = "transfer" THEN [hourly EXCEPT ![req[w].acc] = Append(@, w)]
               ELSE hourly
  /\ MarkRefunded(w)
  /\ repaid' = [repaid EXCEPT ![orig[w]] =
                  IF Kind(w) \in Refunds THEN @ + Amount(w) ELSE @]
  /\ EndTransaction(w)
  /\ IF Kind(w) = "reverse" THEN Answered(w) ELSE UNCHANGED <<reversed, dropped>>
  /\ UNCHANGED <<frozen, locals, holds, seen>>

(* RingPay's simulated network failure: the old balance is written back    *)
(* and the row, status FAILED, counts for no limit.                        *)
AutoReverse(w) ==
  /\ pc[w] = "commit" /\ Kind(w) = "ringpay" /\ Affordable(w)
  /\ balance' = [balance EXCEPT ![req[w].acc] = seen[w][req[w].acc]]
  /\ EndTransaction(w)
  /\ UNCHANGED <<frozen, committed, columns, dropped, locals, holds, seen, repaid, reversed>>

SetFrozen(w) ==
  /\ pc[w] = "commit" /\ Kind(w) \in Freezes
  /\ frozen' = [frozen EXCEPT ![req[w].acc] = Kind(w) = "freeze"]
  /\ committed' = committed \cup {w}
  /\ EndTransaction(w)
  /\ UNCHANGED <<balance, columns, dropped, locals, holds, seen, repaid, reversed>>

(* A statement fails, or a guard refuses what the model does not track (a  *)
(* merchant, a card): roll back.  A reversal goes to reversal_drop_file,   *)
(* also when the database does not answer before it locks, if that INSERT  *)
(* succeeds.                                                               *)
Fail(w) ==
  /\ \/ pc[w] \in {"check", "find", "limit", "original", "balance", "mark", "commit"}
     \/ pc[w] = "lock" /\ Kind(w) = "reverse"
  /\ EndTransaction(w)
  /\ \/ UNCHANGED dropped
     \/ Kind(w) = "reverse" /\ dropped' = dropped \cup {w}
  /\ UNCHANGED <<balance, frozen, committed, columns, locals, holds, seen, repaid, reversed>>

(* The handler returns and its ScopedLocks are destroyed. *)
Leave(w) ==
  /\ pc[w] = "leave"
  /\ holds' = [holds EXCEPT ![w] = {}]
  /\ Goto(w, "done")
  /\ UNCHANGED <<balance, frozen, committed, columns, dropped, rows, lockedOriginal,
                 locals, seen, repaid, reversed>>

(* The oldest transfer of a leaves the window of the hourly limit.         *)
HourPasses(a) ==
  /\ hourly[a] # <<>>
  /\ usage' = [usage EXCEPT !["mobileHour"][a] = @ - Amount(Head(hourly[a]))]
  /\ hourly' = [hourly EXCEPT ![a] = Tail(@)]
  /\ UNCHANGED <<balance, frozen, committed, refunded, flag, dropped, rows,
                 lockedOriginal, pc, locals, holds, seen, repaid, reversed>>

Finished ==
  /\ \A w \in Workers : pc[w] = "done"
  /\ UNCHANGED vars

(* What a worker does by itself once it has its request. *)
Step(w) ==
  \/ CheckFrozen(w) \/ Find(w) \/ Lock(w) \/ LockOriginal(w) \/ ReadBalance(w)
  \/ ReadLimit(w) \/ Mark(w) \/ Refuse(w) \/ Settle(w) \/ SetFrozen(w) \/ Leave(w)

Next ==
  \/ \E w \in Workers :
       Receive(w) \/ Step(w) \/ AutoReverse(w) \/ MarkFails(w) \/ LoseCredit(w) \/ Fail(w)
  \/ \E a \in Accounts : HourPasses(a)
  \/ Finished

Spec == Init /\ [][Next]_vars

(***************************************************************************)
(* Properties                                                              *)
(***************************************************************************)

TypeOK ==
  /\ balance \in [Accounts -> Int]
  /\ frozen \in [Accounts -> BOOLEAN]
  /\ committed \subseteq Workers /\ dropped \subseteq Workers /\ reversed \subseteq Workers
  /\ lockedOriginal \subseteq Workers
  /\ usage \in [Buckets -> [Accounts -> Int]]
  /\ hourly \in [Accounts -> Seq(Workers)]
  /\ refunded \in [Workers -> Int] /\ repaid \in [Workers -> Int]
  /\ flag \in [Workers -> {"N", "PR", "RF"}]
  /\ rows \in [Workers -> SUBSET Accounts] /\ holds \in [Workers -> SUBSET Accounts]
  /\ found \in [Workers -> SUBSET Accounts]
  /\ pc \in [Workers -> {"idle", "check", "find", "lock", "original", "balance",
                         "limit", "mark", "commit", "leave", "done"}]
  /\ req \in [Workers -> Offers \cup {NoRequest}]
  /\ orig \in [Workers -> Workers]
  /\ seen \in [Workers -> [Accounts -> Int]]
  /\ seenRefunded \in [Workers -> Int]

(* What a credit, negative, took from account a without asking its         *)
(* balance: a deposit, transfer or refund of a negative amount, or a       *)
(* reversal with a negative fee.                                           *)
TakenUnasked(a) ==
  {w \in committed : /\ Kind(w) \notin Debits \cup Freezes /\ Credited(w) < 0
                     /\ a = IF Kind(w) = "transfer" THEN req[w].to ELSE req[w].acc}

(* No account is overdrawn, however debits, fees and transfers interleave  *)
(* with each other and with credits, and whatever their signs: only what   *)
(* is booked as a credit of a negative amount can do that.                 *)
NoOverdraft == \A a \in Accounts : balance[a] < 0 => TakenUnasked(a) # {}

(* The ATM limits and the daily one of mobile transfers hold, although the *)
(* SUM they are checked against is read before the row is written          *)
(* ("TOCTOU", atm.cpp:190-194), and so does the hourly one in every        *)
(* window, as long as the account has sent no negative amount.  RingPay's  *)
(* is not among them: it is read unlocked.                                 *)
LimitsKept ==
  \A a \in Accounts :
    /\ \A b \in {"atmOut", "atmIn", "mobileDay"} : usage[b][a] <= Limit[b]
    /\ \/ usage["mobileHour"][a] <= Limit["mobileHour"]
       \/ \E w \in committed : Kind(w) = "transfer" /\ req[w].acc = a /\ Amount(w) < 0

RefundsOf(p) == {w \in committed : Kind(w) \in Refunds /\ orig[w] = p}

(* Refunds of a purchase never add up to more than its amount, whatever    *)
(* their channel and sign and however many run at once, and its columns    *)
(* say so: refunded_amount is their sum, flag N that there was none, RF    *)
(* that all is refunded; at the POS a full refund is RF (README.md:967).   *)
RefundsBounded ==
  \A p \in committed :
    Kind(p) \in {"posBuy", "ecomBuy", "qrBuy"} =>
      /\ repaid[p] <= Amount(p)
      /\ Kind(p) # "qrBuy" =>
           /\ refunded[p] = repaid[p]
           /\ flag[p] = "N" <=> RefundsOf(p) = {}
           /\ flag[p] = "RF" => repaid[p] = Amount(p)
           /\ Kind(p) = "posBuy" /\ repaid[p] = Amount(p) => flag[p] = "RF"

Active(w) == pc[w] \notin {"idle", "done"}

(* w waits: for an account in the engine, or for a row. *)
Blocked(w) ==
  \/ pc[w] = "lock"
     /\ \E a \in Accounts : NextOf(a, ToLock(w), holds[w]) /\ \E v \in Workers : a \in holds[v]
  \/ \E v \in Workers : AwaitsTable(w, v) \/ AwaitsRow(w, v)

(* The engine's account locks and the database's row locks, taken one      *)
(* after the other by refunds, by reversals and by transfers in opposite   *)
(* directions, never wait for each other in a circle, which InnoDB could   *)
(* not see: of the requests under way one can go on, or two wait for rows  *)
(* of each other, one of them a POS refund that found no account to lock.  *)
NoStandstill ==
  (\E w \in Workers : Active(w)) =>
    \/ \E w \in Workers : Active(w) /\ ~Blocked(w)
    \/ \E u, w \in Workers : Kind(u) = "posRefund" /\ found[u] = {} /\ Deadlocked(u, w)

(* A reversal that is answered REVERSED ("Reversal successful - amount     *)
(* credited back", reversal.cpp:380) has credited the account, although    *)
(* the error of its last statement is swallowed: only when that is a       *)
(* deadlock, with a POS refund that found no account to lock, is it        *)
(* rolled back.                                                            *)
ReversedIsCredited ==
  [][\A w \in reversed' \ reversed :
       \/ w \in committed'
       \/ \E u \in Workers :
            Kind(u) = "posRefund" /\ found[u] = {} /\ Deadlocked(u, w)]_vars

(* Locks, reads and writes together do what Bank says: the effect of each  *)
(* request is applied once, to the balance of that moment.  No update is   *)
(* lost, but for the debit of a transfer to the payer's own account, which *)
(* Bank names (OwnTransfer).                                               *)
Abstract == INSTANCE Bank WITH posted <- committed

ImplementsBank == Abstract!Spec
=============================================================================
