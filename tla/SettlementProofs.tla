-------------------------- MODULE SettlementProofs --------------------------
(***************************************************************************)
(* What holds of the money operations for any workers, accounts, requests  *)
(* of any sign, opening balances and limits: an account is overdrawn only  *)
(* by what is booked as a credit of a negative amount, limits and refunds  *)
(* are kept, requests under way are never all blocked, and every request   *)
(* posts as Bank says.                                                     *)
(***************************************************************************)
EXTENDS Settlement, Sums, TLAPS

(***************************************************************************)
(* The inductive invariant, in parts                                       *)
(***************************************************************************)

(* Which operations come by which place. *)
PlacesOK ==
  \A w \in Workers :
    /\ pc[w] = "idle" => req[w] = NoRequest
    /\ pc[w] # "idle" => req[w] \in Offers /\ Valid(req[w])
    /\ pc[w] = "check" => Kind(w) = "ringpay"
    /\ pc[w] = "find" => Kind(w) = "posRefund"
    /\ pc[w] = "mark" => Kind(w) = "reverse"
    /\ pc[w] = "original" => Kind(w) \in Refunds
    /\ pc[w] = "limit" => Kind(w) \in {"withdraw", "deposit", "transfer", "ringpay"}
    /\ w \in committed => pc[w] \in {"leave", "done"}

InTransaction == {"balance", "limit", "mark", "commit"}

(* A row lock is held inside a transaction only, by one worker, and what   *)
(* that worker has read is still the balance.                              *)
RowsOK ==
  /\ \A w \in Workers :
       /\ pc[w] \notin InTransaction => rows[w] = {}
       /\ pc[w] = "balance" =>
            /\ rows[w] \subseteq AccountsOf(w) /\ rows[w] # AccountsOf(w)
            /\ \A a \in rows[w], b \in AccountsOf(w) \ rows[w] : a < b
       /\ pc[w] = "limit" =>
            rows[w] = IF Kind(w) \in {"withdraw", "transfer"} THEN AccountsOf(w) ELSE {}
       /\ pc[w] \in {"mark", "commit"} => rows[w] = AccountsOf(w)
       /\ \A a \in rows[w] : seen[w][a] = balance[a]
  /\ \A v, w \in Workers : v # w => rows[v] \cap rows[w] = {}

(* Past its locks: what it had to lock it holds until it leaves. *)
PastLock(w) ==
  pc[w] \in {"original", "balance", "mark", "commit"} \/ (pc[w] = "limit" /\ Kind(w) # "ringpay")

HoldsOK ==
  /\ \A w \in Workers :
       /\ pc[w] \in {"idle", "check", "find", "done"} => holds[w] = {}
       /\ pc[w] = "limit" /\ Kind(w) = "ringpay" => holds[w] = {}
       /\ pc[w] = "lock" =>
            /\ holds[w] \subseteq ToLock(w)
            /\ ToLock(w) # {} => holds[w] # ToLock(w)
            /\ \A a \in holds[w], b \in ToLock(w) \ holds[w] : a < b
       /\ PastLock(w) => holds[w] = ToLock(w)
  /\ \A v, w \in Workers : v # w => holds[v] \cap holds[w] = {}

(* What a POS refund found before it locked is the account that paid.      *)
FoundOK ==
  \A w \in Workers :
    found[w] # {} =>
      /\ Kind(w) = "posRefund" /\ pc[w] # "idle"
      /\ orig[w] \in committed /\ found[w] = {req[orig[w]].acc}

(* A refund that has locked its table may still be made: what it has read  *)
(* there is still so, since nobody else has that table.  A reversal marks  *)
(* a row on its way to its commit.                                         *)
OriginalsOK ==
  /\ \A w \in Workers :
       Kind(w) \in Refunds =>
         (w \in lockedOriginal <=> pc[w] \in {"balance", "commit"})
  /\ \A w \in lockedOriginal :
       /\ Kind(w) \in Refunds => Refundable(w) /\ seenRefunded[w] = refunded[orig[w]]
       /\ Kind(w) \notin Refunds => Kind(w) = "reverse" /\ pc[w] = "commit"
  /\ \A v, w \in lockedOriginal :
       v # w /\ Kind(v) \in Refunds /\ Kind(w) \in Refunds =>
         TableOf(Kind(v)) # TableOf(Kind(w))

(* Only purchases are refunded, and a QR purchase only by a row that says  *)
(* so.                                                                     *)
RepaidOK ==
  /\ \A p \in Workers :
       /\ p \notin committed => repaid[p] = 0 /\ refunded[p] = 0 /\ flag[p] = "N"
       /\ Kind(p) \notin {"posBuy", "ecomBuy", "qrBuy"} => repaid[p] = 0
       /\ Kind(p) = "qrBuy" /\ repaid[p] # 0 =>
            \E v \in committed : Kind(v) = "qrRefund" /\ orig[v] = p
  /\ \A w \in committed : Kind(w) \in Refunds => orig[w] \in committed

(* A request past its limit still fits, since it holds the account. *)
PastLimit(w) ==
  \/ pc[w] = "commit" /\ Kind(w) \in {"withdraw", "deposit", "transfer"}
  \/ pc[w] = "balance" /\ Kind(w) = "deposit"

(* The account has sent a negative amount.                                 *)
SentNegative(a) == \E w \in committed : Kind(w) = "transfer" /\ req[w].acc = a /\ Amount(w) < 0

(* So much may still be added to bucket b of account a. *)
Fits(b, a, n) == usage[b][a] + n <= Limit[b] \/ (b = "mobileHour" /\ SentNegative(a))

LimitsOK ==
  /\ LimitsKept
  /\ \A w \in Workers :
       PastLimit(w) => \A b \in BucketsOf(Kind(w)) : Fits(b, req[w].acc, Charge(w))

(* The rows of the last hour are transfers from their account.             *)
HourlyOK ==
  \A a \in Accounts : \A i \in 1..Len(hourly[a]) :
    hourly[a][i] \in committed /\ Kind(hourly[a][i]) = "transfer" /\ req[hourly[a][i]].acc = a

(* Only so many requests have come in. *)
FewReceived == IsFiniteSet({w \in Workers : pc[w] # "idle"})

IInv ==
  /\ TypeOK /\ PlacesOK /\ RowsOK /\ HoldsOK /\ FoundOK /\ OriginalsOK /\ RepaidOK
  /\ LimitsOK /\ HourlyOK /\ FewReceived /\ RefundsBounded /\ NoOverdraft

(***************************************************************************)
(* The orders of the steps                                                 *)
(***************************************************************************)

Places ==
  {"idle", "check", "find", "lock", "original", "balance", "limit", "mark", "commit", "leave", "done"}

(* The places a worker goes on from along its plan. *)
Underway == {"check", "find", "lock", "original", "balance", "limit", "mark"}

Entry(k) ==
  IF k = "posRefund" THEN "find" ELSE IF k = "ringpay" THEN "check" ELSE "lock"

(* The step after place l in an operation of kind k. *)
After(k, l) ==
  IF l = "check" THEN "limit"
  ELSE IF l = "find" THEN "lock"
  ELSE IF l = "lock" THEN
    IF k \in Refunds THEN "original" ELSE IF k = "deposit" THEN "limit" ELSE "balance"
  ELSE IF l = "limit" THEN
    IF k = "ringpay" THEN "lock" ELSE IF k = "deposit" THEN "balance" ELSE "commit"
  ELSE IF l = "balance" THEN
    IF k \in {"withdraw", "transfer"} THEN "limit"
    ELSE IF k = "reverse" THEN "mark" ELSE "commit"
  ELSE IF l = "mark" THEN "commit"
  ELSE "balance"

LEMMA EntryOf == \A k \in Kinds : Plan[k].start = Entry(k)
  BY DEF Plan, Kinds, Debits, Refunds, Freezes, Entry, Withdrawal, Deposit, Transfer, PosPurchase,
         EcomPurchase, QrPurchase, CardlessCash, RingPayment, PosRefund, EcomRefund, QrRefund,
         Reversal, Freezing

LEMMA AfterOf ==
  ASSUME TypeOK, PlacesOK, NEW w \in Workers,
         pc[w] \in Underway
  PROVE  Plan[Kind(w)][pc[w]] = After(Kind(w), pc[w])
<1>1. Kind(w) \in Kinds
  BY SettlementAssumption DEF SettlementAssumption, PlacesOK, Kind, Underway
<1> DEFINE k == Kind(w)
           l == pc[w]
<1>2. /\ l = "check" => k = "ringpay"
      /\ l = "find" => k = "posRefund"
      /\ l = "original" => k \in Refunds
      /\ l = "limit" => k \in {"withdraw", "deposit", "transfer", "ringpay"}
      /\ l = "mark" => k = "reverse"
  BY DEF PlacesOK
<1> HIDE DEF k, l
<1>3. \A x \in Kinds, y \in Underway :
        /\ y = "check" => x = "ringpay"
        /\ y = "find" => x = "posRefund"
        /\ y = "original" => x \in Refunds
        /\ y = "limit" => x \in {"withdraw", "deposit", "transfer", "ringpay"}
        /\ y = "mark" => x = "reverse"
        => Plan[x][y] = After(x, y)
  BY DEF Underway, Plan, Kinds, Debits, Refunds, Freezes, After, Withdrawal, Deposit, Transfer, PosPurchase,
         EcomPurchase, QrPurchase, CardlessCash, RingPayment, PosRefund, EcomRefund, QrRefund,
         Reversal, Freezing
<1>4. QED
  BY <1>1, <1>2, <1>3 DEF k, l

LEMMA Proceeding ==
  ASSUME TypeOK, PlacesOK, NEW w \in Workers, Proceed(w),
         pc[w] \in Underway
  PROVE  /\ pc' = [pc EXCEPT ![w] = After(Kind(w), pc[w])]
         /\ After(Kind(w), pc[w]) \in Places \ {"idle", "done"}
<1>1. pc' = [pc EXCEPT ![w] = After(Kind(w), pc[w])]
  BY AfterOf DEF Proceed, Goto
<1>2. QED
  BY <1>1 DEF After, Places

(***************************************************************************)
(* The helpers                                                             *)
(***************************************************************************)

(* What a request that has come in asks for. *)
LEMMA Asked ==
  ASSUME TypeOK, PlacesOK, NEW w \in Workers, pc[w] # "idle"
  PROVE  /\ req[w] \in Offers /\ Kind(w) \in Kinds
         /\ req[w].acc \in Accounts /\ req[w].to \in Accounts
         /\ Amount(w) \in Int /\ req[w].fee \in Int
         /\ WithFee(w) \in Int /\ WithFee(w) = Amount(w) + req[w].fee
         /\ Kind(w) \in {"posBuy", "ecomBuy", "qrBuy", "iccw", "reverse"} => Amount(w) > 0
  BY SettlementAssumption DEF SettlementAssumption, PlacesOK, Kind, Amount, WithFee, Valid

LEMMA AccountsOfIs ==
  ASSUME NEW w
  PROVE  /\ Kind(w) = "transfer" => AccountsOf(w) = {req[w].acc, req[w].to}
         /\ Kind(w) = "posRefund" => AccountsOf(w) = {req[orig[w]].acc}
         /\ Kind(w) \notin {"transfer", "posRefund"} => AccountsOf(w) = {req[w].acc}
  BY Zenon DEF AccountsOf

LEMMA BucketsOfIs ==
  ASSUME NEW k
  PROVE  /\ k = "withdraw" => BucketsOf(k) = {"atmOut"}
         /\ k = "deposit" => BucketsOf(k) = {"atmIn"}
         /\ k = "transfer" => BucketsOf(k) = {"mobileHour", "mobileDay"}
         /\ k = "ringpay" => BucketsOf(k) = {"ringDay"}
         /\ k \notin {"withdraw", "deposit", "transfer", "ringpay"} => BucketsOf(k) = {}
  BY Zenon DEF BucketsOf

LEMMA CreditedIs ==
  ASSUME NEW w
  PROVE  /\ Kind(w) = "reverse" => Credited(w) = WithFee(w)
         /\ Kind(w) = "posRefund" => Credited(w) = Amount(w) - req[orig[w]].fee
         /\ Kind(w) \notin {"reverse", "posRefund"} => Credited(w) = Amount(w)
  BY Zenon DEF Credited

LEMMA PurchaseOfIs ==
  /\ PurchaseOf("posRefund") = "posBuy"
  /\ PurchaseOf("ecomRefund") = "ecomBuy"
  /\ PurchaseOf("qrRefund") = "qrBuy"
  BY Zenon DEF PurchaseOf

(* The purchase of a refund that has locked it. *)
LEMMA Purchased ==
  ASSUME IInv, NEW w \in Workers, Kind(w) \in Refunds, pc[w] \in {"balance", "commit"}
  PROVE  /\ w \in lockedOriginal /\ Refundable(w)
         /\ orig[w] \in committed /\ orig[w] \in Workers /\ pc[orig[w]] \in {"leave", "done"}
         /\ Kind(orig[w]) = PurchaseOf(Kind(w))
         /\ seenRefunded[w] = refunded[orig[w]]
<1>1. w \in lockedOriginal /\ Refundable(w) /\ seenRefunded[w] = refunded[orig[w]]
  BY DEF IInv, OriginalsOK
<1>2. orig[w] \in committed /\ Kind(orig[w]) = PurchaseOf(Kind(w))
  BY <1>1 DEF Refundable, PurchaseExists
<1>3. orig[w] \in Workers /\ pc[orig[w]] \in {"leave", "done"}
  BY <1>2 DEF IInv, TypeOK, PlacesOK
<1>4. QED
  BY <1>1, <1>2, <1>3

(* The accounts a request reads are accounts. *)
LEMMA AccountsTyped ==
  ASSUME IInv, NEW w \in Workers, pc[w] \in InTransaction
  PROVE  /\ AccountsOf(w) \subseteq Accounts
         /\ Kind(w) # "posRefund" => req[w].acc \in AccountsOf(w)
         /\ Kind(w) # "transfer" => \E a \in Accounts : AccountsOf(w) = {a}
<1>1. pc[w] # "idle" /\ TypeOK /\ PlacesOK
  BY DEF InTransaction, IInv
<1>2. CASE Kind(w) = "posRefund"
  <2>1. pc[w] \in {"balance", "commit"} /\ Kind(w) \in Refunds
    BY <1>1, <1>2 DEF InTransaction, PlacesOK, Refunds
  <2>2. req[orig[w]].acc \in Accounts
    BY <1>1, <2>1, Purchased, Asked
  <2>3. QED
    BY <1>2, <2>2, AccountsOfIs
<1>3. QED
  BY <1>1, <1>2, Asked, AccountsOfIs

(* What a request is credited; a POS refund exceeds the fee.               *)
LEMMA CreditTyped ==
  ASSUME IInv, NEW w \in Workers, pc[w] = "commit", Affordable(w)
  PROVE  /\ Credited(w) \in Int
         /\ Kind(w) = "posRefund" => Credited(w) > 0
<1>1. Amount(w) \in Int /\ WithFee(w) \in Int
  BY Asked DEF IInv
<1>2. CASE Kind(w) = "posRefund"
  <2>1. req[orig[w]].fee \in Int
    BY <1>2, Purchased, Asked DEF IInv, Refunds
  <2>2. Amount(w) > req[orig[w]].fee
    BY <1>2 DEF Affordable
  <2>3. QED
    BY <1>1, <1>2, <2>1, <2>2, CreditedIs
<1>3. QED
  BY <1>1, <1>2, CreditedIs

(* A request that commits writes to what it has read: to more than nothing *)
(* if it pays.                                                             *)
LEMMA WrittenIs ==
  ASSUME IInv, NEW w \in Workers, pc[w] = "commit", Affordable(w), NEW a \in AccountsOf(w)
  PROVE  /\ Written(w, a) \in Int
         /\ a \in Accounts /\ seen[w][a] = balance[a] /\ balance[a] \in Int
         /\ Kind(w) = "transfer" /\ a = req[w].to => Written(w, a) = balance[a] + Amount(w)
         /\ Kind(w) \in Debits \/ (Kind(w) = "transfer" /\ a # req[w].to) => Written(w, a) >= 0
         /\ Kind(w) \notin Debits \cup {"transfer"} => Written(w, a) = balance[a] + Credited(w)
<1>1. a \in Accounts /\ seen[w][a] = balance[a]
  BY AccountsTyped DEF InTransaction, IInv, RowsOK
<1>2. balance[a] \in Int
  BY <1>1 DEF IInv, TypeOK
<1>3. Amount(w) \in Int /\ WithFee(w) \in Int
  BY Asked DEF IInv
<1>4. CASE Kind(w) = "transfer" /\ a = req[w].to
  BY <1>1, <1>2, <1>3, <1>4 DEF Written, Debits
<1>5. CASE Kind(w) \in Debits \cup {"transfer"} /\ ~(Kind(w) = "transfer" /\ a = req[w].to)
  <2>1. a = req[w].acc
    BY <1>5, AccountsOfIs DEF Debits
  <2>2. balance[a] >= WithFee(w)
    BY <1>1, <1>5, <2>1 DEF Affordable
  <2>3. Written(w, a) = balance[a] - WithFee(w)
    BY <1>1, <1>5 DEF Written
  <2>4. QED
    BY <1>1, <1>2, <1>3, <1>5, <2>2, <2>3
<1>6. CASE Kind(w) \notin Debits \cup {"transfer"}
  <2>1. Credited(w) \in Int
    BY CreditTyped
  <2>2. QED
    BY <1>1, <1>2, <1>6, <2>1 DEF Written
<1>7. QED
  BY <1>1, <1>2, <1>4, <1>5, <1>6

(***************************************************************************)
(* The type                                                                *)
(***************************************************************************)

Acts(w) ==
  Receive(w) \/ Step(w) \/ AutoReverse(w) \/ MarkFails(w) \/ LoseCredit(w) \/ Fail(w)

HourEnds == \E a \in Accounts : HourPasses(a)

LEMMA PlaceTyped ==
  ASSUME IInv, NEW w \in Workers, Acts(w)
  PROVE  pc' \in [Workers -> Places]
<1>0. TypeOK /\ PlacesOK
  BY DEF IInv
<1>t. pc \in [Workers -> Places]
  BY <1>0 DEF TypeOK, Places
<1>g. \A l \in Places : Goto(w, l) => pc' \in [Workers -> Places]
  BY <1>t DEF Goto
<1>p. ASSUME Proceed(w), pc[w] \in Underway
      PROVE  pc' \in [Workers -> Places]
  BY <1>0, <1>t, <1>p, Proceeding
<1>e. EndTransaction(w) => pc' \in [Workers -> Places]
  BY <1>g DEF EndTransaction, Places
<1>1. CASE Receive(w)
  <2>1. PICK q \in Offers : Goto(w, Plan[q.kind].start)
    BY <1>1 DEF Receive
  <2>2. Plan[q.kind].start \in Places
    BY EntryOf, SettlementAssumption DEF SettlementAssumption, Entry, Places
  <2>3. QED
    BY <1>g, <2>1, <2>2
<1>2. CASE CheckFrozen(w)
  BY <1>g, <1>p, <1>2 DEF CheckFrozen, Places, Underway
<1>3. CASE Find(w)
  BY <1>p, <1>3 DEF Find, Underway
<1>4. CASE Lock(w)
  BY <1>g, <1>p, <1>4 DEF Lock, Places, Underway
<1>5. CASE LockOriginal(w)
  BY <1>e, <1>p, <1>5 DEF LockOriginal, Underway
<1>6. CASE ReadBalance(w)
  BY <1>g, <1>p, <1>6 DEF ReadBalance, Places, Underway
<1>7. CASE ReadLimit(w)
  BY <1>e, <1>p, <1>7 DEF ReadLimit, Underway
<1>8. CASE Refuse(w)
  BY <1>e, <1>8 DEF Refuse
<1>9. CASE Settle(w)
  BY <1>e, <1>9 DEF Settle
<1>10. CASE AutoReverse(w)
  BY <1>e, <1>10 DEF AutoReverse
<1>11. CASE SetFrozen(w)
  BY <1>e, <1>11 DEF SetFrozen
<1>12. CASE Fail(w)
  BY <1>e, <1>12 DEF Fail
<1>13. CASE Leave(w)
  BY <1>g, <1>13 DEF Leave, Places
<1>14. CASE Mark(w) \/ MarkFails(w)
  BY <1>p, <1>14 DEF Mark, MarkFails, Underway
<1>15. CASE LoseCredit(w)
  BY <1>e, <1>15 DEF LoseCredit
<1>16. QED
  BY <1>1, <1>2, <1>3, <1>4, <1>5, <1>6, <1>7, <1>8, <1>9, <1>10, <1>11, <1>12, <1>13, <1>14, <1>15
     DEF Acts, Step

LEMMA TypedStep == IInv /\ [Next]_vars => TypeOK'
<1> SUFFICES ASSUME IInv, [Next]_vars PROVE TypeOK'
  OBVIOUS
<1>0. TypeOK /\ PlacesOK
  BY DEF IInv
<1> USE <1>0 DEF TypeOK
<1>1. ASSUME NEW w \in Workers, Receive(w) PROVE TypeOK'
  <2>1. req' \in [Workers -> Offers \cup {NoRequest}]
    BY <1>1 DEF Receive
  <2>2. orig' \in [Workers -> Workers]
    BY <1>1 DEF Receive
  <2>3. pc' \in [Workers -> Places]
    BY <1>1, PlaceTyped DEF Acts, Step
  <2>4. QED
    BY <1>1, <2>1, <2>2, <2>3 DEF Receive, Places, columns, locals
<1>2. ASSUME NEW w \in Workers, CheckFrozen(w) PROVE TypeOK'
  <2>1. pc' \in [Workers -> Places]
    BY <1>2, PlaceTyped DEF Acts, Step
  <2>2. QED
    BY <1>2, <2>1 DEF CheckFrozen, Places, columns, locals
<1>3. ASSUME NEW w \in Workers, Find(w) PROVE TypeOK'
  <2>1. pc' \in [Workers -> Places]
    BY <1>3, PlaceTyped DEF Acts, Step
  <2>2. found' \in [Workers -> SUBSET Accounts]
    <3>1. PurchaseExists(w) => {req[orig[w]].acc} \in SUBSET Accounts
      BY Asked DEF PurchaseExists, PlacesOK
    <3>2. QED
      BY <1>3, <3>1 DEF Find
  <2>3. QED
    BY <1>3, <2>1, <2>2 DEF Find, Places, columns, locals
<1>4. ASSUME NEW w \in Workers, Lock(w) PROVE TypeOK'
  <2>1. pc' \in [Workers -> Places]
    BY <1>4, PlaceTyped DEF Acts, Step
  <2>2. holds' \in [Workers -> SUBSET Accounts]
    <3>1. holds' = holds \/ \E a \in Accounts : holds' = [holds EXCEPT ![w] = holds[w] \cup {a}]
      BY <1>4 DEF Lock
    <3>2. \A a \in Accounts : [holds EXCEPT ![w] = holds[w] \cup {a}] \in [Workers -> SUBSET Accounts]
      OBVIOUS
    <3>3. QED
      BY <3>1, <3>2, ZenonT(30)
  <2>3. QED
    BY <1>4, <2>1, <2>2 DEF Lock, Places, columns, locals
<1>5. ASSUME NEW w \in Workers, LockOriginal(w) PROVE TypeOK'
  <2>1. pc' \in [Workers -> Places]
    BY <1>5, PlaceTyped DEF Acts, Step
  <2>2. rows' \in [Workers -> SUBSET Accounts]
    <3>1. rows' = rows \/ rows' = [rows EXCEPT ![w] = {}]
      BY <1>5 DEF LockOriginal, EndTransaction
    <3>2. QED
      BY <3>1
  <2>3. seenRefunded' \in [Workers -> Int]
    <3>1. seenRefunded' = seenRefunded \/ seenRefunded' = [seenRefunded EXCEPT ![w] = refunded[orig[w]]]
      BY <1>5 DEF LockOriginal
    <3>2. QED
      BY <3>1
  <2>4. QED
    BY <1>5, <2>1, <2>2, <2>3 DEF LockOriginal, EndTransaction, Places, columns, locals
<1>6. ASSUME NEW w \in Workers, ReadBalance(w) PROVE TypeOK'
  <2>1. pc' \in [Workers -> Places]
    BY <1>6, PlaceTyped DEF Acts, Step
  <2>2. rows' \in [Workers -> SUBSET Accounts]
    BY <1>6 DEF ReadBalance
  <2>3. seen' \in [Workers -> [Accounts -> Int]]
    BY <1>6 DEF ReadBalance
  <2>4. QED
    BY <1>6, <2>1, <2>2, <2>3 DEF ReadBalance, Places, columns, locals
<1>7. ASSUME NEW w \in Workers, ReadLimit(w) PROVE TypeOK'
  <2>1. pc' \in [Workers -> Places]
    BY <1>7, PlaceTyped DEF Acts, Step
  <2>2. rows' \in [Workers -> SUBSET Accounts]
    BY <1>7 DEF ReadLimit, EndTransaction
  <2>3. QED
    BY <1>7, <2>1, <2>2 DEF ReadLimit, EndTransaction, Places, columns, locals
<1>8. ASSUME NEW w \in Workers, Refuse(w) PROVE TypeOK'
  <2>1. pc' \in [Workers -> Places]
    BY <1>8, PlaceTyped DEF Acts, Step
  <2>2. rows' \in [Workers -> SUBSET Accounts]
    BY <1>8 DEF Refuse, EndTransaction
  <2>3. QED
    BY <1>8, <2>1, <2>2 DEF Refuse, EndTransaction, Places, columns, locals
<1>9. ASSUME NEW w \in Workers, Settle(w) PROVE TypeOK'
  <2>0. /\ req[w] \in Offers /\ Amount(w) \in Int /\ WithFee(w) \in Int
        /\ Kind(w) = "transfer" => req[w].acc \in Accounts
    BY <1>9, SettlementAssumption DEF Settle, PlacesOK, SettlementAssumption, Amount, WithFee
  <2>1. pc' \in [Workers -> Places]
    BY <1>9, PlaceTyped DEF Acts, Step
  <2>2. rows' \in [Workers -> SUBSET Accounts]
    BY <1>9, <2>0 DEF Settle, EndTransaction
  <2>3. balance' \in [Accounts -> Int]
    BY <1>9, <2>0, WrittenIs DEF Settle, EndTransaction
  <2>4. usage' \in [Buckets -> [Accounts -> Int]]
    <3>1. Charge(w) \in Int
      BY <2>0 DEF Charge
    <3>2. \A b \in Buckets, a \in Accounts :
            usage[b][a] + (IF b \in BucketsOf(Kind(w)) /\ a = req[w].acc THEN Charge(w) ELSE 0) \in Int
      BY <3>1
    <3>3. QED
      BY <1>9, <3>2 DEF Settle
  <2>5. refunded' \in [Workers -> Int]
    BY <1>9, <2>0, SMTT(20) DEF Settle, EndTransaction, MarkRefunded
  <2>6. flag' \in [Workers -> {"N", "PR", "RF"}]
    BY <1>9, <2>0 DEF Settle, EndTransaction, MarkRefunded, FlagsFor
  <2>7. repaid' \in [Workers -> Int]
    BY <1>9, <2>0 DEF Settle, EndTransaction
  <2>8. hourly' \in [Accounts -> Seq(Workers)]
    <3>1. \A q \in Seq(Workers) : Append(q, w) \in Seq(Workers)
      OBVIOUS
    <3>2. \/ hourly' = hourly
          \/ \E a \in Accounts : hourly' = [hourly EXCEPT ![a] = Append(hourly[a], w)]
      BY <1>9, <2>0 DEF Settle
    <3>3. \A a \in Accounts : [hourly EXCEPT ![a] = Append(hourly[a], w)] \in [Accounts -> Seq(Workers)]
      <4>1. \A a \in Accounts : hourly[a] \in Seq(Workers)
        OBVIOUS
      <4>2. QED
        BY <3>1, <4>1
    <3>4. QED
      BY <3>2, <3>3, ZenonT(30)
  <2>9. reversed' \subseteq Workers /\ dropped' \subseteq Workers
    BY <1>9 DEF Settle, Answered
  <2>10. committed' \subseteq Workers /\ lockedOriginal' \subseteq Workers
    BY <1>9 DEF Settle, EndTransaction
  <2>11. UNCHANGED <<frozen, req, orig, found, seenRefunded, holds, seen>>
    BY <1>9 DEF Settle, locals
  <2>12. QED
    BY <2>1, <2>2, <2>3, <2>4, <2>5, <2>6, <2>7, <2>8, <2>9, <2>10, <2>11 DEF Places
<1>10. ASSUME NEW w \in Workers, AutoReverse(w) PROVE TypeOK'
  <2>1. pc' \in [Workers -> Places]
    BY <1>10, PlaceTyped DEF Acts, Step
  <2>2. rows' \in [Workers -> SUBSET Accounts]
    BY <1>10 DEF AutoReverse, EndTransaction
  <2>3. balance' \in [Accounts -> Int]
    BY <1>10, Asked DEF AutoReverse, EndTransaction
  <2>4. QED
    BY <1>10, <2>1, <2>2, <2>3 DEF AutoReverse, EndTransaction, Places, columns, locals
<1>11. ASSUME NEW w \in Workers, SetFrozen(w) PROVE TypeOK'
  <2>1. pc' \in [Workers -> Places]
    BY <1>11, PlaceTyped DEF Acts, Step
  <2>2. rows' \in [Workers -> SUBSET Accounts]
    BY <1>11 DEF SetFrozen, EndTransaction
  <2>3. frozen' \in [Accounts -> BOOLEAN]
    BY <1>11 DEF SetFrozen, EndTransaction
  <2>4. QED
    BY <1>11, <2>1, <2>2, <2>3 DEF SetFrozen, EndTransaction, Places, columns, locals
<1>12. ASSUME NEW w \in Workers, Fail(w) PROVE TypeOK'
  <2>1. pc' \in [Workers -> Places]
    BY <1>12, PlaceTyped DEF Acts, Step
  <2>2. rows' \in [Workers -> SUBSET Accounts]
    BY <1>12 DEF Fail, EndTransaction
  <2>3. QED
    BY <1>12, <2>1, <2>2 DEF Fail, EndTransaction, Places, columns, locals
<1>13. ASSUME NEW w \in Workers, Leave(w) PROVE TypeOK'
  <2>1. pc' \in [Workers -> Places]
    BY <1>13, PlaceTyped DEF Acts, Step
  <2>2. holds' \in [Workers -> SUBSET Accounts]
    BY <1>13 DEF Leave
  <2>3. QED
    BY <1>13, <2>1, <2>2 DEF Leave, Places, columns, locals
<1>14. ASSUME NEW w \in Workers, Mark(w) PROVE TypeOK'
  <2>1. pc' \in [Workers -> Places]
    BY <1>14, PlaceTyped DEF Acts, Step
  <2>2. lockedOriginal' \subseteq Workers
    BY <1>14 DEF Mark
  <2>3. QED
    BY <1>14, <2>1, <2>2 DEF Mark, Places, columns, locals
<1>15. ASSUME NEW w \in Workers, MarkFails(w) PROVE TypeOK'
  <2>1. pc' \in [Workers -> Places]
    BY <1>15, PlaceTyped DEF Acts, Step
  <2>2. QED
    BY <1>15, <2>1 DEF MarkFails, Places, columns, locals
<1>16. ASSUME NEW w \in Workers, LoseCredit(w) PROVE TypeOK'
  <2>1. pc' \in [Workers -> Places]
    BY <1>16, PlaceTyped DEF Acts, Step
  <2>2. rows' \in [Workers -> SUBSET Accounts] /\ reversed' \subseteq Workers
    BY <1>16 DEF LoseCredit, EndTransaction
  <2>3. QED
    BY <1>16, <2>1, <2>2 DEF LoseCredit, EndTransaction, Places, columns, locals
<1>17. ASSUME NEW a \in Accounts, HourPasses(a) PROVE TypeOK'
  <2> DEFINE q == hourly[a]
  <2>1. q \in Seq(Workers) /\ q # <<>>
    BY <1>17 DEF HourPasses
  <2>2. Tail(q) \in Seq(Workers) /\ Head(q) \in Workers /\ Head(q) = q[1] /\ 1 \in 1..Len(q)
    BY <2>1
  <2>3. Head(q) \in committed
    BY <2>2 DEF IInv, HourlyOK
  <2>4. Amount(Head(q)) \in Int
    BY <2>2, <2>3, Asked DEF PlacesOK
  <2>5. usage' \in [Buckets -> [Accounts -> Int]]
    BY <1>17, <2>4, SMTT(20) DEF HourPasses, Buckets
  <2>6. hourly' \in [Accounts -> Seq(Workers)]
    BY <1>17, <2>2 DEF HourPasses
  <2>7. QED
    BY <1>17, <2>5, <2>6 DEF HourPasses, locals
<1>18. CASE UNCHANGED vars
  BY <1>18 DEF vars, columns, locals
<1>19. QED
  BY <1>1, <1>2, <1>3, <1>4, <1>5, <1>6, <1>7, <1>8, <1>9, <1>10, <1>11, <1>12, <1>13, <1>14, <1>15,
     <1>16, <1>17, <1>18 DEF Next, Step, Finished

(***************************************************************************)
(* Who moves                                                               *)
(***************************************************************************)

LEMMA OthersStand ==
  ASSUME IInv, NEW w \in Workers, Acts(w), NEW v \in Workers, v # w
  PROVE  /\ pc'[v] = pc[v] /\ req'[v] = req[v] /\ orig'[v] = orig[v] /\ found'[v] = found[v]
         /\ holds'[v] = holds[v] /\ rows'[v] = rows[v] /\ seen'[v] = seen[v]
         /\ seenRefunded'[v] = seenRefunded[v]
         /\ v \in lockedOriginal' <=> v \in lockedOriginal
         /\ v \in committed' <=> v \in committed
<1>0. TypeOK
  BY DEF IInv
<1> USE <1>0 DEF TypeOK
<1>1. CASE Receive(w)
  BY <1>1 DEF Receive, Goto, locals
<1>2. CASE CheckFrozen(w)
  BY <1>2 DEF CheckFrozen, Goto, locals, Proceed
<1>3. CASE Find(w)
  BY <1>3 DEF Find, Goto, locals, Proceed
<1>4. CASE Lock(w)
  BY <1>4 DEF Lock, Goto, locals, Proceed
<1>5. CASE LockOriginal(w)
  BY <1>5 DEF LockOriginal, Goto, locals, EndTransaction, Proceed
<1>6. CASE ReadBalance(w)
  BY <1>6 DEF ReadBalance, Goto, locals, Proceed
<1>7. CASE ReadLimit(w)
  BY <1>7 DEF ReadLimit, Goto, locals, EndTransaction, Proceed
<1>8. CASE Refuse(w)
  BY <1>8 DEF Refuse, Goto, locals, EndTransaction
<1>9. CASE Settle(w)
  BY <1>9 DEF Settle, Goto, locals, EndTransaction
<1>10. CASE AutoReverse(w)
  BY <1>10 DEF AutoReverse, Goto, locals, EndTransaction
<1>11. CASE SetFrozen(w)
  BY <1>11 DEF SetFrozen, Goto, locals, EndTransaction
<1>12. CASE Fail(w)
  BY <1>12 DEF Fail, Goto, locals, EndTransaction
<1>13. CASE Leave(w)
  BY <1>13 DEF Leave, Goto, locals
<1>14. CASE Mark(w) \/ MarkFails(w)
  BY <1>14 DEF Mark, MarkFails, Goto, locals, Proceed
<1>15. CASE LoseCredit(w)
  BY <1>15 DEF LoseCredit, Goto, locals, EndTransaction
<1>16. QED
  BY <1>1, <1>2, <1>3, <1>4, <1>5, <1>6, <1>7, <1>8, <1>9, <1>10, <1>11, <1>12, <1>13, <1>14, <1>15
     DEF Acts, Step

LEMMA NobodyMoves ==
  ASSUME HourEnds \/ UNCHANGED vars
  PROVE  /\ UNCHANGED <<pc, req, orig, found, holds, rows, seen, seenRefunded, lockedOriginal,
                        committed, balance, refunded, flag, repaid>>
         /\ HourEnds \/ UNCHANGED <<usage, hourly>>
  BY DEF HourEnds, HourPasses, vars, columns, locals

LEMMA SomebodyMoves ==
  ASSUME [Next]_vars
  PROVE  (\E w \in Workers : Acts(w)) \/ HourEnds \/ UNCHANGED vars
  BY DEF Next, Acts, Finished, HourEnds

(* The ways a worker's own step goes. *)
Enters(w) ==
  /\ Receive(w) /\ pc[w] = "idle" /\ req'[w] \in Offers /\ Valid(req'[w])
  /\ pc'[w] = Entry(req'[w].kind) /\ rows' = rows /\ lockedOriginal' = lockedOriginal

GoesOn(w) ==
  /\ pc[w] \in Underway
  /\ pc'[w] = After(Kind(w), pc[w])

Repeats(w) == pc[w] \in {"lock", "balance"} /\ pc'[w] = pc[w]

Ends(w) ==
  /\ pc[w] \notin {"idle", "leave", "done"}
  /\ pc'[w] = "leave" /\ rows' = [rows EXCEPT ![w] = {}] /\ lockedOriginal' = lockedOriginal \ {w}

LEMMA Ways ==
  ASSUME IInv, NEW w \in Workers, Acts(w)
  PROVE  /\ ~Receive(w) => UNCHANGED <<req, orig>>
         /\ committed' = committed \/ (pc[w] = "commit" /\ pc'[w] = "leave" /\ committed' = committed \cup {w})
         /\ Enters(w) \/ GoesOn(w) \/ Repeats(w) \/ Ends(w) \/ Leave(w)
<1>0. TypeOK /\ PlacesOK
  BY DEF IInv
<1>t. pc \in [Workers -> Places] /\ req \in [Workers -> Offers \cup {NoRequest}]
  BY <1>0 DEF TypeOK, Places
<1>p. ASSUME Proceed(w), pc[w] \in Underway
      PROVE  GoesOn(w)
  BY <1>0, <1>t, <1>p, Proceeding DEF Underway, GoesOn
<1>e. ASSUME EndTransaction(w), pc[w] \notin {"idle", "leave", "done"}
      PROVE  Ends(w)
  BY <1>t, <1>e DEF EndTransaction, Goto, Ends
<1>1. CASE Receive(w)
  <2>1. PICK q \in Offers : /\ Valid(q) /\ req' = [req EXCEPT ![w] = q] /\ Goto(w, Plan[q.kind].start)
    BY <1>1 DEF Receive
  <2>2. Plan[q.kind].start = Entry(q.kind)
    BY EntryOf, SettlementAssumption DEF SettlementAssumption
  <2>3. req'[w] = q /\ pc'[w] = Entry(q.kind)
    BY <1>t, <2>1, <2>2 DEF Goto
  <2>4. QED
    BY <1>1, <2>1, <2>3 DEF Receive, Enters
<1>2. CASE CheckFrozen(w)
  <2>1. GoesOn(w) \/ (pc'[w] = "leave" /\ rows' = rows /\ lockedOriginal' = lockedOriginal)
    BY <1>t, <1>p, <1>2 DEF CheckFrozen, Goto, Underway
  <2>2. rows[w] = {} /\ w \notin lockedOriginal /\ pc[w] = "check"
    BY <1>2 DEF CheckFrozen, IInv, RowsOK, OriginalsOK, InTransaction, PlacesOK, Refunds
  <2>3. rows = [rows EXCEPT ![w] = {}] /\ lockedOriginal = lockedOriginal \ {w}
    BY <1>0, <2>2 DEF TypeOK
  <2>4. QED
    BY <1>2, <2>1, <2>2, <2>3 DEF CheckFrozen, Ends, locals
<1>3. CASE Find(w)
  BY <1>p, <1>3 DEF Find, Underway
<1>4. CASE Lock(w)
  BY <1>t, <1>p, <1>4 DEF Lock, Goto, Repeats, locals, Underway
<1>5. CASE LockOriginal(w)
  BY <1>p, <1>e, <1>5 DEF LockOriginal, Underway
<1>6. CASE ReadBalance(w)
  BY <1>t, <1>p, <1>6 DEF ReadBalance, Goto, Repeats, locals, Underway
<1>7. CASE ReadLimit(w)
  BY <1>p, <1>e, <1>7 DEF ReadLimit, locals, Underway
<1>8. CASE Refuse(w)
  BY <1>e, <1>8 DEF Refuse, locals
<1>9. CASE Settle(w)
  BY <1>e, <1>9 DEF Settle, locals, Ends
<1>10. CASE AutoReverse(w)
  BY <1>e, <1>10 DEF AutoReverse, locals
<1>11. CASE SetFrozen(w)
  BY <1>e, <1>11 DEF SetFrozen, locals, Ends
<1>12. CASE Fail(w)
  BY <1>e, <1>12 DEF Fail, locals
<1>13. CASE Leave(w)
  BY <1>13 DEF Leave, locals
<1>14. CASE Mark(w) \/ MarkFails(w)
  BY <1>p, <1>14 DEF Mark, MarkFails, Underway, locals
<1>15. CASE LoseCredit(w)
  BY <1>e, <1>15 DEF LoseCredit, locals
<1>16. QED
  BY <1>1, <1>2, <1>3, <1>4, <1>5, <1>6, <1>7, <1>8, <1>9, <1>10, <1>11, <1>12, <1>13, <1>14, <1>15
     DEF Acts, Step

(***************************************************************************)
(* Each part of the invariant is kept                                      *)
(***************************************************************************)

LEMMA PlacesStep == IInv /\ [Next]_vars => PlacesOK'
<1> SUFFICES ASSUME IInv, [Next]_vars, NEW v \in Workers
             PROVE  /\ pc'[v] = "idle" => req'[v] = NoRequest
                    /\ pc'[v] # "idle" => req'[v] \in Offers /\ Valid(req'[v])
                    /\ pc'[v] = "check" => req'[v].kind = "ringpay"
                    /\ pc'[v] = "find" => req'[v].kind = "posRefund"
                    /\ pc'[v] = "mark" => req'[v].kind = "reverse"
                    /\ pc'[v] = "original" => req'[v].kind \in Refunds
                    /\ pc'[v] = "limit" => req'[v].kind \in {"withdraw", "deposit", "transfer", "ringpay"}
                    /\ v \in committed' => pc'[v] \in {"leave", "done"}
  BY DEF PlacesOK, Kind, Valid
<1>0. PlacesOK /\ TypeOK
  BY DEF IInv
<1>1. CASE HourEnds \/ UNCHANGED vars
  BY <1>0, <1>1, NobodyMoves DEF PlacesOK, Kind
<1>2. CASE \E w \in Workers : Acts(w) /\ v # w
  BY <1>0, <1>2, OthersStand DEF PlacesOK, Kind
<1>3. CASE Acts(v)
  <2>1. v \in committed' => v \in committed \/ pc'[v] = "leave"
    BY <1>3, Ways
  <2>2. CASE Enters(v)
    BY <1>0, <2>1, <2>2 DEF Enters, Entry, PlacesOK
  <2>3. CASE GoesOn(v)
    <3>1. req' = req
      BY <1>3, <2>3, Ways DEF Underway, GoesOn, Receive
    <3>2. Kind(v) \in Kinds /\ req[v] \in Offers
      BY <1>0, <2>3, Asked DEF Underway, GoesOn
    <3>3. pc'[v] = After(Kind(v), pc[v])
      BY <2>3 DEF Underway, GoesOn
    <3>4. v \notin committed
      BY <1>0, <2>3 DEF Underway, GoesOn, PlacesOK
    <3>5. QED
      BY <1>0, <2>1, <2>3, <3>1, <3>2, <3>3, <3>4 DEF Underway, GoesOn, After, PlacesOK, Kind, Refunds
  <2>4. CASE Repeats(v) \/ Ends(v) \/ Leave(v)
    <3>1. req' = req
      BY <1>3, <2>4, Ways DEF Repeats, Ends, Leave, Receive
    <3>2. (pc'[v] = pc[v] /\ v \notin committed) \/ pc'[v] \in {"leave", "done"}
      BY <1>0, <2>4 DEF Repeats, Ends, Leave, Goto, PlacesOK, TypeOK
    <3>3. pc[v] # "idle"
      BY <2>4 DEF Repeats, Ends, Leave
    <3>4. QED
      BY <1>0, <2>1, <3>1, <3>2, <3>3 DEF PlacesOK, Kind
  <2>5. QED
    BY <1>3, <2>2, <2>3, <2>4, Ways
<1>4. QED
  BY <1>1, <1>2, <1>3, SomebodyMoves

LEMMA ToLockIs ==
  ASSUME NEW w
  PROVE  /\ Kind(w) = "posRefund" => ToLock(w) = found[w]
         /\ Kind(w) = "transfer" => ToLock(w) = {req[w].acc, req[w].to}
         /\ Kind(w) \notin {"transfer", "posRefund"} => ToLock(w) = {req[w].acc}
  BY AccountsOfIs DEF ToLock

LEMMA ToLockTyped ==
  ASSUME TypeOK, PlacesOK, NEW w \in Workers, pc[w] # "idle"
  PROVE  ToLock(w) \subseteq Accounts
<1>1. CASE Kind(w) = "posRefund"
  BY <1>1, ToLockIs DEF TypeOK
<1>2. CASE Kind(w) # "posRefund"
  <2>1. req[w].acc \in Accounts /\ req[w].to \in Accounts
    BY Asked
  <2>2. ToLock(w) = {req[w].acc, req[w].to} \/ ToLock(w) = {req[w].acc}
    BY <1>2, ToLockIs
  <2>3. QED
    BY <2>1, <2>2
<1>3. QED
  BY <1>1, <1>2

(* What HoldsOK says of one worker. *)
HoldsOf(w) ==
  /\ pc[w] \in {"idle", "check", "find", "done"} => holds[w] = {}
  /\ pc[w] = "limit" /\ Kind(w) = "ringpay" => holds[w] = {}
  /\ pc[w] = "lock" =>
       /\ holds[w] \subseteq ToLock(w)
       /\ ToLock(w) # {} => holds[w] # ToLock(w)
       /\ \A a \in holds[w], b \in ToLock(w) \ holds[w] : a < b
  /\ PastLock(w) => holds[w] = ToLock(w)

LEMMA HoldsChange ==
  ASSUME NEW w \in Workers, Acts(w)
  PROVE  /\ holds' = holds \/ Lock(w) \/ Leave(w)
         /\ found' = found \/ Find(w)
         /\ pc[w] = "lock" => Lock(w) \/ Fail(w)
  BY DEF Acts, Step, Receive, CheckFrozen, Find, Lock, LockOriginal, ReadBalance, ReadLimit, Mark,
         MarkFails, LoseCredit, Refuse,
         Settle, AutoReverse, SetFrozen, Fail, Leave, locals

LEMMA HoldsStep == IInv /\ [Next]_vars => HoldsOK'
<1> SUFFICES ASSUME IInv, [Next]_vars
             PROVE  /\ \A v \in Workers : HoldsOf(v)'
                    /\ \A u, v \in Workers : u # v => holds'[u] \cap holds'[v] = {}
  BY DEF HoldsOK, HoldsOf
<1>0. PlacesOK /\ TypeOK /\ PlacesOK' /\ TypeOK'
  BY PlacesStep, TypedStep DEF IInv
<1>h. /\ \A v \in Workers : HoldsOf(v)
      /\ \A u, v \in Workers : u # v => holds[u] \cap holds[v] = {}
  BY DEF IInv, HoldsOK, HoldsOf
<1>s. ASSUME NEW v \in Workers, pc'[v] = pc[v], req'[v] = req[v], found'[v] = found[v], holds'[v] = holds[v]
      PROVE  HoldsOf(v)'
  <2>1. ToLock(v)' = ToLock(v)
    BY <1>s, ToLockIs DEF ToLock, AccountsOf, Kind
  <2>2. QED
    BY <1>h, <1>s, <2>1 DEF HoldsOf, PastLock, Kind
<1>1. CASE HourEnds \/ UNCHANGED vars
  BY <1>h, <1>s, <1>1, NobodyMoves
<1>2. ASSUME NEW w \in Workers, Acts(w) PROVE HoldsOf(w)'
  <2>0. HoldsOf(w) /\ holds \in [Workers -> SUBSET Accounts]
    BY <1>0, <1>h DEF TypeOK
  <2>1. CASE Enters(w)
    <3>1. holds'[w] = {} /\ pc'[w] \in {"find", "check", "lock"}
      BY <2>0, <2>1 DEF Enters, Entry, Receive, HoldsOf
    <3>2. QED
      BY <3>1 DEF HoldsOf, PastLock
  <2>2. CASE GoesOn(w) /\ pc[w] # "lock"
    <3>1. holds' = holds
      BY <1>2, <2>2, HoldsChange DEF Underway, GoesOn, Lock, Leave
    <3>2. req' = req
      BY <1>2, <2>2, Ways DEF Underway, GoesOn, Receive
    <3>3. pc[w] = "find" \/ found' = found
      BY <1>2, HoldsChange DEF Find
    <3>4. Kind(w)' = Kind(w)
      BY <3>2 DEF Kind
    <3>5. CASE pc[w] \in {"find", "check"} \/ (pc[w] = "limit" /\ Kind(w) = "ringpay")
      <4>1. holds'[w] = {} /\ pc'[w] \in {"lock", "limit"} /\ (pc'[w] = "limit" => Kind(w)' = "ringpay")
        BY <1>0, <2>0, <2>2, <3>1, <3>4, <3>5 DEF HoldsOf, Underway, GoesOn, After, PlacesOK
      <4>2. QED
        BY <4>1 DEF HoldsOf, PastLock
    <3>6. CASE ~(pc[w] \in {"find", "check"} \/ (pc[w] = "limit" /\ Kind(w) = "ringpay"))
      <4>1. PastLock(w)
        BY <2>2, <3>6 DEF Underway, GoesOn, PastLock
      <4>2. holds[w] = ToLock(w)
        BY <2>0, <4>1 DEF HoldsOf
      <4>3. ToLock(w)' = ToLock(w)
        BY <3>2, <3>3, <3>6, ToLockIs DEF ToLock, AccountsOf, Kind
      <4>4. PastLock(w)' /\ pc'[w] \notin {"idle", "check", "find", "done", "lock"}
        BY <1>0, <2>2, <3>4, <3>6 DEF PastLock, Underway, GoesOn, After, PlacesOK
      <4>5. QED
        BY <3>1, <4>2, <4>3, <4>4 DEF HoldsOf, PastLock
    <3>7. QED
      BY <3>5, <3>6
  <2>3. CASE Lock(w)
    <3>1. /\ pc[w] = "lock" /\ req' = req /\ found' = found /\ Kind(w)' = Kind(w)
      BY <2>3 DEF Lock, locals, Kind
    <3>2. ToLock(w)' = ToLock(w)
      BY <3>1, ToLockIs DEF ToLock, AccountsOf, Kind
    <3>3. ASSUME Proceed(w)
          PROVE  PastLock(w)' /\ pc'[w] \notin {"idle", "check", "find", "done", "lock"}
                 /\ (pc'[w] = "limit" => Kind(w)' # "ringpay")
      BY <1>0, <3>1, <3>3, Proceeding DEF After, PastLock, TypeOK, Underway
    <3>4. CASE ToLock(w) = {} /\ Proceed(w) /\ holds' = holds
      <4>1. holds'[w] = ToLock(w)
        BY <2>0, <3>1, <3>4 DEF HoldsOf
      <4>2. QED
        BY <3>2, <3>3, <3>4, <4>1 DEF HoldsOf, PastLock
    <3>5. CASE \E a \in Accounts :
                 /\ NextOf(a, ToLock(w), holds[w])
                 /\ holds' = [holds EXCEPT ![w] = @ \cup {a}]
                 /\ IF ToLock(w) \subseteq holds[w] \cup {a} THEN Proceed(w) ELSE Goto(w, "lock")
      <4>1. PICK a \in Accounts :
                 /\ NextOf(a, ToLock(w), holds[w])
                 /\ holds' = [holds EXCEPT ![w] = @ \cup {a}]
                 /\ IF ToLock(w) \subseteq holds[w] \cup {a} THEN Proceed(w) ELSE Goto(w, "lock")
        BY <3>5
      <4>2. holds'[w] = holds[w] \cup {a} /\ holds'[w] \subseteq ToLock(w)
        BY <2>0, <3>1, <4>1 DEF HoldsOf, NextOf
      <4>3. CASE ToLock(w) \subseteq holds[w] \cup {a}
        <5>1. holds'[w] = ToLock(w) /\ Proceed(w)
          BY <4>1, <4>2, <4>3
        <5>2. QED
          BY <3>2, <3>3, <5>1 DEF HoldsOf, PastLock
      <4>4. CASE ~(ToLock(w) \subseteq holds[w] \cup {a})
        <5>1. pc'[w] = "lock"
          BY <1>0, <4>1, <4>4 DEF Goto, TypeOK
        <5>2. \A x \in holds'[w], y \in ToLock(w) \ holds'[w] : x < y
          <6>1. \A x \in holds[w], y \in ToLock(w) \ holds[w] : x < y
            BY <2>0, <3>1 DEF HoldsOf
          <6>2. \A y \in ToLock(w) \ (holds[w] \cup {a}) : a < y
            BY <1>0, <4>1, <4>2, ToLockTyped, SettlementAssumption DEF NextOf, SettlementAssumption
          <6>3. QED
            BY <4>2, <6>1, <6>2
        <5>3. holds'[w] # ToLock(w)
          BY <4>2, <4>4
        <5>4. QED
          BY <3>2, <4>2, <5>1, <5>2, <5>3 DEF HoldsOf, PastLock
      <4>5. QED
        BY <4>3, <4>4
    <3>6. QED
      BY <2>3, <3>4, <3>5 DEF Lock
  <2>7. CASE Repeats(w) /\ pc[w] # "lock"
    <3>1. pc[w] = "balance" /\ pc'[w] = "balance"
      BY <2>7 DEF Repeats
    <3>2. holds' = holds /\ found' = found /\ req' = req
      BY <1>2, <3>1, HoldsChange, Ways DEF Lock, Leave, Find, Receive
    <3>3. QED
      BY <1>s, <3>1, <3>2
  <2>4. CASE Ends(w)
    BY <2>4 DEF Ends, HoldsOf, PastLock
  <2>5. CASE Leave(w)
    BY <1>0, <2>5 DEF Leave, Goto, HoldsOf, PastLock, TypeOK
  <2>6. QED
    <3>1. pc[w] = "lock" => Lock(w) \/ Fail(w)
      BY <1>2, HoldsChange
    <3>2. Fail(w) => Ends(w)
      BY <1>0 DEF Fail, EndTransaction, Goto, Ends, TypeOK
    <3>3. QED
      BY <1>2, <2>1, <2>2, <2>3, <2>4, <2>5, <2>7, <3>1, <3>2, Ways
<1>3. ASSUME NEW w \in Workers, Acts(w)
      PROVE  \A u, v \in Workers : u # v => holds'[u] \cap holds'[v] = {}
  <2>1. \A v \in Workers : v # w => holds'[v] = holds[v]
    BY <1>3, OthersStand
  <2>2. \/ holds'[w] \subseteq holds[w]
        \/ \E a : holds'[w] = holds[w] \cup {a} /\ \A v \in Workers : a \notin holds[v]
    <3>1. CASE holds' = holds \/ Leave(w)
      BY <1>0, <3>1 DEF Leave, TypeOK
    <3>2. CASE Lock(w) /\ holds' # holds
      <4>1. PICK a \in Accounts : /\ \A v \in Workers : a \notin holds[v]
                                 /\ holds' = [holds EXCEPT ![w] = @ \cup {a}]
        BY <3>2 DEF Lock
      <4>2. holds'[w] = holds[w] \cup {a}
        BY <1>0, <4>1 DEF TypeOK
      <4>3. QED
        BY <4>1, <4>2
    <3>3. QED
      BY <1>3, <3>1, <3>2, HoldsChange
  <2>3. QED
    BY <1>h, <2>1, <2>2
<1>4. ASSUME NEW w \in Workers, Acts(w) PROVE \A v \in Workers : HoldsOf(v)'
  BY <1>2, <1>4, <1>s, OthersStand
<1>5. QED
  BY <1>1, <1>3, <1>4, <1>s, <1>h, OthersStand, NobodyMoves, SomebodyMoves

(* A request that has come in is the same until it is done.                *)
LEMMA RequestsStay ==
  ASSUME IInv, [Next]_vars, NEW v \in Workers, pc[v] # "idle"
  PROVE  /\ req'[v] = req[v] /\ orig'[v] = orig[v] /\ pc'[v] # "idle"
         /\ Kind(v)' = Kind(v) /\ Amount(v)' = Amount(v)
<1>0. PlacesOK /\ TypeOK /\ PlacesOK'
  BY PlacesStep DEF IInv
<1>1. req'[v] = req[v] /\ orig'[v] = orig[v]
  <2>1. CASE HourEnds \/ UNCHANGED vars
    BY <2>1, NobodyMoves
  <2>2. ASSUME NEW w \in Workers, Acts(w) PROVE req'[v] = req[v] /\ orig'[v] = orig[v]
    <3>1. CASE v # w
      BY <2>2, <3>1, OthersStand
    <3>2. CASE v = w
      BY <2>2, <3>2, Ways DEF Receive
    <3>3. QED
      BY <3>1, <3>2
  <2>3. QED
    BY <2>1, <2>2, SomebodyMoves
<1>2. req[v].kind \in Kinds
  BY <1>0, Asked DEF Kind
<1>3. pc'[v] # "idle"
  BY <1>0, <1>1, <1>2 DEF PlacesOK, NoRequest, Kinds, Debits, Refunds, Freezes
<1>4. QED
  BY <1>1, <1>3 DEF Kind, Amount

(* A row once in the tables stays there; a new one is of a request that    *)
(* was about to commit.                                                    *)
LEMMA CommittedStay ==
  ASSUME IInv, [Next]_vars
  PROVE  committed \subseteq committed' /\ \A u \in committed' \ committed : pc[u] = "commit"
<1>1. CASE HourEnds \/ UNCHANGED vars
  BY <1>1, NobodyMoves
<1>2. ASSUME NEW w \in Workers, Acts(w)
      PROVE  committed \subseteq committed' /\ \A u \in committed' \ committed : pc[u] = "commit"
  BY <1>2, Ways
<1>3. QED
  BY <1>1, <1>2, SomebodyMoves

LEMMA FoundStep == IInv /\ [Next]_vars => FoundOK'
<1> SUFFICES ASSUME IInv, [Next]_vars, NEW v \in Workers, found'[v] # {}
             PROVE  /\ Kind(v)' = "posRefund" /\ pc'[v] # "idle"
                    /\ orig'[v] \in committed' /\ found'[v] = {req'[orig'[v]].acc}
  BY DEF FoundOK
<1>0. TypeOK /\ PlacesOK /\ FoundOK
  BY DEF IInv
<1>c. committed \subseteq committed' /\ \A u \in committed : u \in Workers /\ pc[u] # "idle"
  BY <1>0, CommittedStay DEF TypeOK, PlacesOK
(* It was found before ... *)
<1>1. CASE found'[v] = found[v]
  <2>1. /\ Kind(v) = "posRefund" /\ pc[v] # "idle"
        /\ orig[v] \in committed /\ found[v] = {req[orig[v]].acc}
    BY <1>0, <1>1 DEF FoundOK
  <2>2. QED
    BY <1>1, <1>c, <2>1, RequestsStay
(* ... or now. *)
<1>2. CASE Find(v)
  <2>1. /\ pc[v] = "find" /\ UNCHANGED <<committed, req, orig>>
        /\ found' = [found EXCEPT ![v] = IF PurchaseExists(v) THEN {req[orig[v]].acc} ELSE {}]
    BY <1>2 DEF Find
  <2>2. PurchaseExists(v) /\ found'[v] = {req[orig[v]].acc}
    BY <1>0, <2>1 DEF TypeOK
  <2>3. Kind(v) = "posRefund"
    BY <1>0, <2>1 DEF PlacesOK
  <2>4. QED
    BY <2>1, <2>2, <2>3, RequestsStay DEF PurchaseExists
<1>3. QED
  <2>1. ASSUME NEW w \in Workers, Acts(w) PROVE found'[v] = found[v] \/ Find(v)
    BY <2>1, OthersStand, HoldsChange
  <2>2. QED
    BY <1>1, <1>2, <2>1, NobodyMoves, SomebodyMoves

LEMMA AccountsStay ==
  ASSUME IInv, [Next]_vars, NEW v \in Workers, pc[v] \in InTransaction
  PROVE  AccountsOf(v)' = AccountsOf(v)
<1>1. req'[v] = req[v] /\ orig'[v] = orig[v]
  BY RequestsStay DEF InTransaction
<1>2. CASE Kind(v) = "posRefund"
  <2>1. pc[v] \in {"balance", "commit"}
    BY <1>2 DEF InTransaction, IInv, PlacesOK
  <2>2. orig[v] \in Workers /\ pc[orig[v]] # "idle"
    BY <1>2, <2>1, Purchased DEF Refunds
  <2>3. req'[orig[v]] = req[orig[v]]
    BY <2>2, RequestsStay
  <2>4. QED
    BY <1>1, <2>3 DEF AccountsOf, Kind
<1>3. CASE Kind(v) # "posRefund"
  BY <1>1, <1>3, AccountsOfIs DEF AccountsOf, Kind
<1>4. QED
  BY <1>2, <1>3

(* Only a request that settles changes balances, of the rows it has locked. *)
LEMMA BalanceChange ==
  ASSUME IInv, NEW w \in Workers, Acts(w)
  PROVE  \/ balance' = balance
         \/ Settle(w) /\ \A a \in Accounts \ rows[w] : balance'[a] = balance[a]
<1>1. CASE Settle(w)
  <2>1. rows[w] = AccountsOf(w)
    BY <1>1 DEF Settle, IInv, RowsOK
  <2>2. QED
    BY <1>1, <2>1 DEF Settle
<1>2. CASE AutoReverse(w)
  <2>1. pc[w] = "commit" /\ Kind(w) = "ringpay"
    BY <1>2 DEF AutoReverse
  <2>2. rows[w] = AccountsOf(w) /\ AccountsOf(w) = {req[w].acc}
    BY <2>1, AccountsOfIs DEF IInv, RowsOK
  <2>3. seen[w][req[w].acc] = balance[req[w].acc]
    BY <2>2 DEF IInv, RowsOK
  <2>4. balance' = [balance EXCEPT ![req[w].acc] = balance[req[w].acc]]
    BY <1>2, <2>3 DEF AutoReverse
  <2>5. QED
    BY <2>4 DEF IInv, TypeOK
<1>3. CASE ~Settle(w) /\ ~AutoReverse(w)
  BY <1>3 DEF Acts, Step, Receive, CheckFrozen, Find, Lock, LockOriginal, ReadBalance, ReadLimit, Mark,
         MarkFails, LoseCredit, Refuse,
         SetFrozen, Fail, Leave, locals
<1>4. QED
  BY <1>1, <1>2, <1>3

LEMMA RowsChange ==
  ASSUME NEW w \in Workers, Acts(w)
  PROVE  /\ rows' = rows \/ ReadBalance(w) \/ rows' = [rows EXCEPT ![w] = {}]
         /\ seen' = seen \/ ReadBalance(w)
         /\ pc[w] = "balance" => ReadBalance(w) \/ Fail(w)
         /\ pc[w] = "limit" => ReadLimit(w) \/ Fail(w)
         /\ pc[w] = "mark" => Mark(w) \/ MarkFails(w) \/ LoseCredit(w) \/ Fail(w)
  BY DEF Acts, Step, Receive, CheckFrozen, Find, Lock, LockOriginal, ReadBalance, ReadLimit, Mark,
         MarkFails, LoseCredit, Refuse,
         Settle, AutoReverse, SetFrozen, Fail, Leave, EndTransaction, locals

(* What RowsOK says of one worker. *)
RowsOf(w) ==
  /\ pc[w] \notin InTransaction => rows[w] = {}
  /\ pc[w] = "balance" =>
       /\ rows[w] \subseteq AccountsOf(w) /\ rows[w] # AccountsOf(w)
       /\ \A a \in rows[w], b \in AccountsOf(w) \ rows[w] : a < b
  /\ pc[w] = "limit" =>
       rows[w] = IF Kind(w) \in {"withdraw", "transfer"} THEN AccountsOf(w) ELSE {}
  /\ pc[w] \in {"mark", "commit"} => rows[w] = AccountsOf(w)
  /\ \A a \in rows[w] : seen[w][a] = balance[a]

LEMMA RowsStep == IInv /\ [Next]_vars => RowsOK'
<1> SUFFICES ASSUME IInv, [Next]_vars
             PROVE  /\ \A v \in Workers : RowsOf(v)'
                    /\ \A u, v \in Workers : u # v => rows'[u] \cap rows'[v] = {}
  BY DEF RowsOK, RowsOf
<1>0. PlacesOK /\ TypeOK /\ PlacesOK' /\ TypeOK'
  BY PlacesStep, TypedStep DEF IInv
<1>h. /\ \A v \in Workers : RowsOf(v)
      /\ \A u, v \in Workers : u # v => rows[u] \cap rows[v] = {}
  BY DEF IInv, RowsOK, RowsOf
<1>s. ASSUME NEW v \in Workers, pc'[v] = pc[v], req'[v] = req[v], rows'[v] = rows[v], seen'[v] = seen[v],
             \A a \in rows[v] : balance'[a] = balance[a]
      PROVE  RowsOf(v)'
  <2>1. pc[v] \in InTransaction => AccountsOf(v)' = AccountsOf(v)
    BY AccountsStay
  <2>2. RowsOf(v) /\ Kind(v)' = Kind(v)
    BY <1>h, <1>s DEF Kind
  <2>3. QED
    BY <1>s, <2>1, <2>2 DEF RowsOf, InTransaction
<1>1. CASE HourEnds \/ UNCHANGED vars
  BY <1>h, <1>s, <1>1, NobodyMoves
<1>2. ASSUME NEW w \in Workers, Acts(w) PROVE RowsOf(w)'
  <2>0. RowsOf(w) /\ rows \in [Workers -> SUBSET Accounts]
    BY <1>0, <1>h DEF TypeOK
  <2>1. CASE Enters(w) \/ Leave(w)
    <3>1. rows'[w] = {} /\ pc'[w] \notin InTransaction
      BY <1>0, <2>0, <2>1 DEF Enters, Entry, Leave, Goto, RowsOf, InTransaction, TypeOK
    <3>2. QED
      BY <3>1 DEF RowsOf, InTransaction
  <2>2. CASE Ends(w)
    BY <2>0, <2>2 DEF Ends, RowsOf, InTransaction
  <2>3. CASE ReadBalance(w)
    <3>1. PICK a \in Accounts :
            /\ NextOf(a, AccountsOf(w), rows[w])
            /\ rows' = [rows EXCEPT ![w] = @ \cup {a}]
            /\ seen' = [seen EXCEPT ![w][a] = balance[a]]
            /\ IF AccountsOf(w) \subseteq rows[w] \cup {a} THEN Proceed(w) ELSE Goto(w, "balance")
      BY <2>3 DEF ReadBalance
    <3>2. pc[w] = "balance" /\ balance' = balance /\ Kind(w)' = Kind(w)
      BY <2>3 DEF ReadBalance, Kind, locals
    <3>3. AccountsOf(w)' = AccountsOf(w) /\ AccountsOf(w) \subseteq Accounts
      BY <3>2, AccountsStay, AccountsTyped DEF InTransaction
    <3>4. rows'[w] = rows[w] \cup {a} /\ rows'[w] \subseteq AccountsOf(w)
      BY <2>0, <3>1, <3>2 DEF RowsOf, NextOf
    <3>5. \A b \in rows'[w] : seen'[w][b] = balance'[b]
      <4>1. /\ seen'[w][a] = balance[a]
            /\ \A b \in Accounts : b # a => seen'[w][b] = seen[w][b]
        BY <1>0, <3>1 DEF TypeOK
      <4>2. QED
        BY <2>0, <3>2, <3>4, <4>1 DEF RowsOf
    <3>6. CASE AccountsOf(w) \subseteq rows[w] \cup {a}
      <4>1. rows'[w] = AccountsOf(w) /\ Proceed(w)
        BY <3>1, <3>4, <3>6
      <4>2. pc'[w] = IF Kind(w) \in {"withdraw", "transfer"} THEN "limit"
                     ELSE IF Kind(w) = "reverse" THEN "mark" ELSE "commit"
        <5>1. pc' = [pc EXCEPT ![w] = After(Kind(w), "balance")]
          BY <1>0, <3>2, <4>1, Proceeding DEF Underway
        <5>2. QED
          BY <1>0, <5>1 DEF After, TypeOK
      <4>3. QED
        BY <3>2, <3>3, <3>5, <4>1, <4>2 DEF RowsOf, InTransaction
    <3>7. CASE ~(AccountsOf(w) \subseteq rows[w] \cup {a})
      <4>1. pc'[w] = "balance"
        BY <1>0, <3>1, <3>7 DEF Goto, TypeOK
      <4>2. \A x \in rows'[w], y \in AccountsOf(w) \ rows'[w] : x < y
        <5>1. \A x \in rows[w], y \in AccountsOf(w) \ rows[w] : x < y
          BY <2>0, <3>2 DEF RowsOf
        <5>2. \A y \in AccountsOf(w) \ (rows[w] \cup {a}) : a < y
          BY <3>1, <3>3, SettlementAssumption DEF NextOf, SettlementAssumption
        <5>3. QED
          BY <3>4, <5>1, <5>2
      <4>3. rows'[w] # AccountsOf(w)
        BY <3>4, <3>7
      <4>4. QED
        BY <3>3, <3>4, <3>5, <4>1, <4>2, <4>3 DEF RowsOf, InTransaction
    <3>8. QED
      BY <3>6, <3>7
  <2>m. CASE GoesOn(w) /\ pc[w] = "mark"
    <3>1. rows'[w] = rows[w] /\ seen' = seen /\ balance' = balance /\ pc'[w] = "commit"
      <4>0. pc'[w] = "commit"
        BY <2>m DEF GoesOn, After
      <4>1. Mark(w) \/ MarkFails(w)
        <5>1. EndTransaction(w) => pc'[w] = "leave"
          BY <1>0 DEF EndTransaction, Goto, TypeOK
        <5>2. LoseCredit(w) \/ Fail(w) => EndTransaction(w)
          BY DEF LoseCredit, Fail
        <5>3. QED
          BY <1>2, <2>m, <4>0, <5>1, <5>2, RowsChange
      <4>2. QED
        BY <4>0, <4>1 DEF Mark, MarkFails
    <3>2. AccountsOf(w)' = AccountsOf(w)
      BY <2>m, AccountsStay DEF InTransaction
    <3>3. QED
      BY <2>0, <2>m, <3>1, <3>2 DEF RowsOf, InTransaction
  <2>4. CASE (GoesOn(w) \/ Repeats(w)) /\ ~ReadBalance(w) /\ pc[w] # "mark"
    <3>1. pc[w] # "balance" \/ Ends(w)
      BY <1>0, <1>2, <2>4, RowsChange DEF Fail, EndTransaction, Goto, Ends, TypeOK
    <3>2. CASE pc[w] # "balance"
      <4>1. rows'[w] = rows[w] \/ rows'[w] = {}
        BY <1>2, <2>0, <2>4, RowsChange
      <4>2. balance' = balance
        BY <1>2, <2>4, BalanceChange DEF Settle, Underway, GoesOn, Repeats
      <4>3. seen' = seen /\ Kind(w)' = Kind(w)
        BY <1>2, <2>4, RowsChange, Ways DEF Kind, Receive, Underway, GoesOn, Repeats
      <4>4. CASE pc[w] # "limit"
        <5>1. rows'[w] = {}
          BY <2>0, <2>4, <3>2, <4>1, <4>4 DEF RowsOf, InTransaction, Underway, GoesOn, Repeats
        <5>2. pc'[w] = "limit" => Kind(w) \notin {"withdraw", "transfer"}
          BY <1>0, <2>4, <3>2, <4>4 DEF Underway, GoesOn, Repeats, After, PlacesOK
        <5>3. pc'[w] \notin {"mark", "commit"}
          BY <2>4, <3>2, <4>4 DEF Underway, GoesOn, Repeats, After
        <5>4. pc'[w] = "balance" => {} # AccountsOf(w)'
          <6>1. \/ AccountsOf(w)' = {req'[w].acc, req'[w].to} 
                \/ AccountsOf(w)' = {req'[orig'[w]].acc} \/ AccountsOf(w)' = {req'[w].acc}
            BY AccountsOfIs DEF AccountsOf, Kind
          <6>2. QED
            BY <6>1
        <5>5. QED
          BY <4>3, <5>1, <5>2, <5>3, <5>4 DEF RowsOf, InTransaction
      <4>5. CASE pc[w] = "limit"
        <5>1. rows' = rows /\ pc'[w] = After(Kind(w), "limit")
          <6>1. pc'[w] # "leave" /\ pc'[w] = After(Kind(w), "limit")
            BY <2>4, <4>5 DEF Underway, GoesOn, Repeats, After
          <6>2. ReadLimit(w)
            BY <1>0, <1>2, <4>5, <6>1, RowsChange DEF Fail, EndTransaction, Goto, TypeOK
          <6>3. QED
            BY <1>0, <6>1, <6>2 DEF ReadLimit, EndTransaction, Goto, TypeOK
        <5>2. AccountsOf(w)' = AccountsOf(w)
          BY <4>5, AccountsStay DEF InTransaction
        <5>3. AccountsOf(w) # {}
          BY AccountsOfIs
        <5>4. Kind(w) \in {"withdraw", "deposit", "transfer", "ringpay"}
          BY <1>0, <4>5 DEF PlacesOK
        <5>5. rows[w] = IF Kind(w) \in {"withdraw", "transfer"} THEN AccountsOf(w) ELSE {}
          BY <2>0, <4>5 DEF RowsOf
        <5>6. CASE Kind(w) \in {"withdraw", "transfer"}
          BY <2>0, <4>2, <4>3, <5>1, <5>2, <5>5, <5>6 DEF RowsOf, InTransaction, After
        <5>7. CASE Kind(w) \notin {"withdraw", "transfer"}
          BY <4>2, <4>3, <5>1, <5>2, <5>3, <5>4, <5>5, <5>7 DEF RowsOf, InTransaction, After
        <5>8. QED
          BY <5>6, <5>7
      <4>6. QED
        BY <4>4, <4>5
    <3>3. QED
      BY <2>2, <3>1, <3>2
  <2>5. QED
    BY <1>2, <2>1, <2>2, <2>3, <2>m, <2>4, Ways DEF Repeats
<1>3. ASSUME NEW w \in Workers, Acts(w), NEW v \in Workers, v # w PROVE RowsOf(v)'
  <2>1. /\ pc'[v] = pc[v] /\ req'[v] = req[v] /\ rows'[v] = rows[v] /\ seen'[v] = seen[v]
    BY <1>3, OthersStand
  <2>2. \A a \in rows[v] : balance'[a] = balance[a]
    <3>1. rows[v] \subseteq Accounts /\ rows[v] \cap rows[w] = {}
      BY <1>0, <1>3, <1>h DEF TypeOK
    <3>2. QED
      BY <1>3, <3>1, BalanceChange
  <2>3. QED
    BY <1>s, <2>1, <2>2
<1>4. ASSUME NEW w \in Workers, Acts(w)
      PROVE  \A u, v \in Workers : u # v => rows'[u] \cap rows'[v] = {}
  <2>1. \A v \in Workers : v # w => rows'[v] = rows[v]
    BY <1>4, OthersStand
  <2>2. \/ rows'[w] \subseteq rows[w]
        \/ \E a : rows'[w] = rows[w] \cup {a} /\ \A v \in Workers : a \notin rows[v]
    <3>1. CASE ~ReadBalance(w)
      BY <1>0, <1>4, <3>1, RowsChange DEF TypeOK
    <3>2. CASE ReadBalance(w)
      <4>1. PICK a \in Accounts : /\ \A v \in Workers : a \notin rows[v]
                                 /\ rows' = [rows EXCEPT ![w] = @ \cup {a}]
        BY <3>2 DEF ReadBalance
      <4>2. rows'[w] = rows[w] \cup {a}
        BY <1>0, <4>1 DEF TypeOK
      <4>3. QED
        BY <4>1, <4>2
    <3>3. QED
      BY <3>1, <3>2
  <2>3. QED
    BY <1>h, <2>1, <2>2
<1>5. QED
  BY <1>1, <1>2, <1>3, <1>4, <1>h, NobodyMoves, SomebodyMoves

LEMMA ColumnsChange ==
  ASSUME NEW w \in Workers, Acts(w)
  PROVE  /\ UNCHANGED <<refunded, flag, repaid>> \/ Settle(w)
         /\ committed' = committed \/ Settle(w) \/ SetFrozen(w)
         /\ UNCHANGED seenRefunded \/ LockOriginal(w)
         /\ lockedOriginal' \subseteq lockedOriginal \/ LockOriginal(w) \/ Mark(w)
         /\ pc[w] = "original" => LockOriginal(w) \/ Fail(w)
  BY DEF Acts, Step, Receive, CheckFrozen, Find, Lock, LockOriginal, ReadBalance, ReadLimit, Mark,
         MarkFails, LoseCredit, Refuse,
         Settle, AutoReverse, SetFrozen, Fail, Leave, EndTransaction, columns, locals

(* While a refund has its table, nobody changes the columns of its         *)
(* purchase or commits another refund of it.                               *)
LEMMA PurchaseStays ==
  ASSUME IInv, [Next]_vars, NEW v \in lockedOriginal, v \in lockedOriginal', Kind(v) \in Refunds
  PROVE  /\ refunded'[orig[v]] = refunded[orig[v]] /\ flag'[orig[v]] = flag[orig[v]]
         /\ \A u \in committed' \ committed : ~(req[u].kind = "qrRefund" /\ orig[u] = orig[v])
<1>0. TypeOK /\ PlacesOK
  BY DEF IInv
<1>1. CASE HourEnds \/ UNCHANGED vars
  BY <1>1, NobodyMoves
<1>2. ASSUME NEW w \in Workers, Acts(w), ~Settle(w)
      PROVE  /\ refunded' = refunded /\ flag' = flag
             /\ \A u \in committed' \ committed : req[u].kind # "qrRefund"
  <2>1. CASE SetFrozen(w)
    BY <1>2, <2>1, ColumnsChange DEF SetFrozen, Freezes, Kind
  <2>2. CASE ~SetFrozen(w)
    BY <1>2, <2>2, ColumnsChange
  <2>3. QED
    BY <2>1, <2>2
<1>3. ASSUME NEW w \in Workers, Settle(w)
      PROVE  /\ refunded'[orig[v]] = refunded[orig[v]] /\ flag'[orig[v]] = flag[orig[v]]
             /\ \A u \in committed' \ committed : ~(req[u].kind = "qrRefund" /\ orig[u] = orig[v])
  <2>1. /\ committed' = committed \cup {w} /\ pc[w] = "commit"
        /\ lockedOriginal' = lockedOriginal \ {w} /\ MarkRefunded(w)
    BY <1>3 DEF Settle, EndTransaction
  <2>2. v # w
    BY <2>1
  <2>3. CASE Kind(w) \in Refunds
    <3>1. w \in lockedOriginal
      BY <2>1, <2>3 DEF IInv, OriginalsOK
    <3>2. orig[w] # orig[v]
      <4>1. Kind(w) # Kind(v)
        BY <2>2, <2>3, <3>1 DEF IInv, OriginalsOK
      <4>2. Kind(orig[w]) = PurchaseOf(Kind(w)) /\ Kind(orig[v]) = PurchaseOf(Kind(v))
        BY <2>3, <3>1 DEF IInv, OriginalsOK, Refundable, PurchaseExists
      <4>3. QED
        BY <2>3, <4>1, <4>2, PurchaseOfIs DEF Refunds
    <3>3. refunded'[orig[v]] = refunded[orig[v]] /\ flag'[orig[v]] = flag[orig[v]]
      BY <1>0, <2>1, <3>2 DEF MarkRefunded, TypeOK
    <3>4. QED
      BY <2>1, <3>2, <3>3
  <2>4. CASE Kind(w) \notin Refunds
    BY <2>1, <2>4 DEF MarkRefunded, Refunds, Kind
  <2>5. QED
    BY <2>3, <2>4
<1>4. QED
  BY <1>1, <1>2, <1>3, SomebodyMoves

LEMMA StillRefundable ==
  ASSUME IInv, [Next]_vars, NEW v \in lockedOriginal, v \in lockedOriginal', Kind(v) \in Refunds
  PROVE  Refundable(v)'
<1>0. TypeOK /\ PlacesOK /\ TypeOK' /\ PlacesOK'
  BY TypedStep, PlacesStep DEF IInv
<1>1. v \in Workers /\ Kind(v) \in Refunds /\ Refundable(v) /\ pc[v] \in {"balance", "commit"}
  BY <1>0 DEF IInv, OriginalsOK, TypeOK
<1>2. /\ req'[v] = req[v] /\ orig'[v] = orig[v]
      /\ orig[v] \in committed /\ orig[v] \in Workers /\ pc[orig[v]] # "idle"
      /\ req'[orig[v]] = req[orig[v]]
  BY <1>1, Purchased, RequestsStay
<1>3. committed \subseteq committed'
  BY CommittedStay
<1>4. PurchaseExists(v)'
  BY <1>1, <1>2, <1>3 DEF Refundable, PurchaseExists, Kind
<1>5. \A u \in committed' : u \in Workers /\ (u \in committed => req'[u] = req[u] /\ orig'[u] = orig[u])
  BY <1>0, RequestsStay DEF TypeOK, PlacesOK
<1>6. \A u \in committed' \ committed : ~(req'[u].kind = "qrRefund" /\ orig'[u] = orig[v])
  <2>1. \A u \in committed' \ committed : pc[u] = "commit"
    BY CommittedStay
  <2>2. \A u \in committed' \ committed : req'[u] = req[u] /\ orig'[u] = orig[u]
    BY <1>5, <2>1, RequestsStay
  <2>3. QED
    BY <2>2, PurchaseStays
<1>7. CASE Kind(v) = "qrRefund"
  <2>1. \A u \in committed : ~(req[u].kind = "qrRefund" /\ orig[u] = orig[v])
    BY <1>1, <1>7 DEF Refundable, Kind
  <2>2. \A u \in committed' : ~(req'[u].kind = "qrRefund" /\ orig'[u] = orig'[v])
    BY <1>2, <1>5, <1>6, <2>1
  <2>3. QED
    BY <1>1, <1>2, <1>4, <1>7, <2>2 DEF Refundable, Kind, Amount
<1>8. CASE Kind(v) # "qrRefund"
  <2>1. refunded'[orig'[v]] = refunded[orig[v]] /\ flag'[orig'[v]] = flag[orig[v]]
    BY <1>2, PurchaseStays
  <2>2. QED
    BY <1>1, <1>2, <1>4, <1>8, <2>1 DEF Refundable, Kind, Amount
<1>9. QED
  BY <1>7, <1>8

LEMMA TableOfIs ==
  /\ TableOf("posRefund") = "transaction_pos" /\ TableOf("posBuy") = "transaction_pos"
  /\ TableOf("ecomRefund") = "transaction_ecom" /\ TableOf("ecomBuy") = "transaction_ecom"
  /\ TableOf("qrRefund") = "transaction_qrcode" /\ TableOf("qrBuy") = "transaction_qrcode"
  /\ TableOf("reverse") = "other"
<1>1. TableOf("posRefund") = "transaction_pos" /\ TableOf("posBuy") = "transaction_pos"
  BY Zenon DEF TableOf
<1>2. TableOf("ecomRefund") = "transaction_ecom" /\ TableOf("ecomBuy") = "transaction_ecom"
  BY Zenon DEF TableOf
<1>3. TableOf("qrRefund") = "transaction_qrcode" /\ TableOf("qrBuy") = "transaction_qrcode"
  BY Zenon DEF TableOf
<1>4. TableOf("reverse") = "other"
  BY Zenon DEF TableOf
<1>5. QED
  BY <1>1, <1>2, <1>3, <1>4

LEMMA OriginalsStep == IInv /\ [Next]_vars => OriginalsOK'
<1> SUFFICES ASSUME IInv, [Next]_vars PROVE OriginalsOK'
  OBVIOUS
<1>0. /\ TypeOK /\ PlacesOK /\ TypeOK' /\ PlacesOK' /\ OriginalsOK
  BY TypedStep, PlacesStep DEF IInv
<1> DEFINE Placed(v) == Kind(v) \in Refunds => (v \in lockedOriginal <=> pc[v] \in {"balance", "commit"})
           Held(v) == /\ Kind(v) \in Refunds => Refundable(v) /\ seenRefunded[v] = refunded[orig[v]]
                      /\ Kind(v) \notin Refunds => Kind(v) = "reverse" /\ pc[v] = "commit"
           Apart(u, v) == u # v /\ Kind(u) \in Refunds /\ Kind(v) \in Refunds =>
                            TableOf(Kind(u)) # TableOf(Kind(v))
<1>1. ASSUME HourEnds \/ UNCHANGED vars PROVE OriginalsOK'
  <2>1. UNCHANGED <<pc, req, orig, seenRefunded, lockedOriginal, committed, refunded, flag>>
    BY <1>1, NobodyMoves
  <2>2. \A v \in Workers : Refundable(v)' <=> Refundable(v)
    BY <2>1 DEF Refundable, PurchaseExists, Kind, Amount, PurchaseOf
  <2>3. QED
    BY <1>0, <2>1, <2>2 DEF OriginalsOK, Kind, TypeOK
<1>2. ASSUME NEW w \in Workers, Acts(w) PROVE OriginalsOK'
  (* The worker that has just locked its table. *)
  <2>l. ASSUME LockOriginal(w), w \in lockedOriginal', w \notin lockedOriginal
        PROVE  /\ Held(w)' /\ pc'[w] = "balance"
               /\ \A v \in lockedOriginal : Apart(v, w)
    <3>1. /\ Refundable(w) /\ Proceed(w) /\ pc[w] = "original" /\ orig' = orig /\ req' = req
          /\ seenRefunded' = [seenRefunded EXCEPT ![w] = refunded[orig[w]]]
          /\ UNCHANGED <<committed, refunded, flag>>
          /\ \A v \in Workers : ~HasTable(v, Kind(w))
      BY <2>l DEF LockOriginal, EndTransaction, columns, AwaitsTable
    <3>2. Refundable(w)' /\ Kind(w) \in Refunds
      BY <1>0, <3>1 DEF Refundable, PurchaseExists, Kind, Amount, PurchaseOf, PlacesOK
    <3>3. pc' = [pc EXCEPT ![w] = After(Kind(w), "original")]
      BY <1>0, <3>1, Proceeding DEF Underway
    <3>4. Kind(w)' = Kind(w) /\ seenRefunded'[w] = refunded'[orig'[w]] /\ pc'[w] = "balance"
      BY <1>0, <3>1, <3>3 DEF TypeOK, After, Kind
    <3>5. \A v \in lockedOriginal : Apart(v, w)
      BY <1>0, <3>1 DEF HasTable, TypeOK
    <3>6. QED
      BY <3>2, <3>4, <3>5
  (* A reversal that has just marked a row. *)
  <2>k. ASSUME Mark(w)
        PROVE  /\ Kind(w)' = "reverse" /\ pc'[w] = "commit" /\ Kind(w) = "reverse"
               /\ lockedOriginal' \subseteq lockedOriginal \cup {w}
    <3>1. pc[w] = "mark" /\ Proceed(w) /\ req' = req
      BY <2>k DEF Mark, locals
    <3>2. pc' = [pc EXCEPT ![w] = After(Kind(w), "mark")] /\ Kind(w) = "reverse"
      BY <1>0, <3>1, Proceeding DEF Underway, PlacesOK
    <3>3. QED
      BY <1>0, <2>k, <3>1, <3>2 DEF Mark, After, TypeOK, Kind
  <2>1. \A v \in Workers : Placed(v)'
    <3>1. ASSUME NEW v \in Workers, v # w PROVE Placed(v)'
      BY <1>0, <1>2, <3>1, OthersStand DEF OriginalsOK, Kind
    <3>2. Placed(w)'
      <4>0. Placed(w) /\ (w \in lockedOriginal => Kind(w) \in Refunds \/ Kind(w) = "reverse")
        BY <1>0 DEF OriginalsOK
      <4>1. CASE Enters(w)
        <5>1. Kind(w) \notin Refunds /\ Kind(w) # "reverse"
          BY <1>0, <4>1 DEF Enters, PlacesOK, Kind, NoRequest, Refunds
        <5>2. QED
          BY <4>0, <4>1, <5>1 DEF Enters, Entry
      <4>2. CASE Ends(w)
        BY <4>2 DEF Ends
      <4>3. CASE LockOriginal(w)
        <5>1. CASE Refundable(w)
          <6>1. w \in lockedOriginal' /\ w \notin lockedOriginal
            BY <4>0, <4>3, <5>1, <1>0 DEF LockOriginal, PlacesOK
          <6>2. QED
            BY <2>l, <4>3, <6>1
        <5>2. CASE ~Refundable(w)
          BY <1>0, <4>3, <5>2 DEF LockOriginal, EndTransaction, Goto, TypeOK
        <5>3. QED
          BY <5>1, <5>2
      <4>m. CASE Mark(w)
        BY <2>k, <4>m DEF Refunds
      <4>4. CASE ~LockOriginal(w) /\ ~Mark(w) /\ ~Ends(w) /\ (GoesOn(w) \/ Repeats(w))
        <5>1. lockedOriginal' = lockedOriginal /\ pc[w] # "original"
          <6>1. pc[w] # "original"
            BY <1>0, <1>2, <4>4, ColumnsChange DEF Fail, EndTransaction, Goto, Ends, TypeOK
          <6>2. lockedOriginal' = lockedOriginal \/ pc'[w] = "leave"
            BY <1>0, <1>2, <4>4
               DEF Acts, Step, Receive, CheckFrozen, Find, Lock, ReadBalance, ReadLimit, MarkFails,
                   LoseCredit, Refuse, Settle, AutoReverse, SetFrozen, Fail, Leave, EndTransaction,
                   Goto, TypeOK
          <6>3. pc'[w] # "leave"
            BY <4>4 DEF Underway, GoesOn, Repeats, After
          <6>4. QED
            BY <6>1, <6>2, <6>3
        <5>2. Kind(w)' = Kind(w)
          BY <1>2, <4>4, RequestsStay DEF Underway, GoesOn, Repeats
        <5>3. Kind(w) \in Refunds => (pc'[w] \in {"balance", "commit"} <=> pc[w] \in {"balance", "commit"})
          BY <1>0, <4>4, <5>1 DEF Underway, GoesOn, Repeats, After, PlacesOK, Refunds
        <5>4. QED
          BY <4>0, <5>1, <5>2, <5>3
      <4>5. CASE Leave(w)
        <5>1. pc[w] = "leave" /\ pc'[w] = "done" /\ lockedOriginal' = lockedOriginal
          BY <1>0, <4>5 DEF Leave, Goto, TypeOK
        <5>2. Kind(w)' = Kind(w)
          BY <5>1, RequestsStay
        <5>3. QED
          BY <4>0, <5>1, <5>2
      <4>6. QED
        BY <1>2, <4>1, <4>2, <4>3, <4>m, <4>4, <4>5, Ways
    <3>3. QED
      BY <3>1, <3>2
  <2>2. ASSUME NEW v \in lockedOriginal', v \in lockedOriginal
        PROVE  Held(v)' /\ Kind(v)' = Kind(v)
    <3>1. v \in Workers /\ pc[v] \in {"balance", "commit"} /\ Held(v)
      BY <1>0, <2>2 DEF OriginalsOK, TypeOK
    <3>2. Kind(v)' = Kind(v) /\ orig'[v] = orig[v]
      BY <3>1, RequestsStay
    <3>3. CASE Kind(v) \in Refunds
      <4>1. Refundable(v)'
        BY <2>2, <3>3, StillRefundable
      <4>2. seenRefunded'[v] = seenRefunded[v]
        <5>1. CASE v # w
          BY <1>2, <3>1, <5>1, OthersStand
        <5>2. CASE v = w
          BY <1>2, <3>1, <5>2, ColumnsChange DEF LockOriginal
        <5>3. QED
          BY <5>1, <5>2
      <4>3. refunded'[orig[v]] = refunded[orig[v]]
        BY <2>2, <3>3, PurchaseStays
      <4>4. QED
        BY <3>1, <3>2, <3>3, <4>1, <4>2, <4>3
    <3>4. CASE Kind(v) \notin Refunds
      <4>1. v # w
        <5>1. pc[v] = "commit"
          BY <3>1, <3>4
        <5>2. v = w => GoesOn(w) \/ Repeats(w) \/ Ends(w)
          BY <1>2, <5>1, Ways DEF Enters, Leave
        <5>3. QED
          BY <2>2, <5>1, <5>2 DEF Underway, GoesOn, Repeats, Ends
      <4>2. QED
        BY <1>2, <3>1, <3>2, <3>4, <4>1, OthersStand
    <3>5. QED
      BY <3>3, <3>4
  <2>3. CASE lockedOriginal' \subseteq lockedOriginal
    <3>1. \A v \in lockedOriginal' : Held(v)' /\ Kind(v)' = Kind(v)
      BY <2>2, <2>3
    <3>2. \A u, v \in lockedOriginal' : Apart(u, v)'
      <4>1. \A u, v \in lockedOriginal' : Apart(u, v)
        BY <1>0, <2>3 DEF OriginalsOK
      <4>2. \A v \in lockedOriginal' : Kind(v)' = Kind(v)
        BY <3>1
      <4>3. QED
        BY <4>1, <4>2, ZenonT(30) DEF TableOf
    <3>3. QED
      BY <2>1, <3>1, <3>2 DEF OriginalsOK
  <2>4. CASE ~(lockedOriginal' \subseteq lockedOriginal) /\ LockOriginal(w)
    <3>1. w \in lockedOriginal' /\ w \notin lockedOriginal /\ lockedOriginal' \subseteq lockedOriginal \cup {w}
      BY <2>4 DEF LockOriginal, EndTransaction
    <3>2. \A v \in lockedOriginal' : Held(v)'
      BY <2>2, <2>4, <2>l, <3>1
    <3>3. \A v \in lockedOriginal' : Kind(v)' = Kind(v)
      BY <2>4 DEF LockOriginal, Kind
    <3>4. \A u, v \in lockedOriginal' : Apart(u, v)
      BY <1>0, <2>4, <2>l, <3>1 DEF OriginalsOK
    <3>5. \A u, v \in lockedOriginal' : Apart(u, v)'
      BY <3>3, <3>4, ZenonT(30) DEF TableOf
    <3>6. QED
      BY <2>1, <3>2, <3>5 DEF OriginalsOK
  <2>5. CASE ~(lockedOriginal' \subseteq lockedOriginal) /\ Mark(w)
    <3>1. lockedOriginal' \subseteq lockedOriginal \cup {w} /\ Kind(w)' \notin Refunds /\ Kind(w) \notin Refunds
      BY <2>5, <2>k DEF Refunds
    <3>2. \A v \in lockedOriginal' : Held(v)'
      BY <2>2, <2>5, <2>k, <3>1
    <3>3. \A v \in lockedOriginal' : Kind(v)' = Kind(v)
      BY <2>5 DEF Mark, Kind, locals
    <3>4. \A u, v \in lockedOriginal' : Apart(u, v)
      BY <1>0, <3>1 DEF OriginalsOK
    <3>5. \A u, v \in lockedOriginal' : Apart(u, v)'
      BY <3>3, <3>4, ZenonT(30) DEF TableOf
    <3>6. QED
      BY <2>1, <3>2, <3>5 DEF OriginalsOK
  <2>6. QED
    BY <1>2, <2>3, <2>4, <2>5, ColumnsChange
<1>3. QED
  BY <1>1, <1>2, SomebodyMoves

(* What RefundsBounded and RepaidOK say of one purchase. *)
BoundedFor(p) ==
  /\ repaid[p] <= Amount(p)
  /\ Kind(p) # "qrBuy" =>
       /\ refunded[p] = repaid[p]
       /\ flag[p] = "N" <=> RefundsOf(p) = {}
       /\ flag[p] = "RF" => repaid[p] = Amount(p)
       /\ Kind(p) = "posBuy" /\ repaid[p] = Amount(p) => flag[p] = "RF"

IsPurchase(p) == Kind(p) \in {"posBuy", "ecomBuy", "qrBuy"}

RepaidOf(p) ==
  /\ p \notin committed => repaid[p] = 0 /\ refunded[p] = 0 /\ flag[p] = "N"
  /\ ~IsPurchase(p) => repaid[p] = 0
  /\ Kind(p) = "qrBuy" /\ repaid[p] # 0 =>
       \E v \in committed : Kind(v) = "qrRefund" /\ orig[v] = p

LEMMA Bounded ==
  RefundsBounded <=> \A p \in committed : IsPurchase(p) => BoundedFor(p)
  BY DEF RefundsBounded, BoundedFor, IsPurchase

(* A refund settles. *)
LEMMA RefundSettles ==
  ASSUME IInv, [Next]_vars, NEW w \in Workers, Settle(w), Kind(w) \in Refunds,
         NEW p \in Workers, p = orig[w]
  PROVE  BoundedFor(p)' /\ RepaidOf(p)'
<1>0. TypeOK /\ PlacesOK /\ pc[w] = "commit"
  BY DEF IInv, Settle
<1>1. /\ p \in committed /\ pc[p] # "idle" /\ Refundable(w)
      /\ Kind(p) = PurchaseOf(Kind(w)) /\ seenRefunded[w] = refunded[p]
  BY <1>0, Purchased
<1>2. /\ req' = req /\ orig' = orig /\ committed' = committed \cup {w}
      /\ repaid' = [repaid EXCEPT ![p] = @ + Amount(w)] /\ MarkRefunded(w)
  BY DEF Settle, locals
<1>3. Amount(w) \in Int /\ Amount(p) \in Int /\ repaid[p] \in Int /\ refunded[p] \in Int
  BY <1>0, <1>1, Asked DEF TypeOK
<1>4. repaid'[p] = repaid[p] + Amount(w)
  BY <1>0, <1>1, <1>2 DEF TypeOK
<1>5. IsPurchase(p) /\ BoundedFor(p)
  BY <1>1, PurchaseOfIs, Bounded DEF IInv, IsPurchase, Refunds
<1>6. Kind(p)' = Kind(p) /\ Amount(p)' = Amount(p) /\ IsPurchase(p)'
  BY <1>2, <1>5 DEF Kind, Amount, IsPurchase
<1>7. CASE Kind(w) \in {"posRefund", "ecomRefund"}
  <2> DEFINE total == refunded[p] + Amount(w)
  <2>1. PICK f \in FlagsFor(w, total) : /\ refunded' = [refunded EXCEPT ![p] = total]
                                        /\ flag' = [flag EXCEPT ![p] = f]
    <3>1. \E f \in FlagsFor(w, seenRefunded[w] + Amount(w)) :
            /\ refunded' = [refunded EXCEPT ![p] = seenRefunded[w] + Amount(w)]
            /\ flag' = [flag EXCEPT ![p] = f]
      BY <1>2, <1>7 DEF MarkRefunded
    <3>2. QED
      BY <1>1, <3>1
  <2>2. /\ f = "RF" => total = Amount(p)
        /\ f \in {"PR", "RF"}
        /\ Kind(w) = "posRefund" /\ total = Amount(p) => f = "RF"
    BY DEF FlagsFor
  <2>3. /\ Kind(p) # "qrBuy" /\ refunded[p] = repaid[p]
        /\ Kind(w) = "posRefund" <=> Kind(p) = "posBuy"
    BY <1>1, <1>5, <1>7, PurchaseOfIs DEF BoundedFor
  <2>4. total <= Amount(p)
    BY <1>1, <1>3, <1>7 DEF Refundable
  <2>5. refunded'[p] = total /\ repaid'[p] = total /\ flag'[p] = f
    BY <1>0, <1>4, <2>1, <2>3 DEF TypeOK
  <2>6. w \in RefundsOf(p)'
    BY <1>2 DEF RefundsOf, Kind
  <2>7. BoundedFor(p)'
    <3> HIDE DEF total
    <3>1. QED
      BY <1>6, <2>2, <2>3, <2>4, <2>5, <2>6 DEF BoundedFor
  <2>8. RepaidOf(p)'
    BY <1>1, <1>2, <1>6, <2>3 DEF RepaidOf
  <2>9. QED
    BY <2>7, <2>8
<1>8. CASE Kind(w) = "qrRefund"
  <2>1. Kind(p) = "qrBuy" /\ Amount(w) <= Amount(p) /\ repaid[p] = 0
    BY <1>1, <1>8, PurchaseOfIs DEF Refundable, IInv, RepaidOK
  <2>2. BoundedFor(p)'
    BY <1>3, <1>4, <1>6, <2>1 DEF BoundedFor
  <2>3. RepaidOf(p)'
    <3>1. w \in committed' /\ Kind(w)' = "qrRefund" /\ orig'[w] = p
      BY <1>2, <1>8 DEF Kind
    <3>2. QED
      BY <1>1, <1>2, <1>6, <2>1, <3>1 DEF RepaidOf
  <2>4. QED
    BY <2>2, <2>3
<1>9. QED
  BY <1>7, <1>8 DEF Refunds

(* Every refund in the tables is of a purchase in the tables; so the       *)
(* refunds of a purchase are the same until another of it settles.         *)
LEMMA RefundsStay ==
  ASSUME IInv, [Next]_vars
  PROVE  /\ \A v \in committed' : Kind(v)' \in Refunds => orig'[v] \in committed
         /\ \A p : (\A w \in Workers : Settle(w) => Kind(w) \notin Refunds \/ orig[w] # p)
                     => RefundsOf(p)' = RefundsOf(p)
<1>0. /\ TypeOK /\ PlacesOK /\ TypeOK'
      /\ \A v \in committed : Kind(v) \in Refunds => orig[v] \in committed
  BY TypedStep DEF IInv, RepaidOK
<1>1. committed \subseteq committed' /\ committed' \subseteq Workers
      /\ \A v \in committed' : pc[v] # "idle"
  BY <1>0, CommittedStay DEF TypeOK, PlacesOK
<1>2. \A v \in committed' : Kind(v)' = Kind(v) /\ orig'[v] = orig[v]
  BY <1>1, RequestsStay
<1>3. \A v \in committed' \ committed : Kind(v) \in Refunds => Settle(v) /\ orig[v] \in committed
  <2>1. CASE HourEnds \/ UNCHANGED vars
    BY <2>1, NobodyMoves
  <2>2. ASSUME NEW w \in Workers, Acts(w)
        PROVE  \A v \in committed' \ committed : Kind(v) \in Refunds => Settle(v) /\ orig[v] \in committed
    <3>1. CASE Settle(w)
      <4>1. pc[w] = "commit" /\ committed' = committed \cup {w}
        BY <3>1 DEF Settle
      <4>2. Kind(w) \in Refunds => orig[w] \in committed
        BY <4>1, Purchased
      <4>3. QED
        BY <3>1, <4>1, <4>2
    <3>2. CASE SetFrozen(w)
      BY <3>2 DEF SetFrozen, Freezes, Refunds
    <3>3. CASE ~Settle(w) /\ ~SetFrozen(w)
      BY <2>2, <3>3, ColumnsChange
    <3>4. QED
      BY <3>1, <3>2, <3>3
  <2>3. QED
    BY <2>1, <2>2, SomebodyMoves
<1>4. \A v \in committed' : Kind(v)' \in Refunds => orig'[v] \in committed
  BY <1>0, <1>2, <1>3
<1>5. ASSUME NEW p, \A w \in Workers : Settle(w) => Kind(w) \notin Refunds \/ orig[w] # p
      PROVE  RefundsOf(p)' = RefundsOf(p)
  <2>1. \A v \in committed' \ committed : ~(Kind(v) \in Refunds /\ orig[v] = p)
    BY <1>1, <1>3, <1>5
  <2>2. QED
    BY <1>1, <1>2, <2>1 DEF RefundsOf
<1>6. QED
  BY <1>4, <1>5

LEMMA RefundsStep == IInv /\ [Next]_vars => RepaidOK' /\ RefundsBounded'
<1> SUFFICES ASSUME IInv, [Next]_vars PROVE RepaidOK' /\ RefundsBounded'
  OBVIOUS
<1>0. /\ TypeOK /\ PlacesOK /\ TypeOK' /\ PlacesOK' /\ committed' \subseteq Workers
  BY TypedStep, PlacesStep DEF IInv, TypeOK
<1>g. SUFFICES \A p \in Workers : RepaidOf(p)' /\ (p \in committed' /\ IsPurchase(p)' => BoundedFor(p)')
  <2>1. (\A p \in Workers : RepaidOf(p)') => RepaidOK'
    BY RefundsStay, CommittedStay DEF RepaidOK, RepaidOf, IsPurchase, Kind
  <2>2. (\A p \in committed' : IsPurchase(p)' => BoundedFor(p)') => RefundsBounded'
    BY DEF RefundsBounded, BoundedFor, IsPurchase
  <2>3. QED
    BY <1>0, <2>1, <2>2
<1>h. \A p \in Workers : RepaidOf(p) /\ (p \in committed /\ IsPurchase(p) => BoundedFor(p))
  <2>1. \A p \in Workers : RepaidOf(p)
    BY DEF IInv, RepaidOK, RepaidOf, IsPurchase
  <2>2. QED
    BY <2>1, Bounded DEF IInv
(* A purchase whose columns are left alone. *)
<1>s. ASSUME NEW p \in Workers, repaid'[p] = repaid[p], refunded'[p] = refunded[p], flag'[p] = flag[p],
             \A w \in Workers : Settle(w) => Kind(w) \notin Refunds \/ orig[w] # p
      PROVE  RepaidOf(p)' /\ (p \in committed' /\ IsPurchase(p)' => BoundedFor(p)')
  <2>0. RefundsOf(p)' = RefundsOf(p)
    BY <1>s, RefundsStay
  <2>1. \A v \in committed : v \in committed' /\ v \in Workers /\ pc[v] # "idle"
    BY <1>0, CommittedStay DEF PlacesOK, TypeOK
  <2>2. \A v \in committed : Kind(v)' = Kind(v) /\ Amount(v)' = Amount(v) /\ orig'[v] = orig[v]
    BY <2>1, RequestsStay
  <2>3. CASE p \in committed
    <3>1. Kind(p)' = Kind(p) /\ Amount(p)' = Amount(p) /\ p \in committed' /\ IsPurchase(p)' = IsPurchase(p)
      BY <2>1, <2>2, <2>3 DEF IsPurchase
    <3>2. RepaidOf(p) /\ (IsPurchase(p) => BoundedFor(p))
      BY <1>h, <2>3
    <3>3. (\E v \in committed : Kind(v) = "qrRefund" /\ orig[v] = p)
            => \E v \in committed' : Kind(v)' = "qrRefund" /\ orig'[v] = p
      BY <2>1, <2>2
    <3>4. IsPurchase(p)' => BoundedFor(p)'
      BY <1>s, <2>0, <3>1, <3>2 DEF BoundedFor
    <3>5. RepaidOf(p)'
      BY <1>s, <3>1, <3>2, <3>3 DEF RepaidOf
    <3>6. QED
      BY <3>4, <3>5
  <2>4. CASE p \notin committed
    <3>1. repaid'[p] = 0 /\ refunded'[p] = 0 /\ flag'[p] = "N"
      BY <1>h, <1>s, <2>4 DEF RepaidOf
    <3>2. RepaidOf(p)'
      BY <3>1 DEF RepaidOf
    <3>3. RefundsOf(p) = {}
      BY <2>4 DEF IInv, RepaidOK, RefundsOf
    <3>4. ASSUME p \in committed', IsPurchase(p)' PROVE BoundedFor(p)'
      <4>1. pc[p] # "idle"
        BY <2>4, <3>4, CommittedStay
      <4>2. Kind(p)' = Kind(p) /\ Amount(p)' = Amount(p)
        BY <4>1, RequestsStay
      <4>3. Amount(p)' \in Int /\ Amount(p)' > 0
        BY <1>0, <3>4, <4>1, <4>2, Asked DEF IsPurchase
      <4>4. QED
        BY <2>0, <3>1, <3>3, <4>3 DEF BoundedFor
    <3>5. QED
      BY <3>2, <3>4
  <2>5. QED
    BY <2>3, <2>4
<1>1. CASE HourEnds \/ UNCHANGED vars
  <2>1. \A w \in Workers : ~Settle(w)
    BY <1>0, <1>1, NobodyMoves DEF Settle, EndTransaction, Goto, TypeOK
  <2>2. QED
    BY <1>1, <1>s, <2>1, NobodyMoves
<1>2. ASSUME NEW w \in Workers, Acts(w), NEW p \in Workers
      PROVE  RepaidOf(p)' /\ (p \in committed' /\ IsPurchase(p)' => BoundedFor(p)')
  <2>0. \A v \in Workers : Settle(v) => v = w
    <3>1. ASSUME NEW v \in Workers, Settle(v), v # w PROVE FALSE
      <4>1. pc[v] = "commit" /\ pc'[v] = "leave"
        BY <1>0, <3>1 DEF Settle, EndTransaction, Goto, TypeOK
      <4>2. QED
        BY <1>2, <3>1, <4>1, OthersStand
    <3>2. QED
      BY <3>1
  <2>1. CASE ~Settle(w)
    BY <1>2, <1>s, <2>0, <2>1, ColumnsChange
  <2>2. CASE Settle(w) /\ (Kind(w) \notin Refunds \/ p # orig[w])
    <3>1. repaid'[p] = repaid[p]
      BY <1>0, <2>2 DEF Settle, TypeOK
    <3>2. refunded'[p] = refunded[p] /\ flag'[p] = flag[p]
      <4>0. MarkRefunded(w)
        BY <2>2 DEF Settle
      <4>1. CASE Kind(w) \in {"posRefund", "ecomRefund"}
        <5>1. p # orig[w] /\ orig[w] \in Workers
          BY <1>0, <2>2, <4>1 DEF Refunds, TypeOK
        <5>2. /\ refunded' = [refunded EXCEPT ![orig[w]] = seenRefunded[w] + Amount(w)]
              /\ \E f : flag' = [flag EXCEPT ![orig[w]] = f]
          BY <4>0, <4>1 DEF MarkRefunded
        <5>3. refunded \in [Workers -> Int] /\ flag \in [Workers -> {"N", "PR", "RF"}]
          BY <1>0 DEF TypeOK
        <5>4. QED
          BY <5>1, <5>2, <5>3
      <4>2. CASE Kind(w) \notin {"posRefund", "ecomRefund"}
        BY <4>0, <4>2 DEF MarkRefunded
      <4>3. QED
        BY <4>1, <4>2
    <3>3. QED
      BY <1>s, <2>0, <2>2, <3>1, <3>2
  <2>3. CASE Settle(w) /\ Kind(w) \in Refunds /\ p = orig[w]
    BY <2>3, RefundSettles
  <2>4. QED
    BY <2>1, <2>2, <2>3
<1>3. QED
  BY <1>1, <1>2, SomebodyMoves

LEMMA UsageChange ==
  ASSUME NEW w \in Workers, Acts(w)
  PROVE  UNCHANGED <<usage, hourly>> \/ Settle(w)
  BY DEF Acts, Step, Receive, CheckFrozen, Find, Lock, LockOriginal, ReadBalance, ReadLimit, Mark,
         MarkFails, LoseCredit, Refuse, Settle, AutoReverse, SetFrozen, Fail, Leave, columns

LEMMA ChargeTyped ==
  ASSUME IInv, NEW w \in Workers, pc[w] # "idle"
  PROVE  Charge(w) \in Int
  BY Asked DEF IInv, Charge

(* Two requests past their limits that count in one window have locked     *)
(* their accounts: these differ.                                           *)
LEMMA LimitedApart ==
  ASSUME IInv, NEW v \in Workers, NEW w \in Workers, v # w,
         PastLimit(v), PastLimit(w),
         NEW b \in BucketsOf(Kind(v)), b \in BucketsOf(Kind(w))
  PROVE  req[v].acc # req[w].acc
<1>1. \A u \in {v, w} : PastLimit(u) => req[u].acc \in holds[u]
  <2>1. SUFFICES ASSUME NEW u \in Workers, PastLimit(u) PROVE req[u].acc \in holds[u]
    OBVIOUS
  <2>2. PastLock(u) /\ Kind(u) # "posRefund"
    BY <2>1 DEF PastLimit, PastLock
  <2>3. holds[u] = ToLock(u)
    BY <2>2 DEF IInv, HoldsOK
  <2>4. QED
    BY <2>2, <2>3, ToLockIs
<1>2. holds[v] \cap holds[w] = {}
  BY DEF IInv, HoldsOK
<1>3. QED
  BY <1>1, <1>2

(* A negative amount once sent stays in the tables.                        *)
LEMMA SentNegativeStays ==
  ASSUME IInv, [Next]_vars, NEW a, SentNegative(a)
  PROVE  SentNegative(a)'
<1>1. PICK w \in committed : Kind(w) = "transfer" /\ req[w].acc = a /\ Amount(w) < 0
  BY DEF SentNegative
<1>2. w \in Workers /\ w \in committed' /\ pc[w] # "idle"
  BY CommittedStay DEF IInv, TypeOK, PlacesOK
<1>3. req'[w] = req[w] /\ Kind(w)' = Kind(w) /\ Amount(w)' = Amount(w)
  BY <1>2, RequestsStay
<1>4. QED
  BY <1>1, <1>2, <1>3 DEF SentNegative

(* The oldest row of the last hour is a transfer in the tables.            *)
LEMMA Oldest ==
  ASSUME IInv, NEW a \in Accounts, HourPasses(a)
  PROVE  /\ Amount(Head(hourly[a])) \in Int
         /\ SentNegative(a) \/ Amount(Head(hourly[a])) >= 0
<1> DEFINE w == Head(hourly[a])
<1>1. hourly[a] \in Seq(Workers) /\ hourly[a] # <<>>
  BY DEF IInv, TypeOK, HourPasses
<1>2. w = hourly[a][1] /\ 1 \in 1..Len(hourly[a]) /\ w \in Workers
  BY <1>1
<1>3. w \in committed /\ Kind(w) = "transfer" /\ req[w].acc = a
  BY <1>2 DEF IInv, HourlyOK
<1>4. Amount(w) \in Int
  BY <1>2, <1>3, Asked DEF IInv, PlacesOK
<1>5. QED
  BY <1>3, <1>4 DEF SentNegative

LEMMA HourlyStep == IInv /\ [Next]_vars => HourlyOK'
<1> SUFFICES ASSUME IInv, [Next]_vars, NEW a \in Accounts, NEW i \in 1..Len(hourly'[a])
             PROVE  /\ hourly'[a][i] \in committed' /\ req'[hourly'[a][i]].kind = "transfer"
                    /\ req'[hourly'[a][i]].acc = a
  BY DEF HourlyOK, Kind
<1> DEFINE Row(w) == w \in committed /\ Kind(w) = "transfer" /\ req[w].acc = a
<1>0. /\ TypeOK /\ PlacesOK /\ hourly[a] \in Seq(Workers)
      /\ \A j \in 1..Len(hourly[a]) : Row(hourly[a][j])
  BY DEF IInv, TypeOK, HourlyOK
<1>s. ASSUME NEW w, Row(w) PROVE w \in committed' /\ req'[w].kind = "transfer" /\ req'[w].acc = a
  <2>1. w \in Workers /\ w \in committed' /\ pc[w] # "idle"
    BY <1>0, <1>s, CommittedStay DEF TypeOK, PlacesOK
  <2>2. QED
    BY <1>s, <2>1, RequestsStay DEF Kind
<1>1. CASE hourly'[a] = hourly[a]
  BY <1>0, <1>1, <1>s
<1>2. ASSUME NEW w \in Workers, Settle(w), hourly'[a] # hourly[a]
      PROVE  /\ hourly'[a][i] \in committed' /\ req'[hourly'[a][i]].kind = "transfer"
             /\ req'[hourly'[a][i]].acc = a
  <2>1. /\ Kind(w) = "transfer" /\ req[w].acc = a /\ hourly'[a] = Append(hourly[a], w)
        /\ w \in committed' /\ req' = req
    BY <1>0, <1>2 DEF Settle, locals, TypeOK
  <2>2. req'[w].kind = "transfer" /\ req'[w].acc = a
    BY <2>1 DEF Kind
  <2>3. hourly'[a][i] = w \/ (i \in 1..Len(hourly[a]) /\ hourly'[a][i] = hourly[a][i])
    BY <1>0, <2>1
  <2>4. QED
    BY <1>0, <1>s, <2>1, <2>2, <2>3
<1>3. CASE HourEnds \/ UNCHANGED vars
  <2>1. hourly'[a] = hourly[a] \/ (hourly[a] # <<>> /\ hourly'[a] = Tail(hourly[a]))
    <3>1. CASE UNCHANGED vars
      BY <3>1 DEF vars, columns
    <3>2. ASSUME NEW c \in Accounts, HourPasses(c)
          PROVE  hourly'[a] = hourly[a] \/ (hourly[a] # <<>> /\ hourly'[a] = Tail(hourly[a]))
      <4>1. hourly' = [hourly EXCEPT ![c] = Tail(@)] /\ hourly[c] # <<>>
        BY <3>2 DEF HourPasses
      <4>2. QED
        BY <1>0, <4>1 DEF TypeOK
    <3>3. QED
      BY <1>3, <3>1, <3>2 DEF HourEnds
  <2>2. CASE hourly[a] # <<>> /\ hourly'[a] = Tail(hourly[a])
    <3>1. i + 1 \in 1..Len(hourly[a]) /\ hourly'[a][i] = hourly[a][i + 1]
      BY <1>0, <2>2
    <3>2. QED
      BY <1>0, <1>s, <3>1
  <2>3. QED
    BY <1>1, <2>1, <2>2
<1>4. QED
  BY <1>1, <1>2, <1>3, UsageChange, SomebodyMoves

(* What LimitsKept says of one account. *)
Daily == {"atmOut", "atmIn", "mobileDay"}

KeptFor(a) ==
  /\ \A b \in Daily : usage[b][a] <= Limit[b]
  /\ usage["mobileHour"][a] <= Limit["mobileHour"] \/ SentNegative(a)

LEMMA Kept == LimitsKept <=> \A a \in Accounts : KeptFor(a)
  BY DEF LimitsKept, KeptFor, SentNegative, Daily

LEMMA LimitsStep == IInv /\ [Next]_vars => LimitsOK'
<1> SUFFICES ASSUME IInv, [Next]_vars
             PROVE  /\ \A a \in Accounts : KeptFor(a)'
                    /\ \A v \in Workers : PastLimit(v)' =>
                         \A b \in BucketsOf(Kind(v))' : Fits(b, req[v].acc, Charge(v))'
  BY DEF LimitsOK, LimitsKept, KeptFor, SentNegative, Daily
<1>0. /\ TypeOK /\ PlacesOK /\ TypeOK' /\ PlacesOK'
      /\ \A a \in Accounts : KeptFor(a)
      /\ \A v \in Workers : PastLimit(v) =>
           \A b \in BucketsOf(Kind(v)) : Fits(b, req[v].acc, Charge(v))
  BY TypedStep, PlacesStep, Kept DEF IInv, LimitsOK
<1>l. \A b \in Buckets : Limit[b] \in Int
  BY SettlementAssumption DEF SettlementAssumption
<1>u. \A b \in Buckets, a \in Accounts : usage[b][a] \in Int /\ usage'[b][a] \in Int
  BY <1>0 DEF TypeOK
(* An account none of whose sums grows, but for the hour's if it has sent  *)
(* a negative amount.                                                      *)
<1>k. ASSUME NEW a \in Accounts,
             \A b \in Buckets : usage'[b][a] <= usage[b][a] \/ (b = "mobileHour" /\ SentNegative(a))
      PROVE  KeptFor(a)'
  <2>1. \A b \in Daily : usage'[b][a] <= Limit[b]
    BY <1>0, <1>k, <1>l, <1>u DEF KeptFor, Daily, Buckets
  <2>2. SentNegative(a) \/ usage'["mobileHour"][a] <= Limit["mobileHour"]
    BY <1>0, <1>k, <1>l, <1>u DEF KeptFor, Buckets
  <2>3. QED
    BY <2>1, <2>2, SentNegativeStays DEF KeptFor
(* A request whose place is as it was, and whose windows have not grown.   *)
<1>s. ASSUME NEW v \in Workers, PastLimit(v), req'[v] = req[v],
             \A b \in BucketsOf(Kind(v)) :
               usage'[b][req[v].acc] <= usage[b][req[v].acc]
                 \/ (b = "mobileHour" /\ SentNegative(req[v].acc))
      PROVE  \A b \in BucketsOf(Kind(v))' : Fits(b, req[v].acc, Charge(v))'
  <2>1. Charge(v) \in Int /\ Charge(v)' = Charge(v) /\ Kind(v)' = Kind(v)
    BY <1>s, ChargeTyped DEF PastLimit, Charge, Kind, Amount, WithFee
  <2>2. req[v].acc \in Accounts /\ BucketsOf(Kind(v)) \subseteq Buckets
    BY <1>0, <1>s, Asked, BucketsOfIs DEF PastLimit, Buckets
  <2>3. ASSUME NEW b \in BucketsOf(Kind(v)) PROVE Fits(b, req[v].acc, Charge(v))'
    <3>1. CASE b = "mobileHour" /\ SentNegative(req[v].acc)
      BY <1>s, <3>1, SentNegativeStays DEF Fits
    <3>2. CASE ~(b = "mobileHour" /\ SentNegative(req[v].acc))
      <4>1. usage[b][req[v].acc] + Charge(v) <= Limit[b]
        BY <1>0, <1>s, <3>2 DEF Fits
      <4>2. usage'[b][req[v].acc] <= usage[b][req[v].acc]
        BY <1>s, <3>2
      <4>3. usage'[b][req'[v].acc] + Charge(v)' <= Limit[b]
        BY <1>l, <1>s, <1>u, <2>1, <2>2, <4>1, <4>2
      <4>4. QED
        BY <4>3 DEF Fits
    <3>3. QED
      BY <3>1, <3>2
  <2>4. QED
    BY <2>1, <2>3 DEF BucketsOf
<1>1. CASE HourEnds \/ UNCHANGED vars
  <2>1. ASSUME NEW b \in Buckets, NEW a \in Accounts
        PROVE  usage'[b][a] <= usage[b][a] \/ (b = "mobileHour" /\ SentNegative(a))
    <3>1. CASE UNCHANGED vars
      BY <1>u, <3>1 DEF vars, columns
    <3>2. ASSUME NEW c \in Accounts, HourPasses(c)
          PROVE  usage'[b][a] <= usage[b][a] \/ (b = "mobileHour" /\ SentNegative(a))
      <4> DEFINE n == Amount(Head(hourly[c]))
      <4>1. n \in Int /\ (SentNegative(c) \/ n >= 0)
        BY <3>2, Oldest
      <4>2. usage' = [usage EXCEPT !["mobileHour"][c] = @ - n]
        BY <3>2 DEF HourPasses
      <4>3. usage'[b][a] = IF b = "mobileHour" /\ a = c THEN usage[b][a] - n ELSE usage[b][a]
        BY <1>0, <4>2 DEF TypeOK
      <4> HIDE DEF n
      <4>4. QED
        BY <1>u, <4>1, <4>3
    <3>3. QED
      BY <1>1, <3>1, <3>2 DEF HourEnds
  <2>2. ASSUME NEW v \in Workers, PastLimit(v)'
        PROVE  \A b \in BucketsOf(Kind(v))' : Fits(b, req[v].acc, Charge(v))'
    <3>1. req'[v] = req[v] /\ pc'[v] = pc[v]
      BY <1>1, NobodyMoves
    <3>2. PastLimit(v)
      BY <2>2, <3>1 DEF PastLimit, Kind
    <3>3. req[v].acc \in Accounts /\ BucketsOf(Kind(v)) \subseteq Buckets
      BY <1>0, <3>2, Asked, BucketsOfIs DEF PastLimit, Buckets
    <3>4. QED
      BY <1>s, <2>1, <3>1, <3>2, <3>3
  <2>3. QED
    BY <1>k, <2>1, <2>2
<1>2. ASSUME NEW w \in Workers, Acts(w)
      PROVE  /\ \A a \in Accounts : KeptFor(a)'
             /\ \A v \in Workers : PastLimit(v)' =>
                  \A b \in BucketsOf(Kind(v))' : Fits(b, req[v].acc, Charge(v))'
  <2>1. CASE ~Settle(w)
    <3>1. usage' = usage
      BY <1>2, <2>1, UsageChange
    <3>2. \A a \in Accounts : KeptFor(a)'
      BY <1>k, <1>u, <3>1
    <3>3. ASSUME NEW v \in Workers, PastLimit(v)'
          PROVE  \A b \in BucketsOf(Kind(v))' : Fits(b, req[v].acc, Charge(v))'
      <4>1. CASE PastLimit(v) /\ req'[v] = req[v]
        <5>1. req[v].acc \in Accounts /\ BucketsOf(Kind(v)) \subseteq Buckets
          BY <1>0, <4>1, Asked, BucketsOfIs DEF PastLimit, Buckets
        <5>2. QED
          BY <1>s, <1>u, <3>1, <4>1, <5>1
      <4>2. CASE v # w
        BY <1>2, <3>3, <4>1, <4>2, OthersStand DEF PastLimit, Kind
      <4>3. CASE v = w /\ ~PastLimit(w)
        <5>1. GoesOn(w) \/ Repeats(w)
          BY <1>0, <1>2, <3>3, <4>3, Ways DEF PastLimit, Enters, Entry, Ends, Leave, Goto, TypeOK
        <5>2. Kind(w)' = Kind(w) /\ req' = req
          BY <1>2, <5>1, Ways DEF Underway, GoesOn, Repeats, Receive, Kind
        <5>3. pc[w] = "limit"
          BY <1>0, <3>3, <4>3, <5>1, <5>2
             DEF PastLimit, Underway, GoesOn, Repeats, After, PlacesOK, Refunds
        <5>4. pc'[w] # "leave"
          BY <3>3, <4>3 DEF PastLimit
        <5>5. WithinLimits(w)
          BY <1>0, <1>2, <5>3, <5>4, RowsChange DEF ReadLimit, Fail, EndTransaction, Goto, TypeOK
        <5>6. Charge(w)' = Charge(w)
          BY <5>2 DEF Kind, Charge, Amount, WithFee
        <5>7. QED
          BY <3>1, <4>3, <5>2, <5>5, <5>6 DEF WithinLimits, Fits, BucketsOf
      <4>4. CASE v = w /\ PastLimit(w)
        <5>1. req'[w] = req[w]
          BY <4>4, RequestsStay DEF PastLimit
        <5>2. QED
          BY <4>1, <4>4, <5>1
      <4>5. QED
        BY <4>2, <4>3, <4>4
    <3>4. QED
      BY <3>2, <3>3
  <2>2. CASE Settle(w)
    <3>1. /\ pc[w] = "commit" /\ pc'[w] = "leave" /\ req' = req
          /\ usage' = [b \in Buckets |-> [a \in Accounts |->
                         usage[b][a] + IF b \in BucketsOf(Kind(w)) /\ a = req[w].acc
                                       THEN Charge(w) ELSE 0]]
      BY <1>0, <2>2 DEF Settle, EndTransaction, Goto, locals, TypeOK
    <3>2. Charge(w) \in Int /\ req[w].acc \in Accounts
      BY <1>0, <3>1, ChargeTyped, Asked
    <3>3. \A b \in Buckets, a \in Accounts :
            usage'[b][a] = IF b \in BucketsOf(Kind(w)) /\ a = req[w].acc
                           THEN usage[b][a] + Charge(w) ELSE usage[b][a]
      BY <1>u, <3>1
    <3>4. ASSUME NEW a \in Accounts PROVE KeptFor(a)'
      <4>1. ASSUME NEW b \in Daily \cup {"mobileHour"}
            PROVE  usage'[b][a] <= Limit[b] \/ (b = "mobileHour" /\ SentNegative(a))
        <5>0. b \in Buckets
          BY DEF Daily, Buckets
        <5>1. CASE b \in BucketsOf(Kind(w)) /\ a = req[w].acc
          <6>1. PastLimit(w)
            BY <3>1, <4>1, <5>1, BucketsOfIs DEF PastLimit, Daily
          <6>2. Fits(b, a, Charge(w))
            BY <1>0, <5>1, <6>1
          <6>3. QED
            BY <3>3, <5>0, <5>1, <6>2 DEF Fits
        <5>2. CASE ~(b \in BucketsOf(Kind(w)) /\ a = req[w].acc)
          <6>1. usage'[b][a] = usage[b][a]
            BY <3>3, <5>0, <5>2
          <6>2. QED
            BY <1>0, <6>1 DEF KeptFor, Daily
        <5>3. QED
          BY <5>1, <5>2
      <4>2. QED
        BY <4>1, SentNegativeStays DEF KeptFor, Daily
    <3>5. ASSUME NEW v \in Workers, PastLimit(v)'
          PROVE  \A b \in BucketsOf(Kind(v))' : Fits(b, req[v].acc, Charge(v))'
      <4>1. v # w
        BY <3>1, <3>5 DEF PastLimit
      <4>2. PastLimit(v) /\ req'[v] = req[v]
        BY <1>2, <3>5, <4>1, OthersStand DEF PastLimit, Kind
      <4>3. req[v].acc \in Accounts /\ BucketsOf(Kind(v)) \subseteq Buckets
        BY <1>0, <4>2, Asked, BucketsOfIs DEF PastLimit, Buckets
      <4>4. ASSUME NEW b \in BucketsOf(Kind(v))
            PROVE  usage'[b][req[v].acc] <= usage[b][req[v].acc]
        <5>1. b \in BucketsOf(Kind(w)) => req[v].acc # req[w].acc
          <6>1. Kind(v) \in {"withdraw", "deposit", "transfer"}
            BY <4>2 DEF PastLimit
          <6>2. b \in BucketsOf(Kind(w)) => PastLimit(w)
            BY <3>1, <4>4, <6>1, BucketsOfIs DEF PastLimit
          <6>3. QED
            BY <4>1, <4>2, <6>2, LimitedApart
        <5>2. usage'[b][req[v].acc] = usage[b][req[v].acc]
          BY <3>3, <4>3, <5>1
        <5>3. QED
          BY <1>u, <4>3, <5>2
      <4>5. QED
        BY <1>s, <4>2, <4>4
    <3>6. QED
      BY <3>4, <3>5
  <2>3. QED
    BY <2>1, <2>2
<1>3. QED
  BY <1>1, <1>2, SomebodyMoves

(* What overdraws an account stays in the tables.                          *)
LEMMA TakenStays ==
  ASSUME IInv, [Next]_vars, NEW a, TakenUnasked(a) # {}
  PROVE  TakenUnasked(a)' # {}
<1>1. PICK w \in committed : /\ Kind(w) \notin Debits \cup Freezes /\ Credited(w) < 0
                             /\ a = IF Kind(w) = "transfer" THEN req[w].to ELSE req[w].acc
  BY DEF TakenUnasked
<1>2. w \in Workers /\ w \in committed' /\ pc[w] # "idle" /\ PlacesOK /\ TypeOK
  BY CommittedStay DEF IInv, TypeOK, PlacesOK
<1>3. req'[w] = req[w] /\ orig'[w] = orig[w] /\ Kind(w)' = Kind(w) /\ Amount(w)' = Amount(w)
  BY <1>2, RequestsStay
<1>4. Kind(w) = "posRefund" => req'[orig[w]] = req[orig[w]]
  <2>1. Kind(w) = "posRefund" => orig[w] \in committed
    BY <1>1 DEF IInv, RepaidOK, Refunds
  <2>2. \A v \in committed : v \in Workers /\ pc[v] # "idle"
    BY <1>2 DEF TypeOK, PlacesOK
  <2>3. QED
    BY <2>1, <2>2, RequestsStay
<1>5. Credited(w)' = Credited(w)
  <2>1. WithFee(w)' = WithFee(w)
    BY <1>3 DEF WithFee
  <2>2. CASE Kind(w) = "posRefund"
    BY <1>3, <1>4, <2>2, Zenon DEF Credited, Amount, Kind
  <2>3. CASE Kind(w) = "reverse"
    BY <1>3, <2>1, <2>3, Zenon DEF Credited
  <2>4. CASE Kind(w) \notin {"posRefund", "reverse"}
    BY <1>3, <2>4, Zenon DEF Credited
  <2>5. QED
    BY <2>2, <2>3, <2>4
<1>6. QED
  BY <1>1, <1>2, <1>3, <1>5 DEF TakenUnasked

LEMMA FundsStep == IInv /\ [Next]_vars => NoOverdraft'
<1> SUFFICES ASSUME IInv, [Next]_vars, NEW a \in Accounts, balance'[a] < 0
             PROVE  TakenUnasked(a)' # {}
  BY DEF NoOverdraft
<1>0. balance[a] < 0 => TakenUnasked(a)' # {}
  BY TakenStays DEF IInv, NoOverdraft
<1>1. CASE HourEnds \/ UNCHANGED vars
  BY <1>0, <1>1, NobodyMoves
<1>2. ASSUME NEW w \in Workers, Acts(w) PROVE TakenUnasked(a)' # {}
  <2>1. CASE Settle(w) /\ a \in AccountsOf(w)
    <3>1. /\ balance'[a] = Written(w, a) /\ pc[w] = "commit" /\ Affordable(w)
          /\ w \in committed' /\ req' = req /\ orig' = orig /\ Kind(w) \notin Freezes
      BY <2>1 DEF Settle, locals
    <3>2. /\ Written(w, a) \in Int /\ balance[a] \in Int
          /\ Kind(w) = "transfer" /\ a = req[w].to => Written(w, a) = balance[a] + Amount(w)
          /\ Kind(w) \in Debits \/ (Kind(w) = "transfer" /\ a # req[w].to) => Written(w, a) >= 0
          /\ Kind(w) \notin Debits \cup {"transfer"} => Written(w, a) = balance[a] + Credited(w)
      BY <2>1, <3>1, WrittenIs
    <3>3. Credited(w) \in Int /\ (Kind(w) = "posRefund" => Credited(w) > 0)
      BY <3>1, CreditTyped
    <3>4. Kind(w) = "transfer" => Credited(w) = Amount(w)
      BY CreditedIs
    <3>5. balance[a] < 0 \/ Credited(w) < 0
      BY <3>1, <3>2, <3>3, <3>4
    <3>6. Kind(w) \notin Debits /\ (Kind(w) = "transfer" => a = req[w].to)
      BY <3>1, <3>2
    <3>7. CASE Credited(w) < 0
      <4>1. a = IF Kind(w) = "transfer" THEN req[w].to ELSE req[w].acc
        BY <2>1, <3>3, <3>6, <3>7, AccountsOfIs
      <4>2. Kind(w)' = Kind(w) /\ Credited(w)' = Credited(w)
        BY <3>1 DEF Kind, Credited, Amount, WithFee
      <4>3. w \in TakenUnasked(a)'
        BY <3>1, <3>6, <3>7, <4>1, <4>2 DEF TakenUnasked
      <4>4. QED
        BY <4>3
    <3>8. QED
      BY <1>0, <3>5, <3>7
  <2>2. CASE ~(Settle(w) /\ a \in AccountsOf(w))
    <3>1. Settle(w) => rows[w] = AccountsOf(w)
      BY DEF Settle, IInv, RowsOK
    <3>2. QED
      BY <1>0, <1>2, <2>2, <3>1, BalanceChange
  <2>3. QED
    BY <2>1, <2>2
<1>3. QED
  BY <1>1, <1>2, SomebodyMoves

LEMMA FewStep == IInv /\ [Next]_vars => FewReceived'
<1> SUFFICES ASSUME IInv, [Next]_vars PROVE FewReceived'
  OBVIOUS
<1> DEFINE Received == {w \in Workers : pc[w] # "idle"}
<1>0. IsFiniteSet(Received)
  BY DEF IInv, FewReceived
<1>1. CASE HourEnds \/ UNCHANGED vars
  BY <1>0, <1>1, NobodyMoves DEF FewReceived
<1>2. ASSUME NEW w \in Workers, Acts(w) PROVE FewReceived'
  <2>1. Received' \subseteq Received \cup {w}
    BY <1>2, OthersStand
  <2> HIDE DEF Received
  <2>2. IsFiniteSet(Received \cup {w})
    BY <1>0, FS_AddElement
  <2>3. IsFiniteSet(Received')
    BY <2>1, <2>2, FS_Subset
  <2>4. QED
    BY <2>3 DEF FewReceived, Received
<1>3. QED
  BY <1>1, <1>2, SomebodyMoves

LEMMA InitOK == Init => IInv
<1> SUFFICES ASSUME Init PROVE IInv
  OBVIOUS
<1> USE SettlementAssumption DEF SettlementAssumption
<1>1. TypeOK
  BY DEF Init, TypeOK
<1>2. PlacesOK
  BY DEF Init, PlacesOK, Kind
<1>3. RowsOK
  BY DEF Init, RowsOK, InTransaction
<1>4. HoldsOK
  BY DEF Init, HoldsOK, PastLock
<1>5. OriginalsOK
  BY DEF Init, OriginalsOK, Kind, NoRequest, Refunds
<1>6. RepaidOK
  BY DEF Init, RepaidOK
<1>7. LimitsOK /\ HourlyOK /\ FoundOK
  <2>1. LimitsKept
    BY DEF Init, LimitsKept, Buckets
  <2>2. HourlyOK /\ FoundOK
    BY DEF Init, HourlyOK, FoundOK
  <2>3. QED
    BY <2>1, <2>2 DEF Init, LimitsOK, PastLimit
<1>8. FewReceived
  <2>1. {w \in Workers : pc[w] # "idle"} = {}
    BY DEF Init
  <2>2. QED
    BY <2>1, FS_EmptySet DEF FewReceived
<1>9. RefundsBounded
  BY DEF Init, RefundsBounded
<1>10. NoOverdraft
  BY DEF Init, NoOverdraft
<1>11. QED
  BY <1>1, <1>2, <1>3, <1>4, <1>5, <1>6, <1>7, <1>8, <1>9, <1>10 DEF IInv

LEMMA StepOK == IInv /\ [Next]_vars => IInv'
  BY TypedStep, PlacesStep, RowsStep, HoldsStep, FoundStep, OriginalsStep, RefundsStep, LimitsStep,
     HourlyStep, FewStep, FundsStep DEF IInv

LEMMA Invariance == Spec => []IInv
  BY InitOK, StepOK, PTL DEF Spec

(***************************************************************************)
(* Safety                                                                  *)
(***************************************************************************)

(* The state of the money operations keeps its type.                       *)
THEOREM TypeCorrect == Spec => []TypeOK
<1>1. IInv => TypeOK
  BY DEF IInv
<1>2. QED
  BY <1>1, Invariance, PTL

(* No interleaving of debits, fees, transfers and credits overdraws an     *)
(* account, unless a credit of a negative amount was booked to it: whoever *)
(* writes a balance has it locked since it read it, and only such a credit *)
(* takes without having compared.                                          *)
THEOREM NeverOverdrawn == Spec => []NoOverdraft
<1>1. IInv => NoOverdraft
  BY DEF IInv
<1>2. QED
  BY <1>1, Invariance, PTL

(* The ATM and mobile limits hold although the SUM is read before the row  *)
(* is written: the engine's lock on the account is held in between.  The   *)
(* hourly one holds in every window, as rows leave it one by one, of an    *)
(* account that has sent no negative amount.                               *)
THEOREM WithinTheLimits == Spec => []LimitsKept
<1>1. IInv => LimitsKept
  BY DEF IInv, LimitsOK
<1>2. QED
  BY <1>1, Invariance, PTL

(* However many refunds of a purchase run at once, of whatever sign, they  *)
(* return no more than its amount, and its columns say how much; the flag  *)
(* says so as far as a comparison of doubles can.                          *)
THEOREM RefundsWithinPurchase == Spec => []RefundsBounded
<1>1. IInv => RefundsBounded
  BY DEF IInv
<1>2. QED
  BY <1>1, Invariance, PTL

(***************************************************************************)
(* The requests under way are never all blocked                            *)
(***************************************************************************)

(* Of finitely many requests, each with an account it waits for, one waits *)
(* for the highest.                                                        *)
LEMMA HighestAwaited ==
  ASSUME NEW S, IsFiniteSet(S), S # {}, NEW f \in [S -> Nat]
  PROVE  \E s \in S : \A t \in S : f[t] <= f[s]
<1> DEFINE Above(s) == {t \in S : f[t] >= f[s]}
           F == {Above(s) : s \in S}
<1>1. F \subseteq SUBSET S /\ F # {}
  <2>1. PICK s \in S : TRUE
    OBVIOUS
  <2>2. Above(s) \in F
    BY <2>1
  <2>3. \A y \in F : y \subseteq S
    OBVIOUS
  <2>4. QED
    BY <2>2, <2>3
<1>2. PICK x \in F : \A y \in F : y \subseteq x => y = x
  <2> HIDE DEF F
  <2>1. QED
    BY <1>1, SmallestSet
<1>3. PICK s \in S : x = Above(s)
  BY <1>2
<1>4. ASSUME NEW t \in S PROVE f[t] <= f[s]
  <2>1. SUFFICES ASSUME f[t] > f[s] PROVE FALSE
    OBVIOUS
  <2>2. Above(t) \subseteq Above(s)
    BY <2>1
  <2>3. s \in Above(s) /\ s \notin Above(t)
    BY <2>1
  <2>4. QED
    BY <1>2, <1>3, <2>2, <2>3
<1>5. QED
  BY <1>4

(* A refund that commits waits for nobody, nor does a reversal.            *)
LEMMA CommitsUnblocked ==
  ASSUME IInv, NEW v \in lockedOriginal, pc[v] = "commit"
  PROVE  v \in Workers /\ Active(v) /\ ~Blocked(v)
<1>0. v \in Workers /\ OriginalsOK
  BY DEF IInv, TypeOK
<1>1. ASSUME NEW u \in Workers, u # v, HasTable(u, Kind(v)) PROVE FALSE
  <2>1. u \in lockedOriginal /\ Kind(u) \in Refunds /\ TableOf(Kind(u)) = TableOf(Kind(v))
    BY <1>1 DEF HasTable
  <2>2. Kind(v) \notin Refunds
    BY <1>0, <1>1, <2>1 DEF OriginalsOK
  <2>3. Kind(v) = "reverse"
    BY <1>0, <2>2 DEF OriginalsOK
  <2>4. QED
    BY <2>1, <2>3, TableOfIs DEF Refunds
<1>2. QED
  BY <1>0, <1>1 DEF Active, Blocked, AwaitsTable, AwaitsRow

(* Who has a row has locked its account, but for a POS refund that found   *)
(* none.                                                                   *)
LEMMA RowsHeld ==
  ASSUME IInv, NEW x \in Workers, NEW a \in rows[x]
  PROVE  /\ a \in AccountsOf(x) /\ pc[x] \in InTransaction
         /\ a \in holds[x] \/ (Kind(x) = "posRefund" /\ found[x] = {})
<1>0. TypeOK /\ PlacesOK /\ RowsOK /\ HoldsOK /\ FoundOK
  BY DEF IInv
<1>1. pc[x] \in InTransaction
  BY <1>0 DEF RowsOK
<1>2. a \in AccountsOf(x) /\ (pc[x] = "limit" => Kind(x) \in {"withdraw", "transfer"})
  BY <1>0, <1>1 DEF RowsOK, InTransaction
<1>3. holds[x] = ToLock(x)
  <2>1. PastLock(x)
    BY <1>1, <1>2 DEF PastLock, InTransaction
  <2>2. QED
    BY <1>0, <2>1 DEF HoldsOK
<1>4. CASE Kind(x) = "posRefund" /\ found[x] # {}
  <2>1. found[x] = {req[orig[x]].acc}
    BY <1>0, <1>4 DEF FoundOK
  <2>2. QED
    BY <1>1, <1>2, <1>3, <1>4, <2>1, ToLockIs, AccountsOfIs
<1>5. CASE Kind(x) # "posRefund"
  BY <1>1, <1>2, <1>3, <1>5 DEF ToLock
<1>6. QED
  BY <1>1, <1>2, <1>4, <1>5

(* A POS refund has no row before it has all: it needs one.                *)
LEMMA RefundsRow ==
  ASSUME IInv, NEW x \in Workers, Kind(x) = "posRefund", rows[x] # {}
  PROVE  x \in lockedOriginal /\ pc[x] = "commit"
<1>0. TypeOK /\ PlacesOK /\ RowsOK /\ OriginalsOK
  BY DEF IInv
<1>1. pc[x] \in InTransaction /\ AccountsOf(x) = {req[orig[x]].acc}
  BY <1>0, AccountsOfIs DEF RowsOK
<1>2. pc[x] \in {"balance", "commit"}
  BY <1>0, <1>1 DEF InTransaction, PlacesOK
<1>3. pc[x] # "balance"
  BY <1>0, <1>1 DEF RowsOK
<1>4. QED
  BY <1>0, <1>2, <1>3 DEF OriginalsOK, Refunds

LEMMA SomeoneGoesOn == IInv => NoStandstill
<1> SUFFICES ASSUME IInv, \E w \in Workers : Active(w), \A w \in Workers : Active(w) => Blocked(w),
                    \A u, w \in Workers : ~(Kind(u) = "posRefund" /\ found[u] = {} /\ Deadlocked(u, w))
             PROVE  FALSE
  BY DEF NoStandstill
<1>0. TypeOK /\ PlacesOK /\ RowsOK /\ HoldsOK /\ OriginalsOK /\ FoundOK
  BY DEF IInv
<1>a. Accounts \subseteq Nat
  BY SettlementAssumption DEF SettlementAssumption
<1>f. ASSUME NEW l, l # "idle" PROVE IsFiniteSet({w \in Workers : pc[w] = l})
  <2> DEFINE Received == {w \in Workers : pc[w] # "idle"}
  <2>1. IsFiniteSet(Received) /\ {w \in Workers : pc[w] = l} \subseteq Received
    BY <1>f DEF IInv, FewReceived
  <2> HIDE DEF Received
  <2>2. QED
    BY <2>1, FS_Subset
<1>c. \A v \in lockedOriginal : pc[v] # "commit"
  BY CommitsUnblocked
<1>r. \A x \in Workers : Kind(x) = "posRefund" => rows[x] = {}
  BY <1>c, RefundsRow
<1>h. \A x \in Workers : rows[x] \subseteq holds[x] /\ (rows[x] # {} => pc[x] \in InTransaction)
  BY <1>r, RowsHeld
(* Who waits for a balance row has not locked the account.                 *)
<1>1. ASSUME NEW w \in Workers, pc[w] = "balance"
      PROVE  /\ Kind(w) = "posRefund" /\ found[w] = {} /\ w \in lockedOriginal
             /\ \E v \in Workers : AwaitsRow(w, v)
  <2>1. PICK v \in Workers : AwaitsRow(w, v)
    BY <1>1 DEF Active, Blocked, AwaitsTable
  <2>2. PICK a \in rows[v] : NextOf(a, AccountsOf(w), rows[w])
    BY <2>1 DEF AwaitsRow
  <2>3. a \in AccountsOf(w) /\ a \notin rows[w] /\ v # w /\ a \in holds[v]
    BY <1>h, <2>2 DEF NextOf
  <2>4. a \notin holds[w]
    BY <1>0, <2>3 DEF HoldsOK
  <2>5. holds[w] = ToLock(w)
    BY <1>0, <1>1 DEF HoldsOK, PastLock
  <2>6. Kind(w) = "posRefund"
    BY <2>3, <2>4, <2>5 DEF ToLock
  <2>7. found[w] = {}
    <3>1. found[w] # {} => found[w] = {req[orig[w]].acc}
      BY <1>0 DEF FoundOK
    <3>2. AccountsOf(w) = {req[orig[w]].acc} /\ ToLock(w) = found[w]
      BY <2>6, AccountsOfIs, ToLockIs
    <3>3. QED
      BY <2>3, <2>4, <2>5, <3>1, <3>2
  <2>8. w \in lockedOriginal
    BY <1>0, <1>1, <2>6 DEF OriginalsOK, Refunds
  <2>9. QED
    BY <2>1, <2>6, <2>7, <2>8
(* Nobody has marked a row, and only such a refund has locked a table.     *)
<1>t. /\ \A u \in lockedOriginal : pc[u] = "balance" /\ Kind(u) = "posRefund"
      /\ \A u, v \in lockedOriginal : u = v
  <2>1. \A u \in lockedOriginal : u \in Workers /\ pc[u] \in {"balance", "commit"}
    BY <1>0 DEF OriginalsOK, TypeOK
  <2>2. \A u \in lockedOriginal : pc[u] = "balance" /\ Kind(u) = "posRefund"
    BY <1>1, <1>c, <2>1
  <2>3. QED
    BY <1>0, <2>2 DEF OriginalsOK, Refunds
<1>w. \A w, u \in Workers : AwaitsTable(w, u) => u \in lockedOriginal
  BY DEF AwaitsTable, HasTable, HasMarked
(* Nobody waits for a balance row: the one who has it waits for the table  *)
(* of the one who waits, a deadlock of the kind excepted.                  *)
<1>2. \A w \in Workers : pc[w] # "balance"
  <2>1. SUFFICES ASSUME NEW w \in Workers, pc[w] = "balance" PROVE FALSE
    OBVIOUS
  <2>2. PICK x \in Workers : AwaitsRow(w, x)
    BY <1>1, <2>1
  <2>3. rows[x] # {} /\ pc[x] \in InTransaction
    BY <1>h, <2>2 DEF AwaitsRow
  <2>4. pc[x] # "balance"
    BY <1>1, <1>r, <2>3
  <2>5. PICK u \in Workers : AwaitsTable(x, u)
    BY <2>3, <2>4 DEF InTransaction, Active, Blocked, AwaitsRow
  <2>6. u = w
    BY <1>1, <1>t, <1>w, <2>1, <2>5
  <2>7. Deadlocked(w, x)
    BY <2>2, <2>5, <2>6 DEF Deadlocked
  <2>8. QED
    BY <1>1, <2>1, <2>7
(* So nobody has locked a table or a row in one, and nobody waits for any. *)
<1>5. \A w, u \in Workers : ~AwaitsTable(w, u)
  BY <1>2, <1>t, <1>w
(* So all wait in the engine, and one of them for the highest account.     *)
<1>3. \A w \in Workers : pc[w] # "lock"
  <2> DEFINE W == {w \in Workers : pc[w] = "lock"}
             Awaited(w, a) == NextOf(a, ToLock(w), holds[w]) /\ \E v \in Workers : a \in holds[v]
             f == [w \in W |-> CHOOSE a \in Accounts : Awaited(w, a)]
  <2>1. SUFFICES ASSUME W # {} PROVE FALSE
    OBVIOUS
  <2>2. \A w \in W : f[w] \in Accounts /\ Awaited(w, f[w])
    <3>1. ASSUME NEW w \in W PROVE \E a \in Accounts : Awaited(w, a)
      BY <1>5, <3>1 DEF Active, Blocked, AwaitsRow
    <3> HIDE DEF Awaited
    <3>2. QED
      BY <3>1
  <2>3. PICK s \in W : \A t \in W : f[t] <= f[s]
    <3>1. IsFiniteSet(W)
      BY <1>f
    <3>2. f \in [W -> Nat]
      <4>1. \A w \in W : f[w] \in Nat
        BY <1>a, <2>2
      <4> HIDE DEF W, Awaited
      <4>2. QED
        BY <4>1
    <3> HIDE DEF W, f
    <3>3. QED
      BY <2>1, <3>1, <3>2, HighestAwaited
  <2>4. PICK v \in Workers : f[s] \in holds[v]
    BY <2>2
  <2>5. v \in W
    <3>1. pc[v] \notin {"idle", "done"} /\ Blocked(v)
      BY <1>0, <2>4 DEF HoldsOK, Active
    <3>2. QED
      BY <1>2, <1>5, <3>1 DEF Blocked, AwaitsRow
  <2>6. f[v] \in ToLock(v) \ holds[v]
    BY <2>2, <2>5 DEF NextOf
  <2>7. f[s] < f[v]
    BY <1>0, <2>4, <2>5, <2>6 DEF HoldsOK
  <2>8. f[v] <= f[s] /\ f[v] \in Nat /\ f[s] \in Nat
    <3> HIDE DEF f, W, Awaited
    <3>1. QED
      BY <1>a, <2>2, <2>3, <2>5
  <2> HIDE DEF f
  <2>9. QED
    BY <2>7, <2>8
<1>4. QED
  BY <1>2, <1>3, <1>5 DEF Blocked, AwaitsRow

(* Whatever they lock and in whatever order they came, of the requests     *)
(* under way one can go on, or a POS refund that has locked no account     *)
(* waits for a row of one that waits for its table: all others take        *)
(* account locks, upwards, before tables and balance rows.                 *)
THEOREM NeverAllBlocked == Spec => []NoStandstill
  BY Invariance, SomeoneGoesOn, PTL

(* Who waits for a balance row of another and has locked a table is a POS  *)
(* refund that found no account to lock: the other holds the account.      *)
LEMMA DeadlockedBy ==
  ASSUME IInv, NEW u \in Workers, NEW w \in Workers, pc[w] = "mark", Deadlocked(u, w)
  PROVE  Kind(u) = "posRefund" /\ found[u] = {}
<1>0. PlacesOK /\ HoldsOK /\ FoundOK /\ OriginalsOK
  BY DEF IInv
<1>1. PICK a \in rows[w] : NextOf(a, AccountsOf(u), rows[u])
  BY DEF Deadlocked, AwaitsRow
<1>2. pc[u] = "balance" /\ a \in AccountsOf(u) /\ u # w
  BY <1>1 DEF Deadlocked, AwaitsRow, NextOf
<1>3. a \in holds[w]
  <2>1. Kind(w) # "posRefund"
    BY <1>0 DEF PlacesOK
  <2>2. QED
    BY <1>1, <2>1, RowsHeld
<1>4. a \notin holds[u] /\ holds[u] = ToLock(u)
  BY <1>0, <1>2, <1>3 DEF HoldsOK, PastLock
<1>5. Kind(u) = "posRefund"
  BY <1>2, <1>4 DEF ToLock
<1>6. found[u] # {} => found[u] = {req[orig[u]].acc}
  BY <1>0 DEF FoundOK
<1>7. AccountsOf(u) = {req[orig[u]].acc} /\ ToLock(u) = found[u]
  BY <1>5, AccountsOfIs, ToLockIs
<1>8. QED
  BY <1>2, <1>4, <1>5, <1>6, <1>7

(* Who is told REVERSED has been credited, unless the reversal met a POS   *)
(* refund without an account: every other transaction that holds a table   *)
(* has locked its account in the engine, and waits for no row of one that  *)
(* has locked the same.                                                    *)
THEOREM ReversalsAreTold == Spec => ReversedIsCredited
<1>1. ASSUME IInv, [Next]_vars, NEW w \in reversed' \ reversed
      PROVE  \/ w \in committed'
             \/ \E u \in Workers : Kind(u) = "posRefund" /\ found[u] = {} /\ Deadlocked(u, w)
  <2>1. PICK v \in Workers : Settle(v) \/ LoseCredit(v)
    BY <1>1 DEF Next, Step, vars, locals, Receive, CheckFrozen, Find, Lock, LockOriginal, ReadBalance,
                ReadLimit, Mark, MarkFails, Refuse, SetFrozen, Leave, AutoReverse, Fail, HourPasses, Finished
  <2>2. CASE Settle(v)
    BY <1>1, <2>2 DEF Settle, Answered
  <2>3. CASE LoseCredit(v)
    <3>1. w = v /\ pc[v] = "mark" /\ \E u \in Workers : Deadlocked(u, v)
      BY <1>1, <2>3 DEF LoseCredit
    <3>2. QED
      BY <1>1, <3>1, DeadlockedBy
  <2>4. QED
    BY <2>1, <2>2, <2>3
<1>2. IInv /\ [Next]_vars =>
        [\A w \in reversed' \ reversed :
           \/ w \in committed'
           \/ \E u \in Workers : Kind(u) = "posRefund" /\ found[u] = {} /\ Deadlocked(u, w)]_vars
  BY <1>1
<1>3. QED
  BY <1>2, Invariance, PTL DEF Spec, ReversedIsCredited

(***************************************************************************)
(* The refinement                                                          *)
(***************************************************************************)

LEMMA IncomingIs ==
  ASSUME NEW w
  PROVE  /\ Kind(w) \in {"deposit", "ecomRefund", "qrRefund", "transfer"} => Abstract!Incoming(w) = Amount(w)
         /\ Kind(w) = "posRefund" => Abstract!Incoming(w) = Amount(w) - req[orig[w]].fee
         /\ Kind(w) = "reverse" => Abstract!Incoming(w) = WithFee(w)
         /\ Kind(w) \notin {"deposit", "ecomRefund", "qrRefund", "transfer", "posRefund", "reverse"} =>
              Abstract!Incoming(w) = 0
<1>1. CASE Kind(w) \in {"deposit", "ecomRefund", "qrRefund", "transfer"}
  BY <1>1, Zenon DEF Abstract!Incoming, Kind, Amount
<1>2. CASE Kind(w) = "posRefund"
  BY <1>2, Zenon DEF Abstract!Incoming, Kind, Amount
<1>3. CASE Kind(w) = "reverse"
  BY <1>3, Zenon DEF Abstract!Incoming, Kind, WithFee
<1>4. CASE Kind(w) \notin {"deposit", "ecomRefund", "qrRefund", "transfer", "posRefund", "reverse"}
  BY <1>4, Zenon DEF Abstract!Incoming, Kind
<1>5. QED
  BY <1>1, <1>2, <1>3, <1>4

LEMMA PayeeIs ==
  ASSUME NEW w
  PROVE  /\ Kind(w) = "transfer" => Abstract!Payee(w) = req[w].to
         /\ Kind(w) = "posRefund" => Abstract!Payee(w) = req[orig[w]].acc
         /\ Kind(w) \notin {"transfer", "posRefund"} => Abstract!Payee(w) = req[w].acc
  BY Zenon DEF Abstract!Payee, Kind

(* A request that settles posts: what it writes is the balance of that     *)
(* moment with what goes out and what comes in.                            *)
LEMMA SettlePosts ==
  ASSUME IInv, NEW w \in Workers, Settle(w)
  PROVE  Abstract!Post(w)
<1>0. TypeOK /\ PlacesOK /\ pc[w] = "commit" /\ Affordable(w) /\ Kind(w) \notin Freezes
  BY DEF IInv, Settle
<1>1. /\ Kind(w) \in Kinds /\ req[w].acc \in Accounts /\ req[w].to \in Accounts
      /\ Amount(w) \in Int /\ req[w].fee \in Int
      /\ WithFee(w) \in Int /\ WithFee(w) = Amount(w) + req[w].fee
  BY <1>0, Asked
<1>2. /\ w \notin committed
      /\ req[w].kind \in {"posBuy", "ecomBuy", "qrBuy", "iccw", "reverse"} => req[w].amount > 0
  BY <1>0, Asked DEF PlacesOK, Kind, Amount
<1>3. \A a \in AccountsOf(w) : seen[w][a] = balance[a] /\ a \in Accounts
  BY <1>0, WrittenIs
<1>4. \A a \in Accounts : balance[a] \in Int
  BY <1>0 DEF TypeOK
<1>5. /\ committed' = committed \cup {w} /\ UNCHANGED <<req, orig>>
      /\ balance' = [a \in Accounts |-> IF a \in AccountsOf(w) THEN Written(w, a) ELSE balance[a]]
  BY DEF Settle, locals
<1> DEFINE out == Abstract!Outgoing(w)
           in == Abstract!Incoming(w)
           pays == Abstract!Pays(w) => balance[Abstract!Payer(w)] >= req[w].amount + req[w].fee
           Posted(a) == balance[a] - (IF a = Abstract!Payer(w) THEN out ELSE 0)
                                   + (IF a = Abstract!Payee(w) THEN in ELSE 0)
<1>6. CASE Kind(w) \in Debits
  <2>1. /\ out = WithFee(w) /\ in = 0
        /\ Abstract!Payer(w) = req[w].acc /\ Abstract!Payee(w) = req[w].acc
    BY <1>1, <1>6, IncomingIs, PayeeIs
       DEF Debits, Abstract!Outgoing, Abstract!OwnTransfer, Abstract!Payer, Abstract!Pays, Kind, Amount
  <2>2. AccountsOf(w) = {req[w].acc}
    BY <1>6, AccountsOfIs DEF Debits
  <2>3. Written(w, req[w].acc) = balance[req[w].acc] - WithFee(w) /\ balance[req[w].acc] >= WithFee(w)
    BY <1>0, <1>3, <1>6, <2>2 DEF Written, Debits, Affordable
  <2>4. \A a \in Accounts : Posted(a) = IF a \in AccountsOf(w) THEN Written(w, a) ELSE balance[a]
    BY <1>1, <1>4, <2>1, <2>2, <2>3
  <2>5. pays /\ req[w].kind # "posRefund"
    BY <1>1, <1>6, <2>1, <2>3 DEF Debits, Kind, Amount
  <2>6. QED
    BY <1>2, <1>5, <2>4, <2>5 DEF Abstract!Post
<1>7. CASE Kind(w) = "transfer" /\ req[w].acc # req[w].to
  <2>1. /\ out = WithFee(w) /\ in = Amount(w)
        /\ Abstract!Payer(w) = req[w].acc /\ Abstract!Payee(w) = req[w].to
    BY <1>1, <1>7, IncomingIs, PayeeIs
       DEF Abstract!Outgoing, Abstract!OwnTransfer, Abstract!Payer, Abstract!Pays, Kind, Amount
  <2>2. AccountsOf(w) = {req[w].acc, req[w].to}
    BY <1>7, AccountsOfIs
  <2>3. /\ Written(w, req[w].acc) = balance[req[w].acc] - WithFee(w)
        /\ balance[req[w].acc] >= WithFee(w)
        /\ Written(w, req[w].to) = balance[req[w].to] + Amount(w)
    BY <1>0, <1>3, <1>7, <2>2 DEF Written, Affordable
  <2>4. \A a \in Accounts : Posted(a) = IF a \in AccountsOf(w) THEN Written(w, a) ELSE balance[a]
    BY <1>1, <1>4, <1>7, <2>1, <2>2, <2>3
  <2>5. pays /\ req[w].kind # "posRefund"
    BY <1>1, <1>7, <2>1, <2>3 DEF Kind, Amount
  <2>6. QED
    BY <1>2, <1>5, <2>4, <2>5 DEF Abstract!Post
<1>8. CASE Kind(w) = "transfer" /\ req[w].acc = req[w].to
  <2>1. /\ out = 0 /\ in = Amount(w) /\ Abstract!OwnTransfer(w)
        /\ Abstract!Payer(w) = req[w].acc /\ Abstract!Payee(w) = req[w].acc
    BY <1>1, <1>8, IncomingIs, PayeeIs
       DEF Abstract!Outgoing, Abstract!OwnTransfer, Abstract!Payer, Kind, Amount
  <2>2. AccountsOf(w) = {req[w].acc}
    BY <1>8, AccountsOfIs
  <2>3. /\ Written(w, req[w].acc) = balance[req[w].acc] + Amount(w)
        /\ balance[req[w].acc] >= req[w].amount + req[w].fee
    BY <1>0, <1>3, <1>8, <2>2 DEF Written, Affordable, WithFee
  <2>4. \A a \in Accounts : Posted(a) = IF a \in AccountsOf(w) THEN Written(w, a) ELSE balance[a]
    BY <1>1, <1>4, <2>1, <2>2, <2>3
  <2>5. pays /\ req[w].kind # "posRefund"
    BY <1>1, <1>8, <2>1, <2>3 DEF Kind, Amount
  <2>6. QED
    BY <1>2, <1>5, <2>4, <2>5 DEF Abstract!Post
<1>9. CASE Kind(w) \in Refunds \cup {"deposit", "reverse"}
  <2>1. PICK x \in Accounts : AccountsOf(w) = {x} /\ Abstract!Payee(w) = x
    <3>1. CASE Kind(w) = "posRefund"
      BY <1>0, <3>1, AccountsOfIs, PayeeIs, AccountsTyped DEF InTransaction
    <3>2. CASE Kind(w) # "posRefund"
      BY <1>1, <1>9, <3>2, AccountsOfIs, PayeeIs DEF Refunds
    <3>3. QED
      BY <3>1, <3>2
  <2>2. in = Credited(w)
    BY <1>9, IncomingIs, CreditedIs DEF Refunds
  <2>3. out = 0 /\ ~Abstract!Pays(w)
    BY <1>9 DEF Abstract!Outgoing, Abstract!Pays, Kind, Refunds
  <2>4. Credited(w) \in Int /\ (Kind(w) = "posRefund" => Credited(w) > 0)
    BY <1>0, CreditTyped
  <2>5. Written(w, x) = balance[x] + Credited(w)
    BY <1>3, <1>9, <2>1 DEF Written, Debits, Refunds
  <2>6. \A a \in Accounts : Posted(a) = IF a \in AccountsOf(w) THEN Written(w, a) ELSE balance[a]
    BY <1>4, <2>1, <2>2, <2>3, <2>4, <2>5
  <2>7. QED
    BY <1>2, <1>5, <2>2, <2>3, <2>4, <2>6 DEF Abstract!Post, Kind
<1>10. QED
  BY <1>0, <1>1, <1>6, <1>7, <1>8, <1>9 DEF Kinds

(* Every behaviour of the channels is, under posted <- committed, one of   *)
(* Bank: each request posts once, in one step, by exactly what it asks     *)
(* for, and a step before or after its commit moves no money.              *)
THEOREM Refinement == Spec => ImplementsBank
<1>1. Init => Abstract!Init
  BY DEF Init, Abstract!Init
<1>2. ASSUME IInv, [Next]_vars PROVE [Abstract!Next]_Abstract!vars
  <2>0. TypeOK /\ PlacesOK
    BY <1>2 DEF IInv
  <2>1. CASE HourEnds \/ UNCHANGED vars
    BY <2>1, NobodyMoves DEF Abstract!vars
  <2>2. ASSUME NEW w \in Workers, Acts(w) PROVE [Abstract!Next]_Abstract!vars
    <3>1. CASE Receive(w)
      <4>1. w \notin committed
        BY <2>0, <3>1 DEF Receive, PlacesOK
      <4>2. \A v \in Workers \ {w} : req'[v] = req[v] /\ orig'[v] = orig[v]
        BY <1>2, <2>2, OthersStand
      <4>3. Abstract!Ask(w)
        BY <3>1, <4>1, <4>2 DEF Receive, Abstract!Ask
      <4>4. QED
        BY <4>3 DEF Abstract!Next
    <3>2. CASE Settle(w)
      BY <1>2, <3>2, SettlePosts DEF Abstract!Next
    <3>3. CASE SetFrozen(w)
      <4>1. /\ w \notin committed /\ Kind(w) \in Freezes /\ committed' = committed \cup {w}
            /\ UNCHANGED <<balance, req, orig>>
        BY <2>0, <3>3 DEF SetFrozen, PlacesOK, locals
      <4>2. /\ Abstract!Incoming(w) = 0 /\ Abstract!Outgoing(w) = 0 /\ ~Abstract!Pays(w)
            /\ req[w].kind \in Freezes
        BY <4>1, IncomingIs DEF Freezes, Abstract!Outgoing, Abstract!Pays, Kind
      <4>3. balance' = [a \in Accounts |-> balance[a] - (IF a = Abstract!Payer(w) THEN 0 ELSE 0)
                                                      + (IF a = Abstract!Payee(w) THEN 0 ELSE 0)]
        BY <2>0, <4>1 DEF TypeOK
      <4>4. Abstract!Post(w)
        BY <4>1, <4>2, <4>3 DEF Abstract!Post, Freezes
      <4>5. QED
        BY <4>4 DEF Abstract!Next
    <3>4. CASE ~Receive(w) /\ ~Settle(w) /\ ~SetFrozen(w)
      BY <1>2, <2>2, <3>4, Ways, BalanceChange, ColumnsChange DEF Abstract!vars
    <3>5. QED
      BY <3>1, <3>2, <3>3, <3>4
  <2>3. QED
    BY <1>2, <2>1, <2>2, SomebodyMoves
<1>3. QED
  BY <1>1, <1>2, Invariance, PTL DEF Spec, Abstract!Spec, ImplementsBank
=============================================================================
