------------------------------- MODULE Ledger -------------------------------
(***************************************************************************)
(* The double-entry ledger (accounting.cpp), written within the database   *)
(* transaction of a purchase or refund.  Transactions of one customer      *)
(* exclude each other, by the account lock and the account's row; those of *)
(* different customers meet at the ledger accounts of the merchant and of  *)
(* the bank.                                                               *)
(*                                                                         *)
(* The database is InnoDB at its default, REPEATABLE READ: a plain SELECT  *)
(* reads the view of the transaction, which the first such SELECT takes;   *)
(* INSERT and UPDATE go to the rows as they are, and wait for a row that   *)
(* another transaction has inserted or changed until that one ends.        *)
(*                                                                         *)
(* Money is counted in cents.  The columns are DECIMAL(15,2): what a       *)
(* request asks below a cent is rounded leg by leg, and that is left out.  *)
(***************************************************************************)
EXTENDS Integers, Sequences, FiniteSets, Functions

CONSTANTS
  Workers,         \* threads that run a channel's task
  Customers,       \* their ledger accounts carry the account's number
  Merchants,
  NoMerchant,      \* an empty merchantId
  FeeRevenue,      \* BANK_FEE_REV
  FxRevenue,       \* BANK_FX_REV
  Requests,        \* purchases and refunds (the inputs)
  MaxTransactions, \* how many transactions begin (a bound)
  MaxRefusals      \* how many of them the database refuses (a bound)

Ledgers == Customers \cup Merchants \cup {FeeRevenue, FxRevenue}

(* Neither the fee nor the amount of an e-commerce refund is checked for   *)
(* its sign.                                                               *)
Request ==
  [kind : {"purchase", "refund"}, merchant : Merchants \cup {NoMerchant},
   total : Int, fee : Int, markup : Int]

ASSUME LedgerAssumption ==
  /\ IsFiniteSet(Workers) /\ Workers # {}
  /\ Requests \subseteq Request
  /\ NoMerchant \notin Merchants /\ FeeRevenue # FxRevenue
  /\ Customers \cap Merchants = {}
  /\ (Customers \cup Merchants) \cap {FeeRevenue, FxRevenue} = {}
  /\ MaxTransactions \in Nat /\ MaxRefusals \in Nat

VARIABLES
  balance, \* balance[l]: the row of ledger account l, of those that have one
  entries, \* ledger_entries, those of open transactions among them
  txn,     \* txn[w]: the number of w's transaction, or 0
  asked,   \* asked[t]: customer and request of transaction t
  steps,   \* what w still has to do
  created, \* rows of ledger accounts that w's transaction has inserted
  view,    \* the balances w's transaction sees, if it has read before
  lost,    \* transactions that did not find the account they needed
  refusals

work == <<txn, steps, created, view>>
ledgerVars == <<balance, entries, work, asked, lost, refusals>>

NoView == [l \in {} |-> 0]
Began == Len(asked)

LedgerInit ==
  /\ balance = [l \in {FeeRevenue, FxRevenue} |-> 0]
  /\ entries = {}
  /\ txn = [w \in Workers |-> 0]
  /\ asked = <<>>
  /\ steps = [w \in Workers |-> <<>>]
  /\ created = [w \in Workers |-> {}]
  /\ view = [w \in Workers |-> NoView]
  /\ lost = {} /\ refusals = 0

(***************************************************************************)
(* What a purchase and a refund do                                         *)
(***************************************************************************)

Get(l) == <<[op |-> "get", ledger |-> l, delta |-> 0]>>
Post(l, d) == <<[op |-> "post", ledger |-> l, delta |-> d]>>
When(condition, s) == IF condition THEN s ELSE <<>>

MerchantShare(r) == r.total - r.fee - r.markup

(* A slip in PurchaseLegs: the merchant is credited all but the fee. *)
PurchaseLegsMarkupTwice(c, r) ==
  Get(c) \o Get(FeeRevenue) \o Get(FxRevenue) \o Post(c, -r.total)
  \o When(r.total - r.fee > 0 /\ r.merchant # NoMerchant,
          Get(r.merchant) \o Post(r.merchant, r.total - r.fee))
  \o When(r.fee > 0, Post(FeeRevenue, r.fee))
  \o When(r.markup > 0, Post(FxRevenue, r.markup))

(* processPurchaseLedger *)
PurchaseLegs(c, r) ==
  Get(c) \o Get(FeeRevenue) \o Get(FxRevenue) \o Post(c, -r.total)
  \o When(MerchantShare(r) > 0 /\ r.merchant # NoMerchant,
          Get(r.merchant) \o Post(r.merchant, MerchantShare(r)))
  \o When(r.fee > 0, Post(FeeRevenue, r.fee))
  \o When(r.markup > 0, Post(FxRevenue, r.markup))

(* processRefundLedger *)
RefundLegs(c, r) ==
  Get(c) \o Post(c, r.total)
  \o When(r.merchant # NoMerchant, Get(r.merchant) \o Post(r.merchant, -r.total))

(***************************************************************************)
(* The transactions                                                        *)
(***************************************************************************)

Active == {w \in Workers : txn[w] # 0}
Uncommitted == {e \in entries : \E w \in Active : e.txn = txn[w]}

(* What the entries es add up to, and what those to l do. *)
Deltas(es) == SumFunctionOnSet([e \in es |-> e.delta], es)
Posted(es, l) == Deltas({e \in es : e.ledger = l})

(* Rows that a transaction of another worker has inserted, or changed. *)
Inserted(w) == UNION {created[v] : v \in Workers \ {w}}
Locked(w) == Inserted(w) \cup {e.ledger : e \in {f \in Uncommitted : f.txn # txn[w]}}

(* The channel begins: it has the customer's account to itself. *)
Begin(w) ==
  /\ w \notin Active /\ Began < MaxTransactions
  /\ \E c \in Customers, r \in Requests :
       /\ \A v \in Active : asked[txn[v]].customer # c
       /\ asked' = Append(asked, [customer |-> c, request |-> r])
       /\ txn' = [txn EXCEPT ![w] = Began + 1]
       /\ steps' = [steps EXCEPT ![w] =
                      IF r.kind = "purchase" THEN PurchaseLegs(c, r) ELSE RefundLegs(c, r)]
  /\ UNCHANGED <<balance, entries, created, view, lost, refusals>>

(* What is committed, and what w's transaction did itself. *)
Visible(w) ==
  [l \in DOMAIN balance \ Inserted(w) |->
     balance[l] - Posted({e \in Uncommitted : e.txn # txn[w]}, l)]

Todo(w, op) == steps[w] # <<>> /\ Head(steps[w]).op = op
Done(w) == steps' = [steps EXCEPT ![w] = Tail(@)]

(* getOrCreateLedgerAccount that finds the account: INSERT IGNORE, and the *)
(* SELECT that takes the transaction's view if it is the first.            *)
GetOrCreate(w) ==
  LET l == Head(steps[w]).ledger
      own == {l} \ DOMAIN balance
  IN /\ Todo(w, "get") /\ l \notin Inserted(w)
     /\ view[w] = NoView \/ own # {} \/ l \in DOMAIN view[w] \cup created[w]
     /\ balance' = [m \in DOMAIN balance \cup own |-> IF m \in own THEN 0 ELSE balance[m]]
     /\ created' = [created EXCEPT ![w] = @ \cup own]
     /\ view' = [view EXCEPT ![w] = IF @ = NoView THEN Visible(w) ELSE @]
     /\ Done(w)
     /\ UNCHANGED <<entries, txn, asked, lost, refusals>>

(* A slip in PostEntry: the balance is computed from the one seen before. *)
PostOverwriting(w) ==
  LET s == Head(steps[w])
      seen == IF s.ledger \in DOMAIN view[w] THEN view[w][s.ledger] ELSE 0
  IN /\ Todo(w, "post") /\ s.ledger \notin Locked(w)
     /\ entries' = entries \cup {[txn |-> txn[w], ledger |-> s.ledger, delta |-> s.delta]}
     /\ balance' = [balance EXCEPT ![s.ledger] = seen + s.delta]
     /\ Done(w)
     /\ UNCHANGED <<txn, created, view, asked, lost, refusals>>

(* postLedgerEntry: the entry and, once its row is free, the balance. *)
PostEntry(w) ==
  LET s == Head(steps[w])
  IN /\ Todo(w, "post") /\ s.ledger \notin Locked(w)
     /\ entries' = entries \cup {[txn |-> txn[w], ledger |-> s.ledger, delta |-> s.delta]}
     /\ balance' = [balance EXCEPT ![s.ledger] = @ + s.delta]
     /\ Done(w)
     /\ UNCHANGED <<txn, created, view, asked, lost, refusals>>

End(w) ==
  /\ txn' = [txn EXCEPT ![w] = 0]
  /\ steps' = [steps EXCEPT ![w] = <<>>]
  /\ created' = [created EXCEPT ![w] = {}]
  /\ view' = [view EXCEPT ![w] = NoView]

Commit(w) ==
  /\ w \in Active /\ steps[w] = <<>>
  /\ End(w)
  /\ UNCHANGED <<balance, entries, asked, lost, refusals>>

Rollback(w) ==
  LET own == {e \in entries : e.txn = txn[w]}
  IN /\ entries' = entries \ own
     /\ balance' = [l \in DOMAIN balance \ created[w] |-> balance[l] - Posted(own, l)]
     /\ End(w)

(* A slip in NotFound: the transaction is left open, and with it its view. *)
NotFoundNoRollback(w) ==
  LET l == Head(steps[w]).ledger
  IN /\ Todo(w, "get") /\ l \notin Inserted(w)
     /\ view[w] # NoView /\ l \in DOMAIN balance \ (DOMAIN view[w] \cup created[w])
     /\ lost' = lost \cup {txn[w]}
     /\ balance' = [k \in DOMAIN balance \ created[w] |->
                      balance[k] - Posted({e \in entries : e.txn = txn[w]}, k)]
     /\ entries' = {e \in entries : e.txn # txn[w]}
     /\ txn' = [txn EXCEPT ![w] = 0]
     /\ steps' = [steps EXCEPT ![w] = <<>>]
     /\ created' = [created EXCEPT ![w] = {}]
     /\ UNCHANGED <<view, asked, refusals>>

(* getOrCreateLedgerAccount that does not: the row is there, so nothing is *)
(* inserted, but it is younger than the view.  It throws.                  *)
NotFound(w) ==
  LET l == Head(steps[w]).ledger
  IN /\ Todo(w, "get") /\ l \notin Inserted(w)
     /\ view[w] # NoView /\ l \in DOMAIN balance \ (DOMAIN view[w] \cup created[w])
     /\ lost' = lost \cup {txn[w]}
     /\ Rollback(w)
     /\ UNCHANGED <<asked, refusals>>

(* A statement fails for a reason of the database's. *)
Fails(w) ==
  /\ w \in Active /\ refusals < MaxRefusals
  /\ refusals' = refusals + 1
  /\ Rollback(w)
  /\ UNCHANGED <<asked, lost>>

(* The bound is reached. *)
LedgerFinished ==
  /\ Began = MaxTransactions /\ Active = {}
  /\ UNCHANGED ledgerVars

LedgerNext ==
  \/ \E w \in Workers :
       Begin(w) \/ GetOrCreate(w) \/ PostEntry(w) \/ Commit(w) \/ NotFound(w) \/ Fails(w)
  \/ LedgerFinished

LedgerSpec == LedgerInit /\ [][LedgerNext]_ledgerVars

(***************************************************************************)
(* Properties                                                              *)
(***************************************************************************)

Committed == entries \ Uncommitted

(* The running balance of a ledger account is the sum of its entries, at   *)
(* every moment, whichever transactions are under way or rolled back: the  *)
(* increments are not lost although the account was read long before.      *)
Reconciled ==
  \A l \in DOMAIN balance : balance[l] = Posted(entries, l)

Positive(x) == IF x > 0 THEN x ELSE 0

(* What of request r is on no account: the share of a merchant who is not  *)
(* named or whose share is negative, and a negative fee or markup, which   *)
(* raises the share but has no leg of its own (accounting.cpp:44-62).      *)
Unbooked(r) ==
  IF r.kind = "refund" THEN IF r.merchant = NoMerchant THEN r.total ELSE 0
  ELSE (IF r.merchant = NoMerchant \/ MerchantShare(r) < 0 THEN -MerchantShare(r) ELSE 0)
       + Positive(-r.fee) + Positive(-r.markup)

(* The books of a committed purchase or refund balance ("every             *)
(* purchase/refund writes balanced DEBIT/CREDIT journal entries",          *)
(* README.md:95), with all of its legs or none, except by what the request *)
(* leaves unbooked: nothing, if the merchant is named, the share is not    *)
(* negative and neither are fee and markup.                                *)
BooksBalance ==
  \A t \in 1..Began :
    LET legs == {e \in Committed : e.txn = t}
    IN legs # {} => Deltas(legs) = Unbooked(asked[t].request)

(* A purchase whose merchant's account is created by another while it runs *)
(* is lost.  That happens only to those under way when the account comes   *)
(* to be: each merchant costs at most one purchase per other worker.       *)
LossIsOnce ==
  \A m \in Merchants :
    Cardinality({t \in lost : asked[t].request.merchant = m}) < Cardinality(Workers)
=============================================================================
