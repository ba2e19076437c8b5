-------------------------------- MODULE Bank --------------------------------
(***************************************************************************)
(* What the channels promise about money, without locks, reads or          *)
(* transactions: a request posts at most once, in one step, and the step   *)
(* changes the balances as they are at that moment by exactly what the     *)
(* request asks for; a debit is made only if the balance covers it.  A     *)
(* credit does not ask the balance, and may be negative for the kinds that *)
(* do not look at the sign.  Settlement implements this specification.     *)
(***************************************************************************)
EXTENDS Integers

CONSTANTS
  Workers,   \* the requests, by the worker thread that runs them
  Accounts,
  Opening    \* the balances at the start

VARIABLES
  balance,
  posted,    \* the requests that have posted
  req,       \* what each asks for: [kind, acc, to, amount, fee]
  orig       \* the request that a refund or a reversal refers to

vars == <<balance, posted, req, orig>>

(* A transfer to the account it comes from: the code credits it and debits *)
(* nothing, since the credit overwrites the debit (mobile.cpp:269-270).    *)
OwnTransfer(w) == req[w].kind = "transfer" /\ req[w].acc = req[w].to

Pays(w) ==
  req[w].kind \in {"withdraw", "posBuy", "ecomBuy", "qrBuy", "iccw", "ringpay", "transfer"}

(* The fee goes to the bank; a POS refund keeps the fee of the purchase    *)
(* back, and a reversal returns it.                                        *)
Outgoing(w) ==
  IF Pays(w) /\ ~OwnTransfer(w) THEN req[w].amount + req[w].fee ELSE 0

Incoming(w) ==
  CASE req[w].kind \in {"deposit", "ecomRefund", "qrRefund", "transfer"} -> req[w].amount
    [] req[w].kind = "posRefund" -> req[w].amount - req[orig[w]].fee
    [] req[w].kind = "reverse" -> req[w].amount + req[w].fee
    [] OTHER -> 0

(* Money goes out of the account of the request and into the account named *)
(* as the other side: the request's own, or the one that paid by POS.      *)
Payer(w) == req[w].acc
Payee(w) ==
  CASE req[w].kind = "transfer" -> req[w].to
    [] req[w].kind = "posRefund" -> req[orig[w]].acc
    [] OTHER -> req[w].acc

Init == balance = Opening /\ posted = {}

(* A request that has not posted may still be made. *)
Ask(w) ==
  /\ w \notin posted
  /\ \A v \in Workers \ {w} : req'[v] = req[v] /\ orig'[v] = orig[v]
  /\ UNCHANGED <<balance, posted>>

Post(w) ==
  /\ w \notin posted
  /\ posted' = posted \cup {w}
  /\ Pays(w) => balance[Payer(w)] >= req[w].amount + req[w].fee
  /\ req[w].kind \in {"posBuy", "ecomBuy", "qrBuy", "iccw", "reverse"} => req[w].amount > 0
  /\ req[w].kind = "posRefund" => Incoming(w) > 0
  /\ balance' = [a \in Accounts |->
                   balance[a] - (IF a = Payer(w) THEN Outgoing(w) ELSE 0)
                              + (IF a = Payee(w) THEN Incoming(w) ELSE 0)]
  /\ UNCHANGED <<req, orig>>

Next == \E w \in Workers : Ask(w) \/ Post(w)

Spec == Init /\ [][Next]_vars
=============================================================================
