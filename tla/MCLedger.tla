------------------------------ MODULE MCLedger ------------------------------
(***************************************************************************)
(* Two workers are enough to lose a purchase; a merchant that has no       *)
(* ledger account at first, amounts with each leg and without, and a       *)
(* negative fee.                                                           *)
(***************************************************************************)
EXTENDS Ledger, TLC

CONSTANTS m1

Purchase(m, t, f, x) ==
  [kind |-> "purchase", merchant |-> m, total |-> t, fee |-> f, markup |-> x]
Refund(m, t) == [kind |-> "refund", merchant |-> m, total |-> t, fee |-> 0, markup |-> 0]

MCRequests ==
  {Purchase(m1, 4, 1, 1), Purchase(m1, 1, 1, 1), Purchase(NoMerchant, 3, 1, 0),
   Purchase(m1, 2, -1, 0), Refund(m1, 2)}

(* Sound: no definition tells these values apart, and the properties are   *)
(* about states.                                                           *)
Symmetry == Permutations(Workers) \cup Permutations(Customers)
=============================================================================
