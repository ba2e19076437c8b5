---------------------------- MODULE MCSettlement ----------------------------
(***************************************************************************)
(* Two accounts and three requests.  The amounts make each limit, each     *)
(* refund bound and each balance reachable, exactly and by one too much.   *)
(***************************************************************************)
EXTENDS Settlement, TLC

(* Sound: no definition tells the workers apart, and the properties are    *)
(* about states and single steps.                                          *)
Symmetry == Permutations(Workers)

MCAccounts == {1, 2}
MCOpening == [a \in MCAccounts |-> IF a = 1 THEN 4 ELSE 1]
MCLimit == [atmOut |-> 4, atmIn |-> 3, mobileHour |-> 1, mobileDay |-> 2, ringDay |-> 1]

Ask(k, a, n, f) == [kind |-> k, acc |-> a, to |-> a, amount |-> n, fee |-> f]
Send(a, b, n, f) == [kind |-> "transfer", acc |-> a, to |-> b, amount |-> n, fee |-> f]

(* All operations, a transfer to the account it comes from among them, and *)
(* negative amounts and fees where nobody refuses them.                    *)
MCOffers ==
  { Ask("withdraw", 1, 1, 1), Ask("withdraw", 1, -1, 0), Ask("deposit", 1, 2, 0),
    Ask("deposit", 2, -2, 0), Ask("posBuy", 1, 2, 1), Ask("posRefund", 1, 2, 0),
    Ask("ecomBuy", 1, 2, -1), Ask("ecomRefund", 1, 1, 0), Ask("ecomRefund", 2, 2, 0),
    Ask("ecomRefund", 1, 0, 0), Ask("qrBuy", 1, 2, 0), Ask("qrRefund", 1, 1, 0),
    Ask("qrRefund", 1, -1, 0), Ask("iccw", 2, 1, 0), Ask("ringpay", 1, 1, 0),
    Ask("reverse", 1, 1, 0), Ask("reverse", 1, 1, -2),
    Ask("freeze", 1, 1, 0), Ask("unfreeze", 1, 1, 0),
    Send(1, 2, 1, 0), Send(2, 1, 1, 0), Send(2, 1, -1, 0), Send(1, 1, 1, 1) }
=============================================================================
