----------------------------- MODULE MCDispatch -----------------------------
(***************************************************************************)
(* Two sessions and two requests of every kind on two accounts: a          *)
(* verification takes both sessions; freezing and another handler hold     *)
(* each what the other wants.                                              *)
(***************************************************************************)
EXTENDS Dispatch

CONSTANTS a1, a2

MCAccounts == {a1, a2}

MCOffers ==
  {[kind |-> k, accs |-> <<a1>>] : k \in Kinds \ {"mobile"}} \cup
  {[kind |-> "mobile", accs |-> <<a1, a2>>], [kind |-> "freeze", accs |-> <<a2>>]}
=============================================================================
