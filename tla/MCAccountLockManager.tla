----------------------- MODULE MCAccountLockManager -----------------------
(* Three threads, two accounts: two opposite transfers and a third thread  *)
(* on either account, each thread running two transactions in a row.       *)
EXTENDS AccountLockManager

MCAccounts == {1, 2}
MCNoAccount == 0
=============================================================================
