--------------------------- MODULE MCThreeDSecure ---------------------------
(***************************************************************************)
(* Three sessions and three workers: three verifications that hold one     *)
(* session each and want a second wait for each other until a time-out;    *)
(* two of them have room to pay at the same time.  With two sessions they  *)
(* would not, and the pool's size alone would keep payments single.        *)
(***************************************************************************)
EXTENDS ThreeDSecure
=============================================================================
