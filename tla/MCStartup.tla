----------------------------- MODULE MCStartup -----------------------------
(***************************************************************************)
(* Two slots, two attempts each, three faults: a rename that fails and a   *)
(* kill in the fallback leave one more.                                    *)
(***************************************************************************)
EXTENDS Startup
=============================================================================
