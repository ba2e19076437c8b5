------------------------------ MODULE MCLogger ------------------------------
(***************************************************************************)
(* Three lines into files of three writes, and as many faults as a line can *)
(* be tried.                                                               *)
(***************************************************************************)
EXTENDS Logger
=============================================================================
