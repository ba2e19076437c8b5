------------------------------ MODULE MCFalcon ------------------------------
(***************************************************************************)
(* Two workers and a cache of one entry, which two keys fight for.         *)
(***************************************************************************)
EXTENDS Falcon, TLC

(* Sound: no definition tells these values apart, and the properties are   *)
(* about states and single steps.                                          *)
Symmetry == Permutations(Workers) \cup Permutations(Nodes)
=============================================================================
