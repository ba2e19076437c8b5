--------------------------- MODULE MCRateLimiter ---------------------------
(***************************************************************************)
(* Two threads and two clients: one's calls bring the sweep of the other's *)
(* bucket.  A bucket of the first window is past StaleBucketTtl (4) from   *)
(* the fifth tick on, and there are two more in which its client, also     *)
(* with a time it read before the sweep, begins anew.  A limit of one      *)
(* request a window is what leaves room for so many ticks.                 *)
(***************************************************************************)
EXTENDS RateLimiter, TLC

(* Sound: no definition tells threads or clients apart, and the properties *)
(* are about states and single steps.                                      *)
Symmetry == Permutations(Threads) \cup Permutations(Clients)
=============================================================================
