-------------------------- MODULE MCConnectionPool --------------------------
(* Three threads on at most two slots: one must wait, and two can heal at a *)
(* time.  With three addresses a healed session reuses a deleted one's, and *)
(* up to two can be lost to a failing USE.                                 *)
EXTENDS ConnectionPool
=============================================================================
