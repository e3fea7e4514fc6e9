----------------------------- MODULE MCDirectCalls -----------------------------
(* Small instances of DirectCalls: a caller, and a callee with two tabs. *)
EXTENDS DirectCalls, TLC

CONSTANTS u1, u2, t1, t2, t3

MCUsers == {u1, u2}
MCThreeTabs == {t1, t2, t3}
MCTwice == (t1 :> u1) @@ (t2 :> u2) @@ (t3 :> u2)
(* The two tabs of one user may change places. *)
Twins == Permutations({t2, t3})
=============================================================================
