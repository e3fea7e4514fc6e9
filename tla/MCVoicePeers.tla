----------------------------- MODULE MCVoicePeers -----------------------------
(* Small instances of VoicePeers: two participants, two or three lines.     *)
EXTENDS VoicePeers, TLC

CONSTANTS a, b, l1, l2

MCUsers == {a, b}
MCLines == {l1, l2}
(* Users and lines are alike. *)
Alike == Permutations(MCUsers) \cup Permutations(MCLines)
=============================================================================
