---------------------------- MODULE MCVoiceInvites ----------------------------
(* Small instances of VoiceInvites: an administrator and a user, one room   *)
(* that may be deleted and made again, two goroutines on one or two nodes.  *)
EXTENDS VoiceInvites, TLC

CONSTANTS u1, u2, n1, n2, p1, p2

MCUsers == {u1, u2}
MCAdmins == {u1}
MCRooms == {1}
MCProcs == {p1, p2}
MCOneNode == {n1}
MCTwoNodes == {n1, n2}
MCTogether == (p1 :> n1) @@ (p2 :> n1)
MCApart == (p1 :> n1) @@ (p2 :> n2)
=============================================================================
