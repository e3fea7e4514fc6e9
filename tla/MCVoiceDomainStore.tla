-------------------------- MODULE MCVoiceDomainStore --------------------------
(* Small instances of VoiceDomainStore. *)
EXTENDS VoiceDomainStore, TLC

CONSTANTS u1, u2, n1, n2

MCUsers == {u1, u2}
MCAdmins == {u1}
MCRoomIDs == {1, 2}
MCOneRoom == {1}
MCTwoNodes == {n1, n2}
(* Two goroutines on one node, one on the other. *)
MCProcs == 1..3
MCNodeOf == <<n1, n1, n2>>

Old(r, u) == [id |-> r, creator |-> u, gen |-> LegacyGen]
Stay(r, u, t) == [room |-> r, user |-> u, exp |-> t, audio |-> TRUE]

(* A fresh installation, and values an earlier build left behind: a user in *)
(* two rooms with one expiry, and an entry that expires.                    *)
FreshInstall == [rooms |-> {}, presence |-> {}]
UpgradeTwice == [rooms |-> {Old(1, u1), Old(2, u2)},
                 presence |-> {Stay(1, u2, 2), Stay(2, u2, 2), Stay(1, u1, 1)}]
MCUpgradeTwice == {UpgradeTwice}
MCFresh == {FreshInstall}
=============================================================================
