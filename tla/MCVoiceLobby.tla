----------------------------- MODULE MCVoiceLobby -----------------------------
(* A small instance of VoiceLobby. *)
EXTENDS VoiceLobby

CONSTANTS i1, i2, r1, r2, t1, t2

MCInvites == {i1, i2}
MCRooms == {r1, r2}
MCFirstRooms == {r1}
MCTerms == {t1, t2}
=============================================================================
