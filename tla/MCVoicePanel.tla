----------------------------- MODULE MCVoicePanel -----------------------------
(* Small instances of VoicePanel: one tab and two rooms. *)
EXTENDS VoicePanel

CONSTANTS r1, r2

MCRooms == {r1, r2}
MCOneRoom == {r1}
=============================================================================
