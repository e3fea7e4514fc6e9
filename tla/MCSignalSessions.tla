--------------------------- MODULE MCSignalSessions ---------------------------
(* Small instances of SignalSessions: two users, one of them an             *)
(* administrator, one room, one or two request handlers.                    *)
EXTENDS SignalSessions, TLC

CONSTANTS u1, u2, h1, h2

MCUsers == {u1, u2}
MCAdmins == {u1}
MCNobody == {}
MCOneRoom == {1}
MCHandlers == {h1, h2}
MCOneHandler == {h1}
=============================================================================
