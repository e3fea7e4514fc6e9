----------------------------- MODULE VoiceSession -----------------------------
(* What one browser tab holds while its user is in a voice room             *)
(* (webapp/src/utils/voiceSession.js): the microphone stream and the        *)
(* connection, a signalling hub with its swarm. The methods run without     *)
(* interruption, so each one is an operator from the tab before the call to *)
(* the tab after it; a record, because the panel calls them in the middle   *)
(* of its own handlers (VoicePanel). Awaited promises end a method: what    *)
(* follows the await is an operator of its own.                             *)
(*                                                                          *)
(* running and open stand for the browser: the streams whose tracks nobody  *)
(* stopped, the connections whose hub nobody closed. The session itself     *)
(* knows only tab.stream and tab.link.                                      *)
EXTENDS Naturals, Sequences, FiniteSets

CONSTANTS Rooms, NoRoom

ASSUME RoomsAssumption == NoRoom \notin Rooms

(* 0 is no stream and no connection. *)
None == 0
Modes == {"idle", "active", "closing"}

(* The first number no live resource bears. *)
Fresh(used) == CHOOSE n \in 1..(Cardinality(used) + 1) : n \notin used

IsActive(t, r) == t.mode = "active" /\ t.held = r

CanStart(t, r) == r # NoRoom /\ t.mode = "idle"
StartSession(t, r) == [t EXCEPT !.mode = "active", !.held = r]

(* The microphone arrived. The stream is stopped at once unless the room it *)
(* was asked for is still the session's; the stream it replaces is not      *)
(* stopped (replaced remembers it, the program does not).                   *)
SetStreamAlways(t, r) ==
  LET s == Fresh(t.running)
  IN [t EXCEPT !.stream = s, !.running = @ \cup {s},
               !.replaced.streams = @ \cup ({t.stream} \ {None})]
SetStream(t, r) == IF IsActive(t, r) THEN SetStreamAlways(t, r) ELSE t

(* The hub of room r was created: it is closed again unless the session and *)
(* the panel are still in that room. The connection it replaces stays open. *)
StillWanted(t, r) == IsActive(t, r) /\ t.room = r
ConnectStale(t, r) ==
  LET l == Fresh(t.open)
  IN [t EXCEPT !.link = l, !.open = @ \cup {l},
               !.replaced.links = @ \cup ({t.link} \ {None})]
Connect(t, r) == IF StillWanted(t, r) THEN ConnectStale(t, r) ELSE t

(* The swarm is closed, or the timer went off: the session is free and the  *)
(* callbacks that waited for it are due, in order.                          *)
Finish(t) ==
  [t EXCEPT !.mode = "idle", !.open = @ \ {t.dying}, !.dying = None,
            !.due = t.callbacks, !.callbacks = <<>>]

(* Closing stops the stream at once and waits for the swarm, unless there   *)
(* is none or it throws or calls back at once. Who comes while it waits, waits too.       *)
Close(t, callback, atOnce) ==
  IF t.mode = "closing" THEN [t EXCEPT !.callbacks = Append(@, callback)]
  ELSE LET c == [t EXCEPT !.mode = "closing", !.callbacks = <<callback>>,
                          !.running = @ \ {t.stream}, !.stream = None,
                          !.dying = t.link, !.link = None, !.held = NoRoom]
       IN IF t.link = None \/ atOnce THEN Finish(c) ELSE c
=============================================================================
