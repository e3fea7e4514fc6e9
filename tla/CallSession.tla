------------------------------ MODULE CallSession ------------------------------
(* What one browser tab knows of its direct call: the CallSession that owns *)
(* the call's resources (webapp/src/utils/callSession.js) and the slice of  *)
(* the store that the call window draws (webapp/src/reducers/index.js). Its *)
(* methods and the reducers run to their end, so each one is an operator    *)
(* from the tab before to the tab after; DirectCalls puts the handlers      *)
(* together from them.                                                      *)
EXTENDS Naturals, FiniteSets

CONSTANT MaxCalls

ASSUME MaxCallsAssumption == MaxCalls \in Nat \ {0}

Calls == 1..MaxCalls
NoCall == 0
CallSessionState == {"idle", "ringing", "connecting", "failed"}

(* An event source of a signalling hub and the listener it feeds; live once *)
(* the server has subscribed it. Nothing waits for those of the media.      *)
Stream == [call : Calls, kind : {"accept", "decline", "cancel", "media"},
           live : BOOLEAN]
Listen(c, kinds) == {[call |-> c, kind |-> k, live |-> k = "media"] : k \in kinds}

NewTab ==
  [phase |-> "idle", held |-> NoCall, streams |-> {},
   open |-> FALSE, incoming |-> FALSE, outgoing |-> FALSE, accepted |-> FALSE,
   peerAccepted |-> FALSE, declined |-> FALSE, call |-> NoCall,
   ready |-> FALSE, shown |-> "idle", ring |-> FALSE, ringback |-> FALSE,
   outbox |-> {}]

-----------------------------------------------------------------------------
(* The session. *)
CanStart(t) == t.phase = "idle"
Start(t, c) == [t EXCEPT !.phase = "ringing", !.held = c]

IsCurrent(t, c) == c = t.held /\ t.phase # "idle"
Transition(t, c, s) == IF IsCurrent(t, c) THEN [t EXCEPT !.phase = s] ELSE t

(* Every hub with an event source is tracked, so all of them are closed,    *)
(* whichever call the session is in; only its own call ends it.             *)
ReleaseOwn(t, c) ==
  IF IsCurrent(t, c)
  THEN [t EXCEPT !.streams = {}, !.phase = "idle", !.held = NoCall] ELSE t
ReleaseCallResources(t, c) == [ReleaseOwn(t, c) EXCEPT !.streams = {}]

-----------------------------------------------------------------------------
(* The store: what each action of the plugin does to the slice. *)
MakeVideoCall(t, c) ==
  [t EXCEPT !.open = TRUE, !.outgoing = TRUE, !.accepted = TRUE, !.call = c,
            !.ready = FALSE, !.shown = "ringing", !.declined = FALSE,
            !.peerAccepted = FALSE]
ReceiveVideoCall(t, c) ==
  [t EXCEPT !.open = TRUE, !.incoming = TRUE, !.call = c, !.ready = TRUE,
            !.shown = "ringing"]
SignalSessionReady(t) == [t EXCEPT !.ready = TRUE]
Show(t, s) == [t EXCEPT !.shown = s]

(* A declined call keeps its window open until the caller closes it. *)
OutgoingCallDeclined(t) ==
  [t EXCEPT !.call = NoCall, !.ready = FALSE, !.shown = "idle",
            !.declined = TRUE, !.peerAccepted = FALSE]

(* END_CALL and REJECT_CALL. *)
CallOver(t) ==
  [t EXCEPT !.open = FALSE, !.incoming = FALSE, !.outgoing = FALSE,
            !.accepted = FALSE, !.peerAccepted = FALSE, !.declined = FALSE,
            !.call = NoCall, !.ready = FALSE, !.shown = "idle"]
=============================================================================
