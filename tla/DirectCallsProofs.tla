---------------------------- MODULE DirectCallsProofs ----------------------------
(* Theorems about DirectCalls for any tabs, users and number of calls: each *)
(* tab agrees with itself (TabOK), what is under way belongs to a call that *)
(* was made (KnownCalls), events only wait for event sources that are open  *)
(* (EventsHeard), and a word of cancellation means that the caller has gone *)
(* (CallerGone). On top of it, what is still to be heard of every call      *)
(* (Told): nobody is left ringing or calling.                               *)
EXTENDS DirectCalls, SequenceTheorems, TLAPS

Tab ==
  [phase : CallSessionState, held : Calls \cup {NoCall}, streams : SUBSET Stream,
   open : BOOLEAN, incoming : BOOLEAN, outgoing : BOOLEAN, accepted : BOOLEAN,
   peerAccepted : BOOLEAN, declined : BOOLEAN, call : Calls \cup {NoCall},
   ready : BOOLEAN, shown : CallSessionState, ring : BOOLEAN,
   ringback : BOOLEAN,
   outbox : SUBSET [word : {"invite", "accept", "decline", "cancel"}, call : Calls]]

(* Session and window of one tab. *)
Agrees(t) ==
  /\ t.held = t.call /\ t.shown = t.phase
  /\ t.phase = "idle" <=> t.held = NoCall
  /\ t.phase # "idle" <=> (t.incoming \/ (t.outgoing /\ ~t.declined))
  /\ t.open <=> (t.incoming \/ t.outgoing)
  /\ ~(t.incoming /\ t.outgoing)
  /\ t.incoming => t.ready
  /\ t.ready => t.call # NoCall
  /\ t.accepted => t.open

(* Its event sources. *)
Sources(t) ==
  \A s \in t.streams :
    /\ s.call = t.held
    /\ s.kind \in {"accept", "decline"} => t.outgoing
    /\ s.kind = "cancel" => t.incoming

(* Its tones. *)
Tones(t) ==
  /\ t.ring <=> (t.incoming /\ ~t.accepted)
  /\ t.ringback <=> (t.outgoing /\ ~t.declined /\ ~t.peerAccepted)

TabOK(t) == t \in Tab /\ Agrees(t) /\ Sources(t) /\ Tones(t)

(* What a tab says in a handler: only a caller cancels, and has gone then. *)
SaysOK(x, t) ==
  \A w \in t.outbox :
    /\ w.call \in DOMAIN calls
    /\ w.word = "cancel" => Caller(w.call) = x /\ t.call # w.call

(* Whose call a tab is in. *)
OwnCall(x, t) ==
  t.call # NoCall =>
    /\ t.call \in DOMAIN calls
    /\ t.outgoing => Caller(t.call) = x
    /\ t.incoming => UserOf[x] = calls[t.call].to

TabsOK ==
  /\ tabs \in [Tabs -> Tab]
  /\ \A x \in Tabs : TabOK(tabs[x]) /\ OwnCall(x, tabs[x]) /\ tabs[x].outbox = {}

KnownCalls ==
  /\ calls \in Seq([from : Tabs, to : Users]) /\ Len(calls) <= MaxCalls
  /\ \A c \in DOMAIN calls : calls[c].to # UserOf[Caller(c)]
  /\ creating \subseteq DOMAIN calls /\ awaiting \subseteq DOMAIN calls
  /\ net \subseteq Request /\ \A p \in net : p.call \in DOMAIN calls
  /\ events \subseteq Event /\ \A e \in events : e.call \in DOMAIN calls

EventsHeard ==
  \A e \in events :
    IF e.kind = "inbox" THEN UserOf[e.tab] = calls[e.call].to
    ELSE \E s \in tabs[e.tab].streams : s.call = e.call /\ s.kind = e.kind

CallerGone ==
  /\ \A p \in net : p.kind = "cancel" =>
       p.from = Caller(p.call) /\ tabs[p.from].call # p.call
  /\ \A e \in events : e.word = "cancel" /\ e.kind # "inbox" =>
       tabs[Caller(e.call)].call # e.call

History ==
  /\ upsets \in 0..MaxUpsets /\ lost \subseteq Calls /\ busy \subseteq Calls
  /\ answers \subseteq Answer

IndInv == TabsOK /\ KnownCalls /\ EventsHeard /\ CallerGone /\ History

(* What a tab listens to, rings for and calls for. *)
Hears(t, c, k) == \E s \in t.streams : s.call = c /\ s.kind = k
RingsFor(t, c) == t.incoming /\ ~t.accepted /\ t.call = c
CallsFor(t, c) == t.outgoing /\ t.call = c
Listening(t) ==
  /\ ~t.peerAccepted
  /\ \A c \in Calls : RingsFor(t, c) => Hears(t, c, "cancel")
  /\ \A c \in Calls : CallsFor(t, c) /\ t.ready => Hears(t, c, "decline")

-----------------------------------------------------------------------------
(* One lemma per operator on a tab. *)
LEMMA NewTabOK ==
  TabOK(NewTab) /\ NewTab.call = NoCall /\ NewTab.outbox = {}
BY DEF TabOK, Tab, NewTab, Agrees, Sources, Tones, CallSessionState, NoCall

(* Fields that are written together leave a tab: its session is given back, *)
LEMMA ReleasedTab ==
  ASSUME NEW t \in Tab, NEW none \in SUBSET Stream, NEW phase \in CallSessionState,
         NEW held \in Calls \cup {NoCall}
  PROVE  [t EXCEPT !.streams = none, !.phase = phase, !.held = held] \in Tab
BY Zenon DEF Tab

(* its window is closed, the two halves of CallOver, or told of a decline.  *)
LEMMA ClosedTab ==
  ASSUME NEW t \in Tab
  PROVE  [t EXCEPT !.open = FALSE, !.incoming = FALSE, !.outgoing = FALSE,
                   !.accepted = FALSE, !.peerAccepted = FALSE] \in Tab
BY Zenon DEF Tab

LEMMA ForgottenTab ==
  ASSUME NEW t \in Tab, NEW declined \in BOOLEAN, NEW none \in Calls \cup {NoCall},
         NEW shown \in CallSessionState
  PROVE  [t EXCEPT !.declined = declined, !.call = none, !.ready = FALSE,
                   !.shown = shown] \in Tab
BY Zenon DEF Tab

LEMMA DeclinedTab ==
  ASSUME NEW t \in Tab, NEW none \in Calls \cup {NoCall},
         NEW shown \in CallSessionState
  PROVE  [t EXCEPT !.call = none, !.ready = FALSE, !.shown = shown,
                   !.declined = TRUE, !.peerAccepted = FALSE] \in Tab
BY Zenon DEF Tab

(* The resources of the call of a tab are given back. *)
LEMMA ReleaseOK ==
  ASSUME NEW t \in Tab, Agrees(t)
  PROVE  /\ ReleaseCallResources(t, t.call) \in Tab
         /\ ReleaseCallResources(t, t.call) =
              [t EXCEPT !.streams = {}, !.phase = "idle", !.held = NoCall]
<1> DEFINE r == ReleaseCallResources(t, t.call)
           q == [t EXCEPT !.streams = {}, !.phase = "idle", !.held = NoCall]
<1>0. q \in Tab
  <2>1. PICK none \in SUBSET Stream : none = {}
    OBVIOUS
  <2>2. "idle" \in CallSessionState /\ NoCall \in Calls \cup {NoCall}
    BY DEF CallSessionState
  <2>3. [t EXCEPT !.streams = none, !.phase = "idle", !.held = NoCall] \in Tab
    BY <2>2, ReleasedTab, Zenon
  <2> QED BY <2>1, <2>3
<1>1. CASE t.phase = "idle"
  <2>1. r = [t EXCEPT !.streams = {}]
    BY <1>1 DEF ReleaseCallResources, ReleaseOwn, IsCurrent
  <2>2. t.phase = "idle" /\ t.held = NoCall
    BY <1>1 DEF Agrees
  <2>3. r = q
    BY <2>1, <2>2 DEF Tab
  <2> HIDE DEF r, q
  <2> QED BY <1>0, <2>3 DEF r, q
<1>2. CASE t.phase # "idle"
  <2>1. IsCurrent(t, t.call)
    BY <1>2 DEF IsCurrent, Agrees
  <2>2. r = [[t EXCEPT !.streams = {}, !.phase = "idle", !.held = NoCall]
               EXCEPT !.streams = {}]
    BY <2>1 DEF ReleaseCallResources, ReleaseOwn
  <2>3. r = q
    BY <2>2 DEF Tab
  <2> HIDE DEF r, q
  <2> QED BY <1>0, <2>3 DEF r, q
<1> QED BY <1>1, <1>2

LEMMA CallOverType ==
  ASSUME NEW t \in Tab
  PROVE  CallOver(t) \in Tab
<1>1. CallOver(t) =
        [[t EXCEPT !.open = FALSE, !.incoming = FALSE, !.outgoing = FALSE,
                   !.accepted = FALSE, !.peerAccepted = FALSE]
            EXCEPT !.declined = FALSE, !.call = NoCall, !.ready = FALSE, !.shown = "idle"]
  BY DEF Tab, CallOver
<1>2. PICK c : c = [t EXCEPT !.open = FALSE, !.incoming = FALSE, !.outgoing = FALSE,
                      !.accepted = FALSE, !.peerAccepted = FALSE]
  OBVIOUS
<1>3. c \in Tab
  BY <1>2, ClosedTab, Zenon
<1>4. "idle" \in CallSessionState /\ NoCall \in Calls \cup {NoCall} /\ FALSE \in BOOLEAN
  BY DEF CallSessionState
<1>5. [c EXCEPT !.declined = FALSE, !.call = NoCall, !.ready = FALSE, !.shown = "idle"] \in Tab
  BY <1>3, <1>4, ForgottenTab, Zenon
<1> QED BY <1>1, <1>2, <1>5, Zenon

(* A tab that has gone silent hangs up. *)
LEMMA HangUpOK ==
  ASSUME NEW t \in Tab, Agrees(t), ~t.ring, ~t.ringback
  PROVE  LET e == CallOver(ReleaseCallResources(t, t.call))
         IN TabOK(e) /\ e.call = NoCall /\ e.outbox = t.outbox /\ ~e.peerAccepted
<1> DEFINE r == [t EXCEPT !.streams = {}, !.phase = "idle", !.held = NoCall]
           e == CallOver(r)
<1>1. ReleaseCallResources(t, t.call) = r /\ r \in Tab
  BY ReleaseOK
<1>2. /\ r.phase = "idle" /\ r.held = NoCall /\ r.streams = {}
      /\ ~r.ring /\ ~r.ringback /\ r.outbox = t.outbox
  BY DEF Tab
<1> HIDE DEF r
<1>3. e \in Tab
  BY <1>1, CallOverType
<1>4. /\ e.phase = "idle" /\ e.held = NoCall /\ e.streams = {}
      /\ ~e.ring /\ ~e.ringback /\ e.outbox = t.outbox
  BY <1>1, <1>2 DEF CallOver, Tab
<1>5. /\ e.call = NoCall /\ e.shown = "idle" /\ ~e.peerAccepted
      /\ ~e.open /\ ~e.incoming /\ ~e.outgoing /\ ~e.accepted /\ ~e.ready
  BY <1>1 DEF CallOver, Tab
<1>6. Agrees(e) /\ Sources(e) /\ Tones(e)
  BY <1>4, <1>5 DEF Agrees, Sources, Tones
<1> QED BY <1>1, <1>3, <1>4, <1>5, <1>6 DEF TabOK, r

LEMMA EndCallOK ==
  ASSUME NEW t, TabOK(t), t.outbox = {}
  PROVE  /\ TabOK(EndCall(t)) /\ EndCall(t).call = NoCall /\ ~EndCall(t).peerAccepted
         /\ EndCall(t).outbox # {} =>
              EndCall(t).outbox = {Word("cancel", t.call)} /\ t.outgoing /\ t.call # NoCall
         /\ t.outgoing /\ ~t.peerAccepted /\ t.ready =>
              EndCall(t).outbox = {Word("cancel", t.call)}
<1> DEFINE said == IF t.outgoing /\ ~t.peerAccepted /\ t.ready
                   THEN {Word("cancel", t.call)} ELSE {}
           q == [t EXCEPT !.ring = FALSE, !.ringback = FALSE, !.outbox = said]
<1>1. t \in Tab /\ Agrees(t)
  BY DEF TabOK
<1>2. said \in SUBSET [word : {"invite", "accept", "decline", "cancel"}, call : Calls]
  BY <1>1 DEF Tab, Agrees, Word
<1>3. EndCall(t) = CallOver(ReleaseCallResources(q, t.call))
  BY DEF EndCall
<1>4. /\ said # {} => said = {Word("cancel", t.call)} /\ t.outgoing /\ t.call # NoCall
      /\ t.outgoing /\ ~t.peerAccepted /\ t.ready => said = {Word("cancel", t.call)}
  BY <1>1 DEF Agrees
<1> HIDE DEF said
<1>5. q \in Tab /\ Agrees(q) /\ ~q.ring /\ ~q.ringback /\ q.call = t.call /\ q.outbox = said
  BY <1>1, <1>2 DEF Tab, Agrees
<1> HIDE DEF q
<1>6. /\ TabOK(EndCall(t)) /\ EndCall(t).call = NoCall /\ EndCall(t).outbox = said
      /\ ~EndCall(t).peerAccepted
  BY <1>3, <1>5, HangUpOK
<1> QED BY <1>4, <1>6

LEMMA RejectCallOK ==
  ASSUME NEW t, TabOK(t), t.outbox = {}, t.incoming
  PROVE  /\ TabOK(RejectCall(t)) /\ RejectCall(t).call = NoCall
         /\ ~RejectCall(t).peerAccepted
         /\ RejectCall(t).outbox = {Word("decline", t.call)} /\ t.call # NoCall
<1> DEFINE said == {Word("decline", t.call)}
           q == [t EXCEPT !.ring = FALSE, !.outbox = said]
<1>1. t \in Tab /\ Agrees(t) /\ t.ready /\ t.call # NoCall /\ ~t.ringback
  BY DEF TabOK, Agrees, Tones
<1>2. said \in SUBSET [word : {"invite", "accept", "decline", "cancel"}, call : Calls]
  BY <1>1 DEF Tab, Word
<1>3. RejectCall(t) = CallOver(ReleaseCallResources(q, t.call))
  BY <1>1 DEF RejectCall
<1> HIDE DEF said
<1>5. q \in Tab /\ Agrees(q) /\ ~q.ring /\ ~q.ringback /\ q.call = t.call /\ q.outbox = said
  BY <1>1, <1>2 DEF Tab, Agrees
<1> HIDE DEF q
<1>6. /\ TabOK(RejectCall(t)) /\ RejectCall(t).call = NoCall /\ RejectCall(t).outbox = said
      /\ ~RejectCall(t).peerAccepted
  BY <1>3, <1>5, HangUpOK
<1> QED BY <1>1, <1>6 DEF said

LEMMA ListenType ==
  ASSUME NEW c \in Calls, NEW kinds \in SUBSET {"accept", "decline", "cancel", "media"}
  PROVE  /\ Listen(c, kinds) \in SUBSET Stream
         /\ \A s \in Listen(c, kinds) : s.call = c /\ s.kind \in kinds
         /\ \A k \in kinds : \E s \in Listen(c, kinds) : s.call = c /\ s.kind = k
<1>3. ASSUME NEW k \in kinds
      PROVE  \E s \in Listen(c, kinds) : s.call = c /\ s.kind = k
  <2>1. [call |-> c, kind |-> k, live |-> k = "media"] \in Listen(c, kinds)
    BY DEF Listen
  <2> QED BY <2>1
<1> SUFFICES ASSUME NEW s \in Listen(c, kinds)
             PROVE  s \in Stream /\ s.call = c /\ s.kind \in kinds
  BY <1>3
<1>1. PICK k \in kinds : s = [call |-> c, kind |-> k, live |-> k = "media"]
  BY Zenon DEF Listen
<1>2. (k = "media") \in BOOLEAN /\ k \in {"accept", "decline", "cancel", "media"}
  OBVIOUS
<1> QED BY <1>1, <1>2 DEF Stream

LEMMA AcceptCallOK ==
  ASSUME NEW t, TabOK(t), t.incoming
  PROVE  /\ TabOK(AcceptCall(t)) /\ AcceptCall(t).call = t.call
         /\ AcceptCall(t).outbox = {Word("accept", t.call)} /\ t.call # NoCall
         /\ AcceptCall(t).incoming /\ ~AcceptCall(t).outgoing
         /\ AcceptCall(t).accepted /\ AcceptCall(t).peerAccepted = t.peerAccepted
<1> DEFINE q == [t EXCEPT !.ring = FALSE, !.streams = {s \in @ : s.kind # "cancel"}]
           p == [[q EXCEPT !.phase = "connecting"] EXCEPT !.shown = "connecting"]
           a == [p EXCEPT !.outbox = {Word("accept", t.call)},
                          !.streams = @ \cup Listen(t.call, {"media"}),
                          !.accepted = TRUE]
<1>1. /\ t \in Tab /\ Agrees(t) /\ Sources(t) /\ Tones(t)
      /\ t.ready /\ t.call # NoCall /\ t.phase # "idle" /\ t.open /\ ~t.outgoing
  BY DEF TabOK, Agrees
<1>2. t.call \in Calls
  BY <1>1 DEF Tab
<1>3. /\ q \in Tab /\ q.held = t.held /\ q.phase = t.phase /\ q.streams \subseteq t.streams
      /\ q.call = t.call /\ q.incoming /\ ~q.outgoing /\ q.open /\ q.ready
      /\ ~q.ring /\ ~q.ringback /\ q.peerAccepted = t.peerAccepted
  BY <1>1 DEF Tab, Tones
<1>4. AcceptCall(t) = a
  BY <1>1, <1>3 DEF AcceptCall, Show, Transition, IsCurrent, Agrees
<1> HIDE DEF q
<1>5. /\ p \in Tab /\ p.held = q.held /\ p.phase = "connecting" /\ p.shown = "connecting"
      /\ p.streams = q.streams
      /\ p.call = q.call /\ p.incoming /\ ~p.outgoing /\ p.open /\ p.ready
      /\ ~p.ring /\ ~p.ringback /\ p.peerAccepted = q.peerAccepted
  BY <1>3 DEF Tab, CallSessionState
<1> HIDE DEF p
<1>6. {Word("accept", t.call)} \in SUBSET [word : {"invite", "accept", "decline", "cancel"}, call : Calls]
  BY <1>2 DEF Word
<1>7. /\ Listen(t.call, {"media"}) \in SUBSET Stream
      /\ \A s \in Listen(t.call, {"media"}) : s.call = t.call /\ s.kind = "media"
  BY <1>2, ListenType
<1> HIDE DEF Listen, Word
<1>8. /\ a \in Tab /\ a.held = p.held /\ a.phase = p.phase /\ a.shown = p.shown
      /\ a.streams = p.streams \cup Listen(t.call, {"media"})
      /\ a.call = p.call /\ a.incoming /\ ~a.outgoing /\ a.open /\ a.ready
      /\ ~a.ring /\ ~a.ringback /\ a.accepted /\ a.outbox = {Word("accept", t.call)}
      /\ a.peerAccepted = p.peerAccepted
  BY <1>5, <1>6, <1>7 DEF Tab
<1> HIDE DEF a
<1>9. Agrees(a) /\ Sources(a) /\ Tones(a)
  <2>1. a.held = a.call /\ a.call = t.call /\ a.shown = a.phase /\ a.phase # "idle"
    BY <1>1, <1>3, <1>5, <1>8 DEF Agrees
  <2>2. Agrees(a)
    BY <1>1, <1>8, <2>1 DEF Agrees
  <2>3. Sources(a)
    BY <1>1, <1>3, <1>5, <1>7, <1>8, <2>1 DEF Sources, Agrees
  <2> QED BY <1>8, <2>2, <2>3 DEF Tones
<1> QED BY <1>1, <1>3, <1>4, <1>5, <1>8, <1>9 DEF TabOK

LEMMA OnDeclineOK ==
  ASSUME NEW t, TabOK(t), t.outgoing, t.outbox = {}, NEW x, NEW e, e.call = t.call
  PROVE  LET d == OnDecline(t, x, e)
         IN /\ TabOK(d) /\ d.call \in {NoCall, t.call} /\ d.outbox = {}
            /\ d.outgoing /\ ~d.incoming
            /\ e.from = calls[e.call].to => d.call = NoCall /\ ~d.peerAccepted
<1>1. CASE e.from # calls[e.call].to
  BY <1>1 DEF OnDecline, TabOK, Agrees
<1>2. CASE e.from = calls[e.call].to
  <2> DEFINE q == [t EXCEPT !.ringback = FALSE]
             r == [q EXCEPT !.streams = {}, !.phase = "idle", !.held = NoCall]
             d == OutgoingCallDeclined(r)
  <2>1. t \in Tab /\ Agrees(t) /\ Tones(t) /\ ~t.incoming /\ ~t.ring
    BY DEF TabOK, Agrees, Tones
  <2>2. /\ q \in Tab /\ Agrees(q) /\ q.call = t.call /\ ~q.ring /\ ~q.ringback
        /\ q.outgoing /\ ~q.incoming /\ q.open /\ q.outbox = {}
    BY <2>1 DEF Tab, Agrees
  <2>3. ReleaseCallResources(q, e.call) = r /\ r \in Tab
    BY <2>2, ReleaseOK
  <2>4. OnDecline(t, x, e) = d
    BY <1>2, <2>3 DEF OnDecline
  <2> HIDE DEF q
  <2>5. /\ r.phase = "idle" /\ r.held = NoCall /\ r.streams = {} /\ r.outbox = {}
        /\ ~r.ring /\ ~r.ringback /\ r.outgoing /\ ~r.incoming /\ r.open
    BY <2>2 DEF Tab
  <2> HIDE DEF r
  <2>d. d \in Tab
    <3>1. "idle" \in CallSessionState /\ NoCall \in Calls \cup {NoCall}
      BY DEF CallSessionState
    <3>2. [r EXCEPT !.call = NoCall, !.ready = FALSE, !.shown = "idle",
                    !.declined = TRUE, !.peerAccepted = FALSE] \in Tab
      BY <2>3, <3>1, DeclinedTab, Zenon
    <3> QED BY <3>2, Zenon DEF OutgoingCallDeclined
  <2>6. /\ d.phase = "idle" /\ d.held = NoCall /\ d.streams = {} /\ d.outbox = {}
        /\ ~d.ring /\ ~d.ringback /\ d.outgoing /\ ~d.incoming /\ d.open
        /\ d.call = NoCall /\ ~d.ready /\ d.shown = "idle" /\ d.declined
        /\ ~d.peerAccepted
    BY <2>3, <2>5 DEF Tab, OutgoingCallDeclined
  <2> HIDE DEF d
  <2>7. Agrees(d) /\ Sources(d) /\ Tones(d)
    BY <2>6 DEF Agrees, Sources, Tones
  <2> QED BY <2>4, <2>d, <2>6, <2>7 DEF TabOK
<1> QED BY <1>1, <1>2

LEMMA OnAcceptOK ==
  ASSUME NEW t, TabOK(t), t.outgoing, NEW x, NEW e
  PROVE  LET a == OnAccept(t, x, e)
         IN TabOK(a) /\ a.call = t.call /\ a.outbox = t.outbox
            /\ a.outgoing /\ ~a.incoming
<1> DEFINE on == e.word = "accept" /\ e.from = UserOf[x] /\ ~t.peerAccepted /\ IsCurrent(t, e.call)
<1>1. CASE ~on
  BY <1>1 DEF OnAccept, TabOK, Agrees
<1>2. CASE on
  <2> DEFINE p == [[t EXCEPT !.phase = "connecting"] EXCEPT !.shown = "connecting"]
             a == [p EXCEPT !.ringback = FALSE, !.peerAccepted = TRUE,
                            !.streams = {s \in @ : s.kind # "decline"}]
  <2>1. /\ t \in Tab /\ Agrees(t) /\ Sources(t) /\ Tones(t) /\ ~t.incoming /\ ~t.ring
        /\ t.open /\ t.phase # "idle" /\ t.held # NoCall
    BY <1>2 DEF TabOK, Agrees, Tones, IsCurrent
  <2>2. OnAccept(t, x, e) = a
    BY <1>2 DEF OnAccept, Show, Transition
  <2>3. /\ p \in Tab /\ p.phase = "connecting" /\ p.shown = "connecting"
        /\ p.held = t.held /\ p.call = t.call /\ p.streams = t.streams
        /\ p.outgoing /\ ~p.incoming /\ p.open /\ ~p.ring /\ p.outbox = t.outbox
        /\ p.declined = t.declined
    BY <2>1 DEF Tab, CallSessionState
  <2> HIDE DEF p
  <2>4. /\ a \in Tab /\ a.phase = "connecting" /\ a.shown = "connecting"
        /\ a.held = t.held /\ a.call = t.call /\ a.streams \subseteq t.streams
        /\ a.outgoing /\ ~a.incoming /\ a.open /\ ~a.ring /\ ~a.ringback
        /\ a.outbox = t.outbox /\ a.declined = t.declined /\ a.peerAccepted
    BY <2>3 DEF Tab
  <2> HIDE DEF a
  <2>5. Agrees(a) /\ Sources(a) /\ Tones(a)
    BY <2>1, <2>4 DEF Agrees, Sources, Tones
  <2> QED BY <2>2, <2>4, <2>5 DEF TabOK
<1> QED BY <1>1, <1>2

LEMMA StartOK ==
  ASSUME NEW t, TabOK(t), IsFree(t), NEW c \in Calls
  PROVE  LET s == Start(t, c)
         IN /\ s \in Tab /\ s.phase = "ringing" /\ s.held = c /\ s.streams = {}
            /\ ~s.incoming /\ ~s.outgoing /\ ~s.accepted /\ ~s.ring /\ ~s.ringback
            /\ s.outbox = t.outbox /\ s.peerAccepted = t.peerAccepted
<1>1. /\ t \in Tab /\ ~t.incoming /\ ~t.outgoing /\ ~t.accepted /\ ~t.ring /\ ~t.ringback
      /\ t.held = NoCall /\ Sources(t)
  BY DEF TabOK, IsFree, CanStart, Agrees, Tones
<1>2. t.streams = {}
  <2>1. \A s \in t.streams : s.call \in Calls /\ s.call = NoCall
    BY <1>1 DEF Sources, Tab, Stream
  <2> QED BY <2>1 DEF Calls, NoCall
<1> QED BY <1>1, <1>2 DEF Start, Tab, CallSessionState

LEMMA MakeCallOK ==
  ASSUME NEW t, TabOK(t), IsFree(t), NEW c \in Calls
  PROVE  LET m == [MakeVideoCall(Start(t, c), c) EXCEPT !.ringback = TRUE]
         IN /\ TabOK(m) /\ m.call = c /\ m.outgoing /\ ~m.incoming /\ m.outbox = t.outbox
            /\ ~m.ready /\ ~m.peerAccepted
<1> DEFINE s == Start(t, c)
           h == [s EXCEPT !.open = TRUE, !.outgoing = TRUE, !.accepted = TRUE, !.call = c]
           v == [h EXCEPT !.ready = FALSE, !.shown = "ringing", !.declined = FALSE,
                          !.peerAccepted = FALSE]
           m == [v EXCEPT !.ringback = TRUE]
<1>1. /\ s \in Tab /\ s.phase = "ringing" /\ s.held = c /\ s.streams = {}
      /\ ~s.incoming /\ ~s.ring /\ s.outbox = t.outbox
  BY StartOK
<1> HIDE DEF s
<1>2. MakeVideoCall(s, c) = v
  BY <1>1 DEF MakeVideoCall, Tab
<1>3. /\ h \in Tab /\ h.phase = "ringing" /\ h.held = c /\ h.call = c /\ h.streams = {}
      /\ ~h.incoming /\ h.outgoing /\ h.open /\ h.accepted /\ ~h.ring /\ h.outbox = t.outbox
  BY <1>1 DEF Tab
<1> HIDE DEF h
<1>4. /\ v \in Tab /\ v.phase = "ringing" /\ v.held = c /\ v.call = c /\ v.streams = {}
      /\ ~v.incoming /\ v.outgoing /\ v.open /\ ~v.ring /\ v.outbox = t.outbox
      /\ ~v.ready /\ v.shown = "ringing" /\ ~v.declined /\ ~v.peerAccepted
  BY <1>3 DEF Tab, CallSessionState
<1> HIDE DEF v
<1>5. /\ m \in Tab /\ m.phase = "ringing" /\ m.held = c /\ m.call = c /\ m.streams = {}
      /\ ~m.incoming /\ m.outgoing /\ m.open /\ ~m.ring /\ m.outbox = t.outbox
      /\ ~m.ready /\ m.shown = "ringing" /\ ~m.declined /\ ~m.peerAccepted /\ m.ringback
  BY <1>4 DEF Tab
<1> HIDE DEF m
<1>6. c # NoCall
  BY DEF Calls, NoCall
<1>7. Agrees(m) /\ Sources(m) /\ Tones(m)
  BY <1>5, <1>6 DEF Agrees, Sources, Tones
<1> QED BY <1>2, <1>5, <1>7 DEF TabOK, m, s

LEMMA ReceiveCallOK ==
  ASSUME NEW t, TabOK(t), IsFree(t), NEW c \in Calls
  PROVE  LET r == ReceiveCall(t, c)
         IN /\ TabOK(r) /\ r.call = c /\ r.incoming /\ ~r.outgoing
            /\ ~r.accepted /\ r.outbox = t.outbox
            /\ r.peerAccepted = t.peerAccepted /\ Hears(r, c, "cancel")
<1> DEFINE s == Start(t, c)
           v == ReceiveVideoCall(s, c)
           r == [v EXCEPT !.ring = TRUE, !.streams = @ \cup Listen(c, {"cancel"})]
<1>1. /\ s \in Tab /\ s.phase = "ringing" /\ s.held = c /\ s.streams = {}
      /\ ~s.outgoing /\ ~s.accepted /\ ~s.ringback /\ s.outbox = t.outbox
      /\ s.peerAccepted = t.peerAccepted
  BY StartOK
<1> HIDE DEF s
<1>2. /\ v \in Tab /\ v.phase = "ringing" /\ v.held = c /\ v.call = c /\ v.streams = {}
      /\ v.incoming /\ ~v.outgoing /\ v.open /\ ~v.accepted /\ ~v.ringback
      /\ v.outbox = t.outbox /\ v.ready /\ v.shown = "ringing"
      /\ v.peerAccepted = t.peerAccepted
  BY <1>1 DEF ReceiveVideoCall, Tab, CallSessionState
<1> HIDE DEF v
<1>3. /\ Listen(c, {"cancel"}) \in SUBSET Stream
      /\ \A l \in Listen(c, {"cancel"}) : l.call = c /\ l.kind = "cancel"
      /\ \E l \in Listen(c, {"cancel"}) : l.call = c /\ l.kind = "cancel"
  BY ListenType
<1> HIDE DEF Listen
<1>4. /\ r \in Tab /\ r.phase = "ringing" /\ r.held = c /\ r.call = c
      /\ r.streams = Listen(c, {"cancel"})
      /\ r.incoming /\ ~r.outgoing /\ r.open /\ ~r.accepted /\ ~r.ringback /\ r.ring
      /\ r.outbox = t.outbox /\ r.ready /\ r.shown = "ringing"
      /\ r.peerAccepted = t.peerAccepted
  BY <1>2, <1>3 DEF Tab
<1>5. ReceiveCall(t, c) = r
  BY DEF ReceiveCall, v, s
<1> HIDE DEF r
<1>6. c # NoCall
  BY DEF Calls, NoCall
<1>7. Agrees(r) /\ Sources(r) /\ Tones(r)
  BY <1>3, <1>4, <1>6 DEF Agrees, Sources, Tones
<1> QED BY <1>3, <1>4, <1>5, <1>7 DEF TabOK, Hears

LEMMA HubReadyOK ==
  ASSUME NEW t, TabOK(t), t.outgoing, NEW c \in Calls, t.call = c
  PROVE  LET h == [SignalSessionReady(t)
                     EXCEPT !.streams = @ \cup Listen(c, {"accept", "decline"}),
                            !.outbox = {Word("invite", c)}]
         IN /\ TabOK(h) /\ h.call = c /\ h.outgoing /\ ~h.incoming
            /\ h.outbox = {Word("invite", c)}
            /\ h.ready /\ h.peerAccepted = t.peerAccepted /\ Hears(h, c, "decline")
            /\ t.streams \subseteq h.streams
<1> DEFINE v == SignalSessionReady(t)
           h == [v EXCEPT !.streams = @ \cup Listen(c, {"accept", "decline"}),
                          !.outbox = {Word("invite", c)}]
<1>1. /\ t \in Tab /\ Agrees(t) /\ Sources(t) /\ Tones(t) /\ ~t.incoming /\ t.open
      /\ c # NoCall /\ t.held = c /\ ~t.ring
  BY DEF TabOK, Agrees, Tones, Calls, NoCall
<1>2. /\ v \in Tab /\ v.phase = t.phase /\ v.held = c /\ v.call = c /\ v.streams = t.streams
      /\ ~v.incoming /\ v.outgoing /\ v.open /\ ~v.ring /\ v.ready
      /\ v.shown = t.shown /\ v.declined = t.declined /\ v.ringback = t.ringback
      /\ v.peerAccepted = t.peerAccepted
  BY <1>1 DEF SignalSessionReady, Tab
<1> HIDE DEF v
<1>3. /\ Listen(c, {"accept", "decline"}) \in SUBSET Stream
      /\ \A l \in Listen(c, {"accept", "decline"}) :
           l.call = c /\ l.kind \in {"accept", "decline"}
      /\ \E l \in Listen(c, {"accept", "decline"}) : l.call = c /\ l.kind = "decline"
  BY ListenType
<1>4. {Word("invite", c)} \in SUBSET [word : {"invite", "accept", "decline", "cancel"}, call : Calls]
  BY DEF Word
<1> HIDE DEF Listen, Word
<1>5. /\ h \in Tab /\ h.phase = t.phase /\ h.held = c /\ h.call = c
      /\ h.streams = t.streams \cup Listen(c, {"accept", "decline"})
      /\ ~h.incoming /\ h.outgoing /\ h.open /\ ~h.ring /\ h.ready
      /\ h.shown = t.shown /\ h.declined = t.declined /\ h.ringback = t.ringback
      /\ h.peerAccepted = t.peerAccepted /\ h.outbox = {Word("invite", c)}
  BY <1>2, <1>3, <1>4 DEF Tab
<1> HIDE DEF h
<1>6. Agrees(h) /\ Tones(h)
  BY <1>1, <1>5 DEF Agrees, Tones
<1>7. Sources(h)
  BY <1>1, <1>3, <1>5 DEF Sources
<1>8. Hears(h, c, "decline")
  BY <1>3, <1>5 DEF Hears
<1> QED BY <1>5, <1>6, <1>7, <1>8 DEF TabOK, h, v

(* A caller gives up, whether or not it closed event sources before. *)
LEMMA GiveUpOK ==
  ASSUME NEW t, TabOK(t), t.outbox = {}, NEW c \in Calls
  PROVE  LET g == GiveUp(t, c)
         IN /\ TabOK(g) /\ g.outbox = {}
            /\ g = t \/ (g.call = NoCall /\ ~t.incoming)
            /\ IF t.outgoing /\ t.call = c THEN ~g.peerAccepted /\ g.call = NoCall
               ELSE g = t
<1>1. CASE ~(t.outgoing /\ t.call = c)
  BY <1>1 DEF GiveUp, TabOK, Agrees
<1>2. CASE t.outgoing /\ t.call = c
  <2> DEFINE q == [t EXCEPT !.ringback = FALSE]
             f == [[q EXCEPT !.phase = "failed"] EXCEPT !.shown = "failed"]
             g == CallOver(ReleaseCallResources(f, c))
  <2>1. /\ t \in Tab /\ Agrees(t) /\ Tones(t) /\ ~t.incoming /\ c # NoCall
        /\ t.held = c /\ t.phase # "idle" /\ ~t.ring /\ t.open /\ ~t.declined
    BY <1>2 DEF TabOK, Agrees, Tones, Calls, NoCall
  <2>2. /\ q \in Tab /\ q.held = c /\ q.call = c /\ q.phase = t.phase /\ q.shown = t.shown
        /\ ~q.ring /\ ~q.ringback /\ q.open /\ q.outgoing /\ ~q.incoming /\ ~q.declined
        /\ q.outbox = {}
    BY <1>2, <2>1 DEF Tab
  <2>3. GiveUp(t, c) = g
    BY <1>2, <2>1, <2>2 DEF GiveUp, Transition, IsCurrent, Show
  <2> HIDE DEF q
  <2>4. /\ f \in Tab /\ f.held = c /\ f.call = c /\ f.phase = "failed" /\ f.shown = "failed"
        /\ ~f.ring /\ ~f.ringback /\ f.open /\ f.outgoing /\ ~f.incoming /\ ~f.declined
        /\ f.outbox = {}
    BY <2>2 DEF Tab, CallSessionState
  <2> HIDE DEF f
  <2>5. Agrees(f)
    BY <2>1, <2>4 DEF Agrees
  <2>6. TabOK(g) /\ g.call = NoCall /\ g.outbox = {} /\ ~g.peerAccepted
    BY <2>4, <2>5, HangUpOK
  <2> QED BY <1>2, <2>1, <2>3, <2>6
<1> QED BY <1>1, <1>2

-----------------------------------------------------------------------------
(* Init and the steps. *)
LEMMA InitHolds == Init => IndInv
<1> SUFFICES ASSUME Init PROVE IndInv
  OBVIOUS
<1>1. TabsOK
  BY NewTabOK DEF Init, TabsOK, TabOK, OwnCall
<1>2. KnownCalls
  <2>1. calls \in Seq([from : Tabs, to : Users]) /\ Len(calls) = 0 /\ DOMAIN calls = {}
    BY DEF Init
  <2> QED BY <2>1, MaxCallsAssumption DEF Init, KnownCalls
<1>3. EventsHeard /\ CallerGone /\ History
  BY TabsAssumption DEF Init, EventsHeard, CallerGone, History
<1> QED BY <1>1, <1>2, <1>3 DEF IndInv

LEMMA CallFacts ==
  ASSUME KnownCalls
  PROVE  /\ DOMAIN calls = 1..Len(calls) /\ Len(calls) \in Nat
         /\ DOMAIN calls \subseteq Calls
         /\ \A c \in DOMAIN calls : /\ Caller(c) \in Tabs /\ calls[c].to \in Users
                                    /\ calls[c].to # UserOf[Caller(c)]
<1>1. DOMAIN calls = 1..Len(calls) /\ Len(calls) \in Nat
  BY DEF KnownCalls
<1>2. DOMAIN calls \subseteq Calls
  BY <1>1, MaxCallsAssumption DEF KnownCalls, Calls
<1>3. \A c \in DOMAIN calls : calls[c] \in [from : Tabs, to : Users]
  BY <1>1, ElementOfSeq DEF KnownCalls
<1> QED BY <1>1, <1>2, <1>3 DEF KnownCalls, Caller

(* A handler of tab x leaves it at t. It may drop its call, or take one     *)
(* that is not its own.                                                     *)
LEMMA LeaveSafe ==
  ASSUME IndInv, NEW x \in Tabs, NEW t, NEW pending \in SUBSET net,
         NEW underway \in SUBSET events,
         TabOK(t), OwnCall(x, t), SaysOK(x, t),
         t.call = tabs[x].call \/ t.call = NoCall \/ Caller(t.call) # x,
         Leave(x, t, pending, underway), UNCHANGED calls,
         creating' \subseteq creating, awaiting' \subseteq awaiting \cup creating
  PROVE  TabsOK' /\ KnownCalls' /\ EventsHeard' /\ CallerGone'
<1> DEFINE n == [t EXCEPT !.outbox = {}]
<1>1. /\ tabs' = [tabs EXCEPT ![x] = n]
      /\ net' = pending \cup Sent(x, t)
      /\ events' = {e \in underway : Heard(x, t, e)}
      /\ calls' = calls
  BY DEF Leave
<1>2. TabOK(n) /\ n.call = t.call /\ n.streams = t.streams /\ n.outbox = {} /\ OwnCall(x, n)
  <2>1. t \in Tab
    BY DEF TabOK
  <2>2. /\ n \in Tab /\ n.outbox = {}
        /\ n.phase = t.phase /\ n.held = t.held /\ n.streams = t.streams
        /\ n.open = t.open /\ n.incoming = t.incoming /\ n.outgoing = t.outgoing
        /\ n.accepted = t.accepted /\ n.peerAccepted = t.peerAccepted
        /\ n.declined = t.declined /\ n.call = t.call /\ n.ready = t.ready
        /\ n.shown = t.shown /\ n.ring = t.ring /\ n.ringback = t.ringback
    BY <2>1 DEF Tab
  <2> HIDE DEF n
  <2>3. Agrees(n) /\ Sources(n) /\ Tones(n)
    BY <2>2 DEF TabOK, Agrees, Sources, Tones
  <2> QED BY <2>2, <2>3 DEF TabOK, OwnCall
<1> HIDE DEF n
<1>3. tabs \in [Tabs -> Tab] /\ tabs'[x] = n /\ \A y \in Tabs \ {x} : tabs'[y] = tabs[y]
  BY <1>1 DEF IndInv, TabsOK
<1>4. TabsOK'
  <2>1. tabs' \in [Tabs -> Tab]
    BY <1>1, <1>2, <1>3 DEF TabOK
  <2>2. ASSUME NEW y \in Tabs
        PROVE  (TabOK(tabs[y]) /\ OwnCall(y, tabs[y]) /\ tabs[y].outbox = {})'
    <3>1. CASE y = x
      BY <1>1, <1>2, <1>3, <3>1 DEF TabOK, Agrees, Sources, Tones, OwnCall, Caller
    <3>2. CASE y # x
      <4>1. tabs'[y] = tabs[y] /\ TabOK(tabs[y]) /\ OwnCall(y, tabs[y]) /\ tabs[y].outbox = {}
        BY <1>3, <3>2 DEF IndInv, TabsOK
      <4> QED BY <1>1, <4>1 DEF TabOK, Agrees, Sources, Tones, OwnCall, Caller
    <3> QED BY <3>1, <3>2
  <2> QED BY <2>1, <2>2 DEF TabsOK
<1>5. \A p \in Sent(x, t) :
        /\ p \in Request /\ p.call \in DOMAIN calls /\ p.from = x
        /\ p.kind = "cancel" => Caller(p.call) = x /\ t.call # p.call
  <2> SUFFICES ASSUME NEW p \in Sent(x, t)
               PROVE  /\ p \in Request /\ p.call \in DOMAIN calls /\ p.from = x
                      /\ p.kind = "cancel" => Caller(p.call) = x /\ t.call # p.call
    OBVIOUS
  <2>1. PICK w \in t.outbox : p = [kind |-> w.word, call |-> w.call, from |-> x]
    BY DEF Sent
  <2>2. w \in [word : {"invite", "accept", "decline", "cancel"}, call : Calls]
    BY DEF TabOK, Tab
  <2> QED BY <2>1, <2>2 DEF SaysOK, Request
<1>6. KnownCalls'
  BY <1>1, <1>5 DEF IndInv, KnownCalls, Caller
<1>7. EventsHeard'
  <2> SUFFICES ASSUME NEW e \in events'
               PROVE  IF e.kind = "inbox" THEN UserOf[e.tab] = calls'[e.call].to
                      ELSE \E s \in tabs'[e.tab].streams : s.call = e.call /\ s.kind = e.kind
    BY DEF EventsHeard
  <2>1. e \in events /\ Heard(x, t, e) /\ e.tab \in Tabs
    BY <1>1 DEF IndInv, KnownCalls, Event
  <2>2. CASE e.kind = "inbox"
    BY <1>1, <2>1, <2>2 DEF IndInv, EventsHeard
  <2>3. CASE e.kind # "inbox" /\ e.tab = x
    BY <1>2, <1>3, <2>1, <2>3 DEF Heard
  <2>4. CASE e.kind # "inbox" /\ e.tab # x
    BY <1>3, <2>1, <2>4 DEF IndInv, EventsHeard
  <2> QED BY <2>2, <2>3, <2>4
<1>8. CallerGone'
  <2>1. ASSUME NEW c \in DOMAIN calls, tabs[Caller(c)].call # c
        PROVE  tabs'[Caller(c)].call # c
    <3>1. Caller(c) \in Tabs /\ c \in Calls
      BY CallFacts DEF IndInv
    <3>2. CASE Caller(c) # x
      BY <1>3, <2>1, <3>1, <3>2
    <3>3. CASE Caller(c) = x
      BY <1>2, <1>3, <2>1, <3>1, <3>3 DEF Calls, NoCall
    <3> QED BY <3>2, <3>3
  <2>2. ASSUME NEW p \in net', p.kind = "cancel"
        PROVE  p.from = Caller(p.call)' /\ tabs'[p.from].call # p.call
    <3>1. CASE p \in net
      BY <1>1, <2>1, <2>2, <3>1 DEF IndInv, CallerGone, KnownCalls, Caller
    <3>2. CASE p \in Sent(x, t)
      BY <1>1, <1>2, <1>3, <1>5, <2>2, <3>2 DEF Caller
    <3> QED BY <1>1, <3>1, <3>2
  <2>3. ASSUME NEW e \in events', e.word = "cancel", e.kind # "inbox"
        PROVE  tabs'[Caller(e.call)'].call # e.call
    <3>1. e \in events /\ e.call \in DOMAIN calls /\ tabs[Caller(e.call)].call # e.call
      BY <1>1, <2>3 DEF IndInv, CallerGone, KnownCalls
    <3> QED BY <1>1, <2>1, <3>1 DEF Caller
  <2> QED BY <2>2, <2>3 DEF CallerGone
<1> QED BY <1>4, <1>6, <1>7, <1>8

Kept == TabsOK /\ KnownCalls /\ EventsHeard /\ CallerGone

LEMMA MakeCallKeeps ==
  ASSUME IndInv, NEW x \in Tabs, NEW u \in Users, MakeCall(x, u)
  PROVE  Kept'
<1> DEFINE c == Len(calls) + 1
           m == [MakeVideoCall(Start(tabs[x], c), c) EXCEPT !.ringback = TRUE]
           n == [m EXCEPT !.outbox = {}]
<1>1. /\ KnownCalls /\ TabOK(tabs[x]) /\ tabs[x].outbox = {} /\ tabs \in [Tabs -> Tab]
      /\ calls \in Seq([from : Tabs, to : Users])
  BY DEF IndInv, TabsOK, KnownCalls
<1>2. c \in Calls /\ IsFree(tabs[x])
  BY DEF MakeCall
<1>3. TabOK(m) /\ m.call = c /\ m.outgoing /\ ~m.incoming /\ m.outbox = {}
  BY <1>1, <1>2, MakeCallOK
<1>4. n = m
  BY <1>3 DEF TabOK, Tab
<1>5. /\ tabs' = [tabs EXCEPT ![x] = n]
      /\ net' = net \cup Sent(x, m)
      /\ events' = {e \in events : Heard(x, m, e)}
      /\ calls' = Append(calls, [from |-> x, to |-> u])
      /\ creating' = creating \cup {c} /\ awaiting' = awaiting
      /\ u # UserOf[x] /\ c <= MaxCalls
  BY <1>2 DEF MakeCall, Handled, Leave, Calls
<1> HIDE DEF n, m
<1>6. Sent(x, m) = {}
  BY <1>3 DEF Sent
<1>7. /\ DOMAIN calls = 1..Len(calls) /\ Len(calls) \in Nat /\ DOMAIN calls \subseteq Calls
      /\ \A d \in DOMAIN calls : Caller(d) \in Tabs
  BY <1>1, CallFacts
<1>8. /\ calls' \in Seq([from : Tabs, to : Users]) /\ Len(calls') = c
      /\ DOMAIN calls' = DOMAIN calls \cup {c} /\ c \notin DOMAIN calls
      /\ \A d \in DOMAIN calls : calls'[d] = calls[d]
      /\ calls'[c] = [from |-> x, to |-> u]
  <2>1. [from |-> x, to |-> u] \in [from : Tabs, to : Users]
    OBVIOUS
  <2>2. /\ calls' \in Seq([from : Tabs, to : Users]) /\ Len(calls') = c
        /\ \A d \in 1..Len(calls) : calls'[d] = calls[d]
        /\ calls'[c] = [from |-> x, to |-> u]
    BY <1>1, <1>5, <2>1, AppendProperties
  <2>3. DOMAIN calls' = 1..c
    BY <2>2
  <2> QED BY <1>7, <2>2, <2>3
<1>9. tabs'[x] = m /\ \A y \in Tabs \ {x} : tabs'[y] = tabs[y]
  BY <1>1, <1>4, <1>5
<1>10. TabsOK'
  <2>1. tabs' \in [Tabs -> Tab]
    BY <1>1, <1>3, <1>4, <1>5 DEF TabOK
  <2>2. ASSUME NEW y \in Tabs
        PROVE  (TabOK(tabs[y]) /\ OwnCall(y, tabs[y]) /\ tabs[y].outbox = {})'
    <3>1. CASE y = x
      BY <1>3, <1>8, <1>9, <3>1 DEF TabOK, Agrees, Sources, Tones, OwnCall, Caller
    <3>2. CASE y # x
      <4>1. tabs'[y] = tabs[y] /\ TabOK(tabs[y]) /\ OwnCall(y, tabs[y]) /\ tabs[y].outbox = {}
        BY <1>9, <3>2 DEF IndInv, TabsOK
      <4> QED BY <1>8, <4>1 DEF TabOK, Agrees, Sources, Tones, OwnCall, Caller
    <3> QED BY <3>1, <3>2
  <2> QED BY <2>1, <2>2 DEF TabsOK
<1>11. KnownCalls'
  BY <1>1, <1>5, <1>6, <1>8 DEF KnownCalls, Caller
<1>12. EventsHeard'
  <2> SUFFICES ASSUME NEW e \in events'
               PROVE  IF e.kind = "inbox" THEN UserOf[e.tab] = calls'[e.call].to
                      ELSE \E s \in tabs'[e.tab].streams : s.call = e.call /\ s.kind = e.kind
    BY DEF EventsHeard
  <2>1. e \in events /\ Heard(x, m, e) /\ e.tab \in Tabs /\ e.call \in DOMAIN calls
    BY <1>1, <1>5 DEF KnownCalls, Event
  <2>2. CASE e.kind = "inbox"
    BY <1>8, <2>1, <2>2 DEF IndInv, EventsHeard
  <2>3. CASE e.kind # "inbox" /\ e.tab = x
    BY <1>9, <2>1, <2>3 DEF Heard
  <2>4. CASE e.kind # "inbox" /\ e.tab # x
    BY <1>9, <2>1, <2>4 DEF IndInv, EventsHeard
  <2> QED BY <2>2, <2>3, <2>4
<1>13. CallerGone'
  <2>1. ASSUME NEW d \in DOMAIN calls, tabs[Caller(d)].call # d
        PROVE  tabs'[calls'[d].from].call # d
    BY <1>3, <1>7, <1>8, <1>9, <2>1 DEF Caller
  <2>2. ASSUME NEW p \in net', p.kind = "cancel"
        PROVE  p.from = calls'[p.call].from /\ tabs'[p.from].call # p.call
    <3>1. p \in net /\ p.call \in DOMAIN calls
      BY <1>1, <1>5, <1>6 DEF KnownCalls
    <3>2. p.from = Caller(p.call) /\ tabs[p.from].call # p.call
      BY <2>2, <3>1 DEF IndInv, CallerGone
    <3> QED BY <1>8, <2>1, <3>1, <3>2 DEF Caller
  <2>3. ASSUME NEW e \in events', e.word = "cancel", e.kind # "inbox"
        PROVE  tabs'[calls'[e.call].from].call # e.call
    <3>1. e \in events /\ e.call \in DOMAIN calls /\ tabs[Caller(e.call)].call # e.call
      BY <1>1, <1>5, <2>3 DEF IndInv, CallerGone, KnownCalls
    <3> QED BY <2>1, <3>1
  <2> QED BY <2>2, <2>3 DEF CallerGone, Caller
<1> QED BY <1>10, <1>11, <1>12, <1>13 DEF Kept

(* A handler that says nothing is a simple case of LeaveSafe. *)
LEMMA SilentLeaveSafe ==
  ASSUME IndInv, NEW x \in Tabs, NEW t, NEW pending \in SUBSET net,
         NEW underway \in SUBSET events,
         TabOK(t), t.call \in {NoCall, tabs[x].call}, t.outbox = {},
         t.outgoing => tabs[x].outgoing \/ t.call = NoCall,
         t.incoming => tabs[x].incoming \/ t.call = NoCall,
         Leave(x, t, pending, underway), UNCHANGED calls,
         creating' \subseteq creating, awaiting' \subseteq awaiting \cup creating
  PROVE  Kept'
<1>1. OwnCall(x, tabs[x])
  BY DEF IndInv, TabsOK
<1>2. OwnCall(x, t) /\ SaysOK(x, t)
  BY <1>1 DEF OwnCall, SaysOK
<1> QED BY <1>2, LeaveSafe DEF Kept

LEMMA HubKeeps ==
  ASSUME IndInv, NEW c \in creating, HubCreated(c) \/ HubFails(c)
  PROVE  Kept'
<1>1. KnownCalls /\ c \in DOMAIN calls
  BY DEF IndInv, KnownCalls
<1> PICK x : x = Caller(c)
  OBVIOUS
<1>2. c \in Calls /\ x \in Tabs
  BY <1>1, CallFacts
<1>3. TabOK(tabs[x]) /\ OwnCall(x, tabs[x]) /\ tabs[x].outbox = {}
  BY <1>2 DEF IndInv, TabsOK
<1>4. CASE HubFails(c)
  <2>1. Leave(x, GiveUp(tabs[x], c), net, events) /\ UNCHANGED <<calls, awaiting>>
        /\ creating' \subseteq creating
    BY <1>4 DEF HubFails, Handled
  <2>2. LET g == GiveUp(tabs[x], c)
        IN /\ TabOK(g) /\ g.outbox = {}
           /\ g = tabs[x] \/ (g.call = NoCall /\ ~tabs[x].incoming)
    BY <1>2, <1>3, GiveUpOK
  <2> QED BY <1>2, <2>1, <2>2, SilentLeaveSafe
<1>5. CASE HubCreated(c)
  <2> DEFINE h == [SignalSessionReady(tabs[x])
                     EXCEPT !.streams = @ \cup Listen(c, {"accept", "decline"}),
                            !.outbox = {Word("invite", c)}]
  <2>1. CASE tabs[x].outgoing /\ tabs[x].call = c
    <3>1. /\ Leave(x, h, net, events) /\ UNCHANGED calls
          /\ creating' \subseteq creating /\ awaiting' = awaiting \cup {c}
      BY <1>5, <2>1 DEF HubCreated, Handled
    <3>2. /\ TabOK(h) /\ h.call = c /\ h.outgoing /\ ~h.incoming
          /\ h.outbox = {Word("invite", c)}
          /\ h.ready /\ h.peerAccepted = tabs[x].peerAccepted /\ Hears(h, c, "decline")
          /\ tabs[x].streams \subseteq h.streams
      BY <1>2, <1>3, <2>1, HubReadyOK
    <3> HIDE DEF h
    <3>3. OwnCall(x, h) /\ SaysOK(x, h)
      BY <1>1, <3>2 DEF OwnCall, SaysOK, Word
    <3> QED BY <1>2, <2>1, <3>1, <3>2, <3>3, LeaveSafe DEF Kept
  <2>2. CASE ~(tabs[x].outgoing /\ tabs[x].call = c)
    <3>1. /\ UNCHANGED <<tabs, calls, net, events, awaiting>> /\ creating' \subseteq creating
      BY <1>5, <2>2 DEF HubCreated
    <3> QED BY <3>1 DEF IndInv, Kept, TabsOK, KnownCalls, EventsHeard, CallerGone, TabOK,
                        Agrees, Sources, Tones, OwnCall, Caller
  <2> QED BY <2>1, <2>2
<1> QED BY <1>4, <1>5

LEMMA InviteFailsKeeps ==
  ASSUME IndInv, NEW c \in awaiting, InviteFails(c)
  PROVE  Kept'
<1> DEFINE x == Caller(c)
           t == [tabs[x] EXCEPT !.streams = {s \in @ : s.call # c}]
           g == GiveUp(t, c)
<1>1. KnownCalls /\ c \in DOMAIN calls
  BY DEF IndInv, KnownCalls
<1>2. c \in Calls /\ x \in Tabs
  BY <1>1, CallFacts
<1>3. TabOK(tabs[x]) /\ tabs[x].outbox = {}
  BY <1>2 DEF IndInv, TabsOK
<1>4. PICK pending \in SUBSET net :
        /\ Leave(x, g, pending, events)
        /\ calls' = calls /\ creating' = creating /\ awaiting' \subseteq awaiting
  BY DEF InviteFails, OtherThanInvite
<1> HIDE DEF x
<1>5. /\ TabOK(t) /\ t.call = tabs[x].call /\ t.outbox = {}
      /\ t.outgoing = tabs[x].outgoing /\ t.incoming = tabs[x].incoming
  <2>1. tabs[x] \in Tab
    BY <1>3 DEF TabOK
  <2>2. /\ t \in Tab /\ t.phase = tabs[x].phase /\ t.held = tabs[x].held
        /\ t.streams \subseteq tabs[x].streams
        /\ t.open = tabs[x].open /\ t.incoming = tabs[x].incoming
        /\ t.outgoing = tabs[x].outgoing /\ t.accepted = tabs[x].accepted
        /\ t.peerAccepted = tabs[x].peerAccepted /\ t.declined = tabs[x].declined
        /\ t.call = tabs[x].call /\ t.ready = tabs[x].ready /\ t.shown = tabs[x].shown
        /\ t.ring = tabs[x].ring /\ t.ringback = tabs[x].ringback
        /\ t.outbox = tabs[x].outbox
    BY <2>1 DEF Tab
  <2> HIDE DEF t
  <2>3. Agrees(t) /\ Sources(t) /\ Tones(t)
    BY <1>3, <2>2 DEF TabOK, Agrees, Sources, Tones
  <2> QED BY <1>3, <2>2, <2>3 DEF TabOK
<1> HIDE DEF t
<1>6. TabOK(g) /\ g.outbox = {} /\ (g = t \/ g.call = NoCall)
  BY <1>2, <1>5, GiveUpOK
<1> HIDE DEF g
<1>7. /\ g.call \in {NoCall, tabs[x].call}
      /\ g.outgoing => tabs[x].outgoing \/ g.call = NoCall
      /\ g.incoming => tabs[x].incoming \/ g.call = NoCall
  BY <1>5, <1>6
<1> QED BY <1>2, <1>4, <1>6, <1>7, SilentLeaveSafe

(* Steps that leave the tabs alone. *)
LEMMA NetworkKeeps ==
  ASSUME IndInv, UNCHANGED <<tabs, calls>>,
         creating' \subseteq creating, awaiting' \subseteq awaiting,
         net' \subseteq net, events' \subseteq Event,
         \A e \in events' \ events :
           /\ e.call \in DOMAIN calls
           /\ IF e.kind = "inbox" THEN UserOf[e.tab] = calls[e.call].to
              ELSE \E s \in tabs[e.tab].streams : s.call = e.call /\ s.kind = e.kind
           /\ e.word = "cancel" /\ e.kind # "inbox" => tabs[Caller(e.call)].call # e.call
  PROVE  Kept'
<1>1. TabsOK'
  BY DEF IndInv, TabsOK, TabOK, Agrees, Sources, Tones, OwnCall, Caller
<1>2. KnownCalls'
  BY DEF IndInv, KnownCalls, Caller
<1>3. EventsHeard'
  <2> SUFFICES ASSUME NEW e \in events'
               PROVE  IF e.kind = "inbox" THEN UserOf[e.tab] = calls[e.call].to
                      ELSE \E s \in tabs[e.tab].streams : s.call = e.call /\ s.kind = e.kind
    BY DEF EventsHeard
  <2> QED BY DEF IndInv, EventsHeard
<1>4. CallerGone'
  <2>1. ASSUME NEW p \in net', p.kind = "cancel"
        PROVE  p.from = Caller(p.call) /\ tabs[p.from].call # p.call
    BY <2>1 DEF IndInv, CallerGone
  <2>2. ASSUME NEW e \in events', e.word = "cancel", e.kind # "inbox"
        PROVE  tabs[Caller(e.call)].call # e.call
    BY <2>2 DEF IndInv, CallerGone
  <2> QED BY <2>1, <2>2 DEF CallerGone, Caller
<1> QED BY <1>1, <1>2, <1>3, <1>4 DEF Kept

LEMMA ServerKeeps ==
  ASSUME IndInv, NEW p \in net, InviteArrives(p) \/ PostArrives(p) \/ PostLost(p)
  PROVE  Kept'
<1>1. /\ p \in Request /\ p.call \in DOMAIN calls /\ events \subseteq Event /\ KnownCalls
  BY DEF IndInv, KnownCalls
<1>2. /\ p.call \in Calls /\ UserOf[p.from] \in Users
  BY <1>1, CallFacts, TabsAssumption DEF Request
<1>3. CASE InviteArrives(p)
  <2> DEFINE new == {[kind |-> "inbox", call |-> p.call, tab |-> x, word |-> "invite",
                      from |-> UserOf[p.from]] : x \in CalleeTabs(p.call)}
  <2>1. /\ net' = net \ {p} /\ events' = events \cup new
        /\ UNCHANGED <<tabs, calls, creating, awaiting>>
    BY <1>3 DEF InviteArrives
  <2>2. ASSUME NEW e \in new
        PROVE  /\ e \in Event /\ e.call \in DOMAIN calls /\ e.kind = "inbox"
               /\ UserOf[e.tab] = calls[e.call].to
    BY <1>1, <1>2 DEF Event, CalleeTabs
  <2> HIDE DEF new
  <2> QED BY <1>1, <2>1, <2>2, NetworkKeeps
<1>4. CASE PostArrives(p)
  <2> DEFINE new == {e \in Listeners(p.call) : e.word = p.kind /\ e.from = UserOf[p.from]}
  <2>1. /\ net' = net \ {p} /\ events' = events \cup new
        /\ UNCHANGED <<tabs, calls, creating, awaiting>>
    BY <1>4 DEF PostArrives
  <2>2. ASSUME NEW e \in new
        PROVE  /\ e \in Event /\ e.call \in DOMAIN calls /\ e.word = p.kind
               /\ e.call = p.call
               /\ \E s \in tabs[e.tab].streams : s.call = e.call /\ s.kind = e.kind
    BY <1>1 DEF Listeners
  <2>3. ASSUME NEW e \in new
        PROVE  e.kind # "inbox"
    <3>1. PICK s \in tabs[e.tab].streams : s.kind = e.kind
      BY <2>2
    <3>2. s \in Stream
      BY <2>2 DEF IndInv, TabsOK, Event, Tab
    <3> QED BY <3>1, <3>2 DEF Stream
  <2>4. p.kind = "cancel" => tabs[Caller(p.call)].call # p.call
    BY DEF IndInv, CallerGone
  <2> HIDE DEF new
  <2> QED BY <1>1, <2>1, <2>2, <2>3, <2>4, NetworkKeeps
<1>5. CASE PostLost(p)
  <2>1. /\ net' = net \ {p} /\ UNCHANGED <<tabs, calls, creating, awaiting, events>>
    BY <1>5 DEF PostLost
  <2> QED BY <1>1, <2>1, NetworkKeeps
<1> QED BY <1>3, <1>4, <1>5

(* A source that opens is still a source of the same kind for the same call. *)
LEMMA SameSource ==
  ASSUME NEW s \in Stream
  PROVE  LET o == [s EXCEPT !.live = TRUE]
         IN o \in Stream /\ o.call = s.call /\ o.kind = s.kind
BY DEF Stream

LEMMA SourceOpensKeeps ==
  ASSUME IndInv, NEW x \in Tabs, NEW s \in tabs[x].streams, SourceOpens(x, s)
  PROVE  Kept'
<1> PICK o : o = [s EXCEPT !.live = TRUE]
  OBVIOUS
<1>0. PICK live : live = (tabs[x].streams \ {s}) \cup {o}
  OBVIOUS
<1> DEFINE n == [tabs[x] EXCEPT !.streams = live]
<1>1. /\ TabOK(tabs[x]) /\ OwnCall(x, tabs[x]) /\ tabs[x].outbox = {}
      /\ tabs[x] \in Tab /\ tabs \in [Tabs -> Tab]
  BY DEF IndInv, TabsOK, TabOK
<1>2. /\ tabs' = [tabs EXCEPT ![x] = n]
      /\ UNCHANGED <<calls, creating, awaiting, net, events>>
  BY <1>0, <1>1 DEF SourceOpens
<1>3. tabs[x].streams \in SUBSET Stream
  BY <1>1 DEF Tab
<1>4. /\ live \in SUBSET Stream
      /\ \A l \in live : \E r \in tabs[x].streams : l.call = r.call /\ l.kind = r.kind
      /\ \A r \in tabs[x].streams : \E l \in live : l.call = r.call /\ l.kind = r.kind
  <2>1. s \in Stream
    BY <1>3
  <2>2. o \in Stream /\ o.call = s.call /\ o.kind = s.kind
    BY <2>1, SameSource
  <2> QED BY <1>0, <1>3, <2>2
<1>5. /\ n \in Tab /\ n.phase = tabs[x].phase /\ n.held = tabs[x].held /\ n.streams = live
      /\ n.open = tabs[x].open /\ n.incoming = tabs[x].incoming
      /\ n.outgoing = tabs[x].outgoing /\ n.accepted = tabs[x].accepted
      /\ n.peerAccepted = tabs[x].peerAccepted /\ n.declined = tabs[x].declined
      /\ n.call = tabs[x].call /\ n.ready = tabs[x].ready /\ n.shown = tabs[x].shown
      /\ n.ring = tabs[x].ring /\ n.ringback = tabs[x].ringback
      /\ n.outbox = tabs[x].outbox
  BY <1>1, <1>4 DEF Tab
<1> HIDE DEF n
<1>6. Agrees(n) /\ Sources(n) /\ Tones(n)
  BY <1>1, <1>4, <1>5 DEF TabOK, Agrees, Sources, Tones
<1>7. TabOK(n) /\ OwnCall(x, n) /\ n.outbox = {}
  BY <1>1, <1>5, <1>6 DEF TabOK, OwnCall
<1>8. tabs'[x] = n /\ \A y \in Tabs \ {x} : tabs'[y] = tabs[y]
  BY <1>1, <1>2
<1>9. TabsOK'
  <2>1. tabs' \in [Tabs -> Tab]
    BY <1>1, <1>2, <1>5
  <2>2. ASSUME NEW y \in Tabs
        PROVE  (TabOK(tabs[y]) /\ OwnCall(y, tabs[y]) /\ tabs[y].outbox = {})'
    <3>1. CASE y = x
      BY <1>2, <1>7, <1>8, <3>1 DEF TabOK, Agrees, Sources, Tones, OwnCall, Caller
    <3>2. CASE y # x
      <4>1. tabs'[y] = tabs[y] /\ TabOK(tabs[y]) /\ OwnCall(y, tabs[y]) /\ tabs[y].outbox = {}
        BY <1>8, <3>2 DEF IndInv, TabsOK
      <4> QED BY <1>2, <4>1 DEF TabOK, Agrees, Sources, Tones, OwnCall, Caller
    <3> QED BY <3>1, <3>2
  <2> QED BY <2>1, <2>2 DEF TabsOK
<1>10. KnownCalls'
  BY <1>2 DEF IndInv, KnownCalls, Caller
<1>11. EventsHeard'
  <2> SUFFICES ASSUME NEW e \in events
               PROVE  IF e.kind = "inbox" THEN UserOf[e.tab] = calls[e.call].to
                      ELSE \E r \in tabs'[e.tab].streams : r.call = e.call /\ r.kind = e.kind
    BY <1>2 DEF EventsHeard
  <2>1. /\ e.tab \in Tabs
        /\ IF e.kind = "inbox" THEN UserOf[e.tab] = calls[e.call].to
           ELSE \E r \in tabs[e.tab].streams : r.call = e.call /\ r.kind = e.kind
    BY DEF IndInv, KnownCalls, EventsHeard, Event
  <2> QED BY <1>4, <1>5, <1>8, <2>1
<1>12. CallerGone'
  <2>1. \A y \in Tabs : tabs'[y].call = tabs[y].call
    BY <1>5, <1>8
  <2>2. ASSUME NEW p \in net, p.kind = "cancel"
        PROVE  p.from = Caller(p.call) /\ tabs'[p.from].call # p.call
    BY <2>1, <2>2 DEF IndInv, CallerGone, KnownCalls, Request
  <2>3. ASSUME NEW e \in events, e.word = "cancel", e.kind # "inbox"
        PROVE  tabs'[Caller(e.call)].call # e.call
    BY <2>1, <2>3, CallFacts DEF IndInv, CallerGone, KnownCalls
  <2> QED BY <1>2, <2>2, <2>3 DEF CallerGone, Caller
<1> QED BY <1>9, <1>10, <1>11, <1>12 DEF Kept

LEMMA EndCallKeeps ==
  ASSUME IndInv, NEW x \in Tabs, NEW underway \in SUBSET events,
         Leave(x, EndCall(tabs[x]), net, underway), UNCHANGED <<calls, creating, awaiting>>
  PROVE  Kept'
<1> DEFINE t == tabs[x]
           d == EndCall(t)
<1>1. TabOK(t) /\ OwnCall(x, t) /\ t.outbox = {}
  BY DEF IndInv, TabsOK
<1>2. /\ TabOK(d) /\ d.call = NoCall
      /\ d.outbox # {} => d.outbox = {Word("cancel", t.call)} /\ t.outgoing /\ t.call # NoCall
  BY <1>1, EndCallOK
<1>3. OwnCall(x, d)
  BY <1>2 DEF OwnCall
<1>4. SaysOK(x, d)
  <2> SUFFICES ASSUME NEW w \in d.outbox
               PROVE  /\ w.call \in DOMAIN calls
                      /\ w.word = "cancel" => Caller(w.call) = x /\ d.call # w.call
    BY DEF SaysOK
  <2>1. w = [word |-> "cancel", call |-> t.call] /\ t.outgoing /\ t.call # NoCall
    BY <1>2 DEF Word
  <2> QED BY <1>1, <1>2, <2>1 DEF OwnCall
<1> QED BY <1>2, <1>3, <1>4, LeaveSafe DEF Kept

LEMMA InboxKeeps ==
  ASSUME IndInv, NEW e \in events, InboxEvent(e)
  PROVE  Kept'
<1>1. /\ KnownCalls /\ e \in Event /\ e.call \in DOMAIN calls /\ e.tab \in Tabs
      /\ e.kind = "inbox" /\ UserOf[e.tab] = calls[e.call].to
  BY DEF IndInv, KnownCalls, EventsHeard, InboxEvent, Event
<1>2. e.call \in Calls /\ Caller(e.call) # e.tab
  BY <1>1, CallFacts
<1>3. TabOK(tabs[e.tab]) /\ tabs[e.tab].outbox = {}
  BY <1>1 DEF IndInv, TabsOK
<1>4. CASE IsFree(tabs[e.tab])
  <2> DEFINE r == ReceiveCall(tabs[e.tab], e.call)
  <2>1. /\ Leave(e.tab, r, net, events \ {e}) /\ UNCHANGED <<calls, creating, awaiting>>
    BY <1>4 DEF InboxEvent
  <2>2. /\ TabOK(r) /\ r.call = e.call /\ r.incoming /\ ~r.outgoing /\ r.outbox = {}
    BY <1>2, <1>3, <1>4, ReceiveCallOK
  <2> HIDE DEF r
  <2>3. OwnCall(e.tab, r) /\ SaysOK(e.tab, r)
    BY <1>1, <2>2 DEF OwnCall, SaysOK
  <2> QED BY <1>1, <1>2, <2>1, <2>2, <2>3, LeaveSafe DEF Kept
<1>5. CASE ~IsFree(tabs[e.tab])
  <2>1. UNCHANGED <<tabs, calls, creating, awaiting, net>> /\ events' = events \ {e}
    BY <1>5 DEF InboxEvent
  <2> QED BY <2>1, NetworkKeeps DEF IndInv, KnownCalls
<1> QED BY <1>4, <1>5

(* An event of a hub only reaches a tab on the side of the call it is for. *)
LEMMA HeardBy ==
  ASSUME IndInv, NEW e \in events, e.kind # "inbox"
  PROVE  LET t == tabs[e.tab]
         IN /\ e.tab \in Tabs /\ e.call \in DOMAIN calls /\ t.call = e.call /\ TabOK(t)
            /\ t.outbox = {}
            /\ e.kind \in {"accept", "decline", "cancel"}
            /\ e.kind \in {"accept", "decline"} => t.outgoing /\ ~t.incoming
            /\ e.kind = "cancel" => t.incoming /\ ~t.outgoing
<1>1. e \in Event /\ e.call \in DOMAIN calls
  BY DEF IndInv, KnownCalls
<1>2. e.tab \in Tabs /\ e.kind \in {"accept", "decline", "cancel"}
  BY <1>1 DEF Event
<1>3. TabOK(tabs[e.tab]) /\ tabs[e.tab].outbox = {}
  BY <1>2 DEF IndInv, TabsOK
<1>4. PICK s \in tabs[e.tab].streams : s.call = e.call /\ s.kind = e.kind
  BY DEF IndInv, EventsHeard
<1> QED BY <1>1, <1>2, <1>3, <1>4 DEF TabOK, Sources, Agrees

LEMMA HubEventKeeps ==
  ASSUME IndInv, NEW e \in events, HubEvent(e)
  PROVE  Kept'
<1> DEFINE x == e.tab
           t == tabs[x]
<1>1. e.kind # "inbox" /\ UNCHANGED <<calls, creating, awaiting>>
  BY DEF HubEvent
<1>2. /\ x \in Tabs /\ t.call = e.call /\ TabOK(t) /\ t.outbox = {}
      /\ e.kind \in {"accept", "decline", "cancel"}
      /\ e.kind \in {"accept", "decline"} => t.outgoing /\ ~t.incoming
      /\ e.kind = "cancel" => t.incoming /\ ~t.outgoing
  BY <1>1, HeardBy
<1>3. CASE e.kind = "accept"
  <2>1. Leave(x, OnAccept(t, x, e), net, events \ {e})
    BY <1>3 DEF HubEvent
  <2>2. /\ TabOK(OnAccept(t, x, e)) /\ OnAccept(t, x, e).call = t.call
        /\ OnAccept(t, x, e).outbox = {} /\ ~OnAccept(t, x, e).incoming
    BY <1>2, <1>3, OnAcceptOK
  <2> QED BY <1>1, <1>2, <1>3, <2>1, <2>2, SilentLeaveSafe
<1>4. CASE e.kind = "decline"
  <2>1. Leave(x, OnDecline(t, x, e), net, events \ {e})
    BY <1>4 DEF HubEvent
  <2>2. /\ TabOK(OnDecline(t, x, e)) /\ OnDecline(t, x, e).call \in {NoCall, t.call}
        /\ OnDecline(t, x, e).outbox = {} /\ ~OnDecline(t, x, e).incoming
    BY <1>2, <1>4, OnDeclineOK
  <2> QED BY <1>1, <1>2, <1>4, <2>1, <2>2, SilentLeaveSafe
<1>5. CASE e.kind = "cancel"
  <2>1. Leave(x, OnCancel(t, x, e), net, events \ {e})
    BY <1>5 DEF HubEvent
  <2>2. CASE OnCancel(t, x, e) = EndCall(t)
    BY <1>1, <1>2, <2>1, <2>2, EndCallKeeps
  <2>3. CASE OnCancel(t, x, e) = t
    BY <1>1, <1>2, <2>1, <2>3, SilentLeaveSafe
  <2> QED BY <2>2, <2>3 DEF OnCancel
<1> QED BY <1>2, <1>3, <1>4, <1>5

LEMMA ClicksKeep ==
  ASSUME IndInv, NEW x \in Tabs, ClickAccept(x) \/ ClickReject(x) \/ ClickEnd(x)
  PROVE  Kept'
<1> DEFINE t == tabs[x]
<1>1. TabOK(t) /\ OwnCall(x, t) /\ t.outbox = {}
  BY DEF IndInv, TabsOK
<1>2. UNCHANGED <<calls, creating, awaiting>>
  BY DEF ClickAccept, ClickReject, ClickEnd
<1>3. CASE ClickAccept(x)
  <2>1. Leave(x, AcceptCall(t), net, events) /\ t.incoming
    BY <1>3 DEF ClickAccept, Handled, Rings
  <2>2. /\ TabOK(AcceptCall(t)) /\ AcceptCall(t).call = t.call
        /\ AcceptCall(t).outbox = {Word("accept", t.call)} /\ t.call # NoCall
        /\ AcceptCall(t).incoming /\ ~AcceptCall(t).outgoing
    BY <1>1, <2>1, AcceptCallOK
  <2>3. OwnCall(x, AcceptCall(t)) /\ SaysOK(x, AcceptCall(t))
    BY <1>1, <2>1, <2>2 DEF OwnCall, SaysOK, Word
  <2> QED BY <1>2, <2>1, <2>2, <2>3, LeaveSafe DEF Kept
<1>4. CASE ClickReject(x)
  <2>1. Leave(x, RejectCall(t), net, events) /\ t.incoming
    BY <1>4 DEF ClickReject, Handled, Rings
  <2>2. /\ TabOK(RejectCall(t)) /\ RejectCall(t).call = NoCall
        /\ RejectCall(t).outbox = {Word("decline", t.call)} /\ t.call # NoCall
    BY <1>1, <2>1, RejectCallOK
  <2>3. OwnCall(x, RejectCall(t)) /\ SaysOK(x, RejectCall(t))
    BY <1>1, <2>2 DEF OwnCall, SaysOK, Word
  <2> QED BY <1>2, <2>1, <2>2, <2>3, LeaveSafe DEF Kept
<1>5. CASE ClickEnd(x)
  <2>1. Leave(x, EndCall(t), net, events)
    BY <1>5 DEF ClickEnd, Handled
  <2> QED BY <1>2, <2>1, EndCallKeeps
<1> QED BY <1>3, <1>4, <1>5

LEMMA ReloadKeeps ==
  ASSUME IndInv, NEW x \in Tabs, Reload(x)
  PROVE  Kept'
<1>1. /\ tabs' = [tabs EXCEPT ![x] = NewTab] /\ events' = {e \in events : e.tab # x}
      /\ net' = net /\ calls' = calls
      /\ creating' \subseteq creating /\ awaiting' \subseteq awaiting
  BY DEF Reload
<1>2. TabOK(NewTab) /\ NewTab.call = NoCall /\ NewTab.outbox = {}
  BY NewTabOK
<1>3. NewTab = [NewTab EXCEPT !.outbox = {}]
  BY <1>2 DEF TabOK, Tab
<1>4. Leave(x, NewTab, net, {e \in events : e.tab # x})
  <2>1. Sent(x, NewTab) = {}
    BY <1>2 DEF Sent
  <2>2. \A e \in events : e.tab # x => Heard(x, NewTab, e)
    BY DEF Heard
  <2> QED BY <1>1, <1>3, <2>1, <2>2 DEF Leave
<1> QED BY <1>1, <1>2, <1>4, SilentLeaveSafe

(* What the history variables record is well formed. *)
LEMMA HistoryKept ==
  ASSUME IndInv, [Next]_vars
  PROVE  History'
<1>1. /\ upsets \in 0..MaxUpsets /\ lost \subseteq Calls /\ busy \subseteq Calls
      /\ answers \subseteq Answer /\ MaxUpsets \in Nat
  BY TabsAssumption DEF IndInv, History
<1>2. Upset => upsets' \in 0..MaxUpsets
  BY <1>1 DEF Upset
<1>3. /\ creating \subseteq Calls /\ awaiting \subseteq Calls
      /\ \A e \in events : e.call \in Calls
      /\ \A p \in net : p.call \in Calls
  BY CallFacts DEF IndInv, KnownCalls
<1>4. ASSUME NEW x \in Tabs
      PROVE  /\ {tabs[x].held} \ {NoCall} \subseteq Calls
             /\ Rings(x) => tabs[x].call \in Calls
  BY DEF IndInv, TabsOK, TabOK, Tab, Agrees, Rings
<1>5. CASE UNCHANGED vars
  BY <1>1, <1>5 DEF vars, History
<1>6. CASE \E x \in Tabs, u \in Users : MakeCall(x, u)
  BY <1>1, <1>6 DEF MakeCall, history, History
<1>7. CASE \E c \in creating : HubCreated(c) \/ HubFails(c)
  BY <1>1, <1>2, <1>7 DEF HubCreated, HubFails, history, History
<1>8. CASE \E c \in awaiting : InviteFails(c)
  BY <1>1, <1>2, <1>3, <1>8 DEF InviteFails, History
<1>9. CASE \E p \in net : InviteArrives(p) \/ PostArrives(p) \/ PostLost(p)
  BY <1>1, <1>2, <1>3, <1>9 DEF InviteArrives, PostArrives, PostLost, history, History
<1>10. CASE \E x \in Tabs : \E s \in tabs[x].streams : SourceOpens(x, s)
  BY <1>1, <1>10 DEF SourceOpens, history, History
<1>11. CASE \E e \in events : InboxEvent(e) \/ HubEvent(e)
  BY <1>1, <1>3, <1>11 DEF InboxEvent, HubEvent, history, History
<1>12. CASE \E x \in Tabs : ClickAccept(x) \/ ClickReject(x) \/ ClickEnd(x) \/ Reload(x)
  <2> PICK x \in Tabs : ClickAccept(x) \/ ClickReject(x) \/ ClickEnd(x) \/ Reload(x)
    BY <1>12
  <2>1. ASSUME NEW how \in {"accept", "decline", "reload"}, Rings(x), Answered(x, how)
        PROVE  answers' \subseteq Answer
    BY <1>1, <1>4, <2>1 DEF Answered, Answer
  <2>2. CASE ClickAccept(x) \/ ClickReject(x)
    BY <1>1, <2>1, <2>2 DEF ClickAccept, ClickReject, History
  <2>3. CASE ClickEnd(x)
    BY <1>1, <2>3 DEF ClickEnd, history, History
  <2>4. CASE Reload(x)
    <3>1. answers' \subseteq Answer
      BY <1>1, <2>1, <2>4 DEF Reload
    <3> QED BY <1>1, <1>2, <1>3, <1>4, <2>4, <3>1 DEF Reload, History
  <2> QED BY <2>2, <2>3, <2>4
<1> QED BY <1>5, <1>6, <1>7, <1>8, <1>9, <1>10, <1>11, <1>12 DEF Next

LEMMA StepHolds == IndInv /\ [Next]_vars => IndInv'
<1> SUFFICES ASSUME IndInv, [Next]_vars PROVE Kept'
  BY HistoryKept DEF IndInv, Kept
<1>1. CASE UNCHANGED vars
  BY <1>1, NetworkKeeps DEF vars, IndInv, KnownCalls
<1>2. CASE Next
  BY <1>2, MakeCallKeeps, HubKeeps, InviteFailsKeeps, ServerKeeps, SourceOpensKeeps,
     InboxKeeps, HubEventKeeps, ClicksKeep, ReloadKeeps DEF Next
<1> QED BY <1>1, <1>2

LEMMA Invariance == Spec => []IndInv
BY InitHolds, StepHolds, PTL DEF Spec

-----------------------------------------------------------------------------
(* Every variable of every tab keeps to its type. *)
THEOREM TypeCorrect == Spec => []TypeOK
<1>1. IndInv => TypeOK
  <2> SUFFICES ASSUME IndInv PROVE TypeOK
    OBVIOUS
  <2>1. \A x \in Tabs : tabs[x] \in Tab /\ tabs[x].outbox = {}
    BY DEF IndInv, TabsOK
  <2>2. creating \subseteq Calls /\ awaiting \subseteq Calls
    BY CallFacts DEF IndInv, KnownCalls
  <2> QED BY <2>1, <2>2 DEF IndInv, KnownCalls, History, TypeOK, Tab
<1> QED BY <1>1, Invariance, PTL

(* The window of every tab shows the call its session is in, and nothing    *)
(* else: reducers/index.js mirrors callSession.js whatever handlers run.    *)
THEOREM WindowAgrees == Spec => []WindowFollowsSession
<1>1. IndInv => WindowFollowsSession
  <2> SUFFICES ASSUME IndInv, NEW x \in Tabs
               PROVE  LET t == tabs[x] IN
                        /\ t.held = t.call /\ t.shown = t.phase
                        /\ (t.phase # "idle") = (t.incoming \/ (t.outgoing /\ ~t.declined))
                        /\ t.open = (t.incoming \/ t.outgoing)
                        /\ ~(t.incoming /\ t.outgoing)
    BY DEF WindowFollowsSession
  <2>1. tabs[x] \in Tab /\ Agrees(tabs[x])
    BY DEF IndInv, TabsOK, TabOK
  <2> QED BY <2>1 DEF Agrees, Tab
<1> QED BY <1>1, Invariance, PTL

(* No event source of a tab outlives its call, however late the hub of a    *)
(* call that is over arrives (releaseResources).                            *)
THEOREM SourcesReleased == Spec => []SourcesOfCurrentCall
<1>1. IndInv => SourcesOfCurrentCall
  BY DEF IndInv, TabsOK, TabOK, Sources, SourcesOfCurrentCall
<1> QED BY <1>1, Invariance, PTL

(* A tab rings while it can be answered and its caller hears the ringback   *)
(* while nobody has, in every order of clicks, failures and events.         *)
THEOREM TonesAgree == Spec => []TonesMatch
<1>1. IndInv => TonesMatch
  <2> SUFFICES ASSUME IndInv, NEW x \in Tabs
               PROVE  /\ tabs[x].ring = Rings(x)
                      /\ tabs[x].ringback = (tabs[x].outgoing /\ ~tabs[x].declined
                                               /\ ~tabs[x].peerAccepted)
    BY DEF TonesMatch
  <2>1. tabs[x] \in Tab /\ Tones(tabs[x])
    BY DEF IndInv, TabsOK, TabOK
  <2> QED BY <2>1 DEF Tones, Tab, Rings
<1> QED BY <1>1, Invariance, PTL

-----------------------------------------------------------------------------
(* A handler of another tab does not end a ring, nor does one that leaves   *)
(* the call of its tab as it was.                                           *)
LEMMA OthersRing ==
  ASSUME tabs \in [Tabs -> Tab], NEW x \in Tabs, NEW y \in Tabs, NEW t,
         NEW pending, NEW underway, Leave(y, t, pending, underway), Rings(x),
         x # y \/ (t \in Tab /\ t.incoming = tabs[x].incoming /\ t.accepted = tabs[x].accepted)
  PROVE  Rings(x)'
<1>1. tabs' = [tabs EXCEPT ![y] = [t EXCEPT !.outbox = {}]]
  BY DEF Leave
<1>2. CASE x # y
  BY <1>1, <1>2 DEF Rings
<1>3. CASE x = y
  <2>1. /\ [t EXCEPT !.outbox = {}].incoming = t.incoming
        /\ [t EXCEPT !.outbox = {}].accepted = t.accepted
    BY <1>3 DEF Tab
  <2> QED BY <1>1, <1>3, <2>1 DEF Rings
<1> QED BY <1>2, <1>3

(* A tab stops ringing because its user answered there, or its caller is no *)
(* longer in the call: whatever is lost, late or said by other tabs.        *)
THEOREM RingsEndOnlyForCause == Spec => RingsEndForCause
<1> DEFINE Cause(x) == \/ \E a \in answers' : a.tab = x /\ a.call = tabs[x].call
                       \/ tabs[Caller(tabs[x].call)].call # tabs[x].call
<1>1. ASSUME IndInv, Next, NEW x \in Tabs, Rings(x), ~Rings(x)'
      PROVE  Cause(x)
  <2>1. /\ tabs \in [Tabs -> Tab] /\ TabOK(tabs[x]) /\ OwnCall(x, tabs[x])
        /\ KnownCalls /\ tabs[x] \in Tab /\ tabs[x].outbox = {}
    BY <1>1 DEF IndInv, TabsOK, TabOK
  <2>2. tabs[x].incoming /\ ~tabs[x].accepted /\ ~tabs[x].outgoing
    BY <1>1, <2>1 DEF Rings, TabOK, Agrees
  <2>3. ASSUME NEW y \in Tabs, NEW u \in Users, MakeCall(y, u)
        PROVE  FALSE
    <3>1. x # y
      BY <2>2, <2>3 DEF MakeCall, IsFree
    <3> QED BY <1>1, <2>1, <2>3, <3>1, OthersRing DEF MakeCall, Handled
  <2>4. ASSUME NEW c \in creating, HubCreated(c)
        PROVE  FALSE
    <3>1. Caller(c) \in Tabs
      BY <2>1, CallFacts DEF KnownCalls
    <3>2. CASE tabs[Caller(c)].outgoing /\ tabs[Caller(c)].call = c
      <4>1. x # Caller(c)
        BY <2>2, <3>2
      <4> QED BY <1>1, <2>1, <2>4, <3>1, <3>2, <4>1, OthersRing DEF HubCreated, Handled
    <3>3. CASE ~(tabs[Caller(c)].outgoing /\ tabs[Caller(c)].call = c)
      BY <1>1, <2>4, <3>3 DEF HubCreated, Rings
    <3> QED BY <3>2, <3>3
  <2>5. ASSUME NEW c \in creating, HubFails(c)
        PROVE  FALSE
    <3>1. Caller(c) \in Tabs
      BY <2>1, CallFacts DEF KnownCalls
    <3>2. x = Caller(c) => GiveUp(tabs[Caller(c)], c) = tabs[x]
      BY <2>2 DEF GiveUp
    <3> QED BY <1>1, <2>1, <2>5, <3>1, <3>2, OthersRing DEF HubFails, Handled
  <2>6. ASSUME NEW c \in awaiting, InviteFails(c)
        PROVE  FALSE
    <3> DEFINE t == [tabs[Caller(c)] EXCEPT !.streams = {s \in @ : s.call # c}]
    <3>1. Caller(c) \in Tabs
      BY <2>1, CallFacts DEF KnownCalls
    <3>2. x = Caller(c) =>
            /\ GiveUp(t, c) = t
            /\ t \in Tab /\ t.incoming = tabs[x].incoming /\ t.accepted = tabs[x].accepted
      BY <2>1, <2>2 DEF GiveUp, Tab
    <3>3. PICK pending : Leave(Caller(c), GiveUp(t, c), pending, events)
      BY <2>6 DEF InviteFails
    <3> HIDE DEF t
    <3> QED BY <1>1, <2>1, <3>1, <3>2, <3>3, OthersRing
  <2>7. ASSUME NEW p \in net, InviteArrives(p) \/ PostArrives(p) \/ PostLost(p)
        PROVE  FALSE
    BY <1>1, <2>7 DEF InviteArrives, PostArrives, PostLost, Rings
  <2>8. ASSUME NEW y \in Tabs, NEW s \in tabs[y].streams, SourceOpens(y, s)
        PROVE  FALSE
    BY <1>1, <2>1, <2>8 DEF SourceOpens, Rings, Tab
  <2>9. ASSUME NEW e \in events, InboxEvent(e)
        PROVE  FALSE
    <3>1. e.tab \in Tabs
      BY <2>1 DEF KnownCalls, Event
    <3>2. CASE IsFree(tabs[e.tab])
      <4>1. x # e.tab
        BY <2>2, <3>2 DEF IsFree
      <4> QED BY <1>1, <2>1, <2>9, <3>1, <3>2, <4>1, OthersRing DEF InboxEvent
    <3>3. CASE ~IsFree(tabs[e.tab])
      BY <1>1, <2>9, <3>3 DEF InboxEvent, Rings
    <3> QED BY <3>2, <3>3
  <2>10. ASSUME NEW e \in events, HubEvent(e)
         PROVE  Cause(x)
    <3>1. /\ e.tab \in Tabs /\ tabs[e.tab].call = e.call /\ e.kind # "inbox"
          /\ e.kind \in {"accept", "decline"} => ~tabs[e.tab].incoming
          /\ e.kind \in {"accept", "decline", "cancel"}
      BY <1>1, <2>10, HeardBy DEF HubEvent
    <3>2. e.tab = x
      <4>1. SUFFICES ASSUME e.tab # x PROVE FALSE
        OBVIOUS
      <4> QED BY <1>1, <2>1, <2>10, <3>1, <4>1, OthersRing DEF HubEvent
    <3>3. e.kind = "cancel"
      BY <2>2, <3>1, <3>2
    <3>4. Leave(x, OnCancel(tabs[x], x, e), net, events \ {e})
      BY <2>10, <3>2, <3>3 DEF HubEvent
    <3>5. OnCancel(tabs[x], x, e) # tabs[x]
      BY <1>1, <2>1, <3>4, OthersRing
    <3>6. e.word = "cancel"
      BY <3>5 DEF OnCancel
    <3>7. tabs[Caller(e.call)].call # e.call
      BY <1>1, <3>1, <3>6 DEF IndInv, CallerGone
    <3> QED BY <3>1, <3>2, <3>7
  <2>11. ASSUME NEW y \in Tabs, ClickAccept(y) \/ ClickReject(y) \/ Reload(y)
         PROVE  Cause(x)
    <3>1. CASE x = y
      <4>1. PICK how \in {"accept", "decline", "reload"} : Answered(x, how)
        BY <1>1, <2>11, <3>1 DEF ClickAccept, ClickReject, Reload
      <4>2. [tab |-> x, call |-> tabs[x].call, how |-> how] \in answers'
        BY <4>1 DEF Answered
      <4> QED BY <4>2
    <3>2. CASE x # y
      <4>1. tabs'[x] = tabs[x]
        BY <2>1, <2>11, <3>2 DEF ClickAccept, ClickReject, Reload, Handled, Leave
      <4> QED BY <1>1, <4>1 DEF Rings
    <3> QED BY <3>1, <3>2
  <2>12. ASSUME NEW y \in Tabs, ClickEnd(y)
         PROVE  FALSE
    <3>1. x # y
      BY <1>1, <2>12 DEF ClickEnd
    <3> QED BY <1>1, <2>1, <2>12, <3>1, OthersRing DEF ClickEnd, Handled
  <2> QED BY <1>1, <2>3, <2>4, <2>5, <2>6, <2>7, <2>8, <2>9, <2>10, <2>11, <2>12 DEF Next
<1>2. IndInv /\ [Next]_vars =>
        [\A x \in Tabs : Rings(x) /\ ~Rings(x)' => Cause(x)]_vars
  BY <1>1
<1> QED BY <1>2, Invariance, PTL DEF Spec, RingsEndForCause

-----------------------------------------------------------------------------
(* What becomes of a call that ends or is answered: the parts below say for *)
(* every call which word is still to come, so that nobody is left waiting.  *)
Given(c) == \E a \in answers : a.call = c /\ a.how # "reload"
Offered(c) ==
  \/ \E p \in net : p.call = c /\ p.kind = "invite"
  \/ \E e \in events : e.call = c /\ e.kind = "inbox"
RingsSomewhere(c) == \E x \in Tabs : RingsFor(tabs[x], c)
SaysCancel(e, c) ==
  e.call = c /\ e.kind = "cancel" /\ e.word = "cancel" /\ e.from = UserOf[Caller(c)]
Cancelled(x, c) == \E e \in events : e.tab = x /\ SaysCancel(e, c)
SaysAnswer(e, c) == e.call = c /\ e.kind = "decline" /\ e.from = calls[c].to
Answering(c) ==
  \/ \E p \in net : p.call = c /\ p.kind \in {"accept", "decline"}
  \/ \E e \in events : SaysAnswer(e, c)

AllListening == \A x \in Tabs : Listening(tabs[x])

(* Words of an answer were given by the callee, those of a cancellation by  *)
(* the caller.                                                              *)
AnswersGiven ==
  /\ \A p \in net : p.kind \in {"accept", "decline"} =>
       UserOf[p.from] = calls[p.call].to /\ Given(p.call)
  /\ \A e \in events : e.kind # "inbox" =>
       \/ e.word = "cancel" /\ e.from = UserOf[Caller(e.call)]
       \/ e.word \in {"accept", "decline"} /\ e.from = calls[e.call].to /\ Given(e.call)

(* A call without its session has reached nobody.                           *)
Unsent ==
  /\ \A c \in creating : ~Offered(c) /\ ~RingsSomewhere(c)
  /\ \A x \in Tabs : \A c \in Calls :
       CallsFor(tabs[x], c) /\ ~tabs[x].ready => c \in creating

(* A call whose caller has gone: a cancellation is on its way to the        *)
(* server, or everybody who rings is about to hear of it.                   *)
Excused(c) == c \in lost \/ Given(c)
Ending(c) ==
  \/ tabs[Caller(c)].call = c
  \/ Excused(c)
  \/ \E p \in net : p.kind = "cancel" /\ p.call = c
  \/ ~Offered(c) /\ \A x \in Tabs : RingsFor(tabs[x], c) => Cancelled(x, c)

(* A caller who still calls: the invitation or the answer is on its way, or *)
(* somebody rings.                                                          *)
Waiting(c) ==
  \/ c \in creating \cup lost \cup busy \/ CalleeTabs(c) = {}
  \/ Offered(c) \/ RingsSomewhere(c) \/ Answering(c)

CallsEnd == \A c \in DOMAIN calls : Ending(c)
CallsWait == \A x \in Tabs : \A c \in Calls : CallsFor(tabs[x], c) => Waiting(c)
Told == AllListening /\ AnswersGiven /\ Unsent /\ CallsEnd /\ CallsWait

LEMMA InitTold == Init => Told
<1> SUFFICES ASSUME Init PROVE Told
  OBVIOUS
<1>1. \A x \in Tabs : tabs[x] = NewTab
  BY DEF Init
<1>2. DOMAIN calls = {}
  BY DEF Init
<1>3. ~NewTab.incoming /\ ~NewTab.outgoing /\ ~NewTab.peerAccepted
  BY DEF NewTab
<1>4. AllListening
  BY <1>1, <1>3 DEF AllListening, Listening, RingsFor, CallsFor
<1>5. AnswersGiven /\ Unsent /\ CallsWait
  BY <1>1, <1>3 DEF Init, AnswersGiven, Unsent, CallsWait, CallsFor
<1> QED BY <1>2, <1>4, <1>5 DEF CallsEnd, Told

(* A tab without a call listens to nothing.                                 *)
LEMMA IdleListens ==
  ASSUME NEW t, t.call = NoCall, ~t.peerAccepted
  PROVE  /\ Listening(t)
         /\ \A c \in Calls : ~RingsFor(t, c) /\ ~CallsFor(t, c)
BY DEF Listening, RingsFor, CallsFor, Calls, NoCall

(* Whose calls are whose.                                                   *)
LEMMA WhoseCall ==
  ASSUME IndInv
  PROVE  /\ \A y \in Tabs : \A c \in Calls :
              /\ CallsFor(tabs[y], c) => c \in DOMAIN calls /\ Caller(c) = y /\ tabs[y].call = c
              /\ RingsFor(tabs[y], c) =>
                   /\ c \in DOMAIN calls /\ UserOf[y] = calls[c].to /\ y # Caller(c)
                   /\ tabs[y].call = c
         /\ \A c \in DOMAIN calls : /\ Caller(c) \in Tabs /\ c \in Calls
                                    /\ tabs[Caller(c)].call = c => CallsFor(tabs[Caller(c)], c)
         /\ \A e \in events : \A c :
              /\ SaysCancel(e, c) => /\ c \in DOMAIN calls /\ e.tab \in Tabs
                                     /\ tabs[Caller(c)].call # c
              /\ SaysAnswer(e, c) => /\ c \in DOMAIN calls /\ e.tab = Caller(c)
                                     /\ CallsFor(tabs[e.tab], c)
<1>1. /\ KnownCalls /\ DOMAIN calls \subseteq Calls
      /\ \A c \in DOMAIN calls : /\ Caller(c) \in Tabs
                                 /\ calls[c].to # UserOf[Caller(c)]
  BY CallFacts DEF IndInv
<1>2. ASSUME NEW y \in Tabs, NEW c \in Calls
      PROVE  /\ CallsFor(tabs[y], c) => c \in DOMAIN calls /\ Caller(c) = y
             /\ RingsFor(tabs[y], c) =>
                  c \in DOMAIN calls /\ UserOf[y] = calls[c].to /\ y # Caller(c)
  <2>1. OwnCall(y, tabs[y]) /\ c # NoCall
    BY DEF IndInv, TabsOK, Calls, NoCall
  <2> QED BY <1>1, <2>1 DEF CallsFor, RingsFor, OwnCall
<1>3. ASSUME NEW c \in DOMAIN calls, tabs[Caller(c)].call = c
      PROVE  CallsFor(tabs[Caller(c)], c)
  <2>1. /\ TabOK(tabs[Caller(c)]) /\ OwnCall(Caller(c), tabs[Caller(c)])
        /\ c # NoCall
    BY <1>1 DEF IndInv, TabsOK, Calls, NoCall
  <2>2. tabs[Caller(c)].incoming \/ tabs[Caller(c)].outgoing
    BY <1>3, <2>1 DEF TabOK, Agrees
  <2> QED BY <1>1, <1>3, <2>1, <2>2 DEF OwnCall, CallsFor
<1>4. ASSUME NEW e \in events, NEW c
      PROVE  /\ SaysCancel(e, c) => /\ c \in DOMAIN calls /\ e.tab \in Tabs
                                    /\ tabs[Caller(c)].call # c
             /\ SaysAnswer(e, c) => /\ c \in DOMAIN calls /\ e.tab = Caller(c)
                                    /\ CallsFor(tabs[e.tab], c)
  <2>1. e \in Event /\ e.call \in DOMAIN calls
    BY <1>1 DEF KnownCalls
  <2>2. SaysCancel(e, c) => /\ c \in DOMAIN calls /\ e.tab \in Tabs
                            /\ tabs[Caller(c)].call # c
    BY <2>1 DEF SaysCancel, IndInv, CallerGone, Event
  <2>3. ASSUME SaysAnswer(e, c)
        PROVE  c \in DOMAIN calls /\ e.tab = Caller(c) /\ CallsFor(tabs[e.tab], c)
    <3>1. e.kind = "decline" /\ e.call = c
      BY <2>3 DEF SaysAnswer
    <3>2. e.tab \in Tabs /\ tabs[e.tab].call = c /\ tabs[e.tab].outgoing
      BY <3>1, HeardBy
    <3> QED BY <1>1, <1>2, <2>1, <3>1, <3>2 DEF CallsFor
  <2> QED BY <2>2, <2>3
<1> QED BY <1>1, <1>2, <1>3, <1>4 DEF CallsFor, RingsFor

(* A handler of tab x leaves it at t, without ringing or calling for what   *)
(* it did not before: whoever stops calling or ringing says so, has been    *)
(* answered, or counts as lost.                                             *)
Says(t, word, c) == \E w \in t.outbox : w.word = word /\ w.call = c
Answers(x, t) ==
  \A w \in t.outbox :
    /\ w.call \in DOMAIN calls /\ w.word # "invite"
    /\ w.word \in {"accept", "decline"} => UserOf[x] = calls[w.call].to /\ Given(w.call)'
TakesUp(x, t) ==
  \A c \in Calls :
    /\ RingsFor(t, c) => RingsFor(tabs[x], c)
    /\ CallsFor(t, c) => CallsFor(tabs[x], c) /\ t.ready = tabs[x].ready
StopsCalling(x, t) ==
  \A c \in DOMAIN calls : Caller(c) = x /\ tabs[x].call = c /\ t.call # c =>
    Excused(c)' \/ Says(t, "cancel", c) \/ c \in creating
StopsRinging(x, t) ==
  \A c \in DOMAIN calls : RingsFor(tabs[x], c) /\ ~RingsFor(t, c) =>
    \/ c \in lost' \/ tabs[Caller(c)].call # c
    \/ Says(t, "accept", c) \/ Says(t, "decline", c)
Handles(x, t, pending, underway) ==
  /\ \A p \in net \ pending :
       p.kind = "invite" /\ (p.call \in lost' \/ (Caller(p.call) = x /\ ~CallsFor(t, p.call)))
  /\ \A e \in events \ underway :
       /\ e.tab = x
       /\ e.kind = "inbox" => e.call \in lost'
       /\ SaysCancel(e, e.call) => ~RingsFor(t, e.call)
       /\ SaysAnswer(e, e.call) => ~CallsFor(t, e.call)
  /\ creating' \subseteq creating
  /\ \A c \in creating \ creating' : Caller(c) = x /\ ~CallsFor(t, c)

LEMMA HandlerTells ==
  ASSUME IndInv, Told, NEW x \in Tabs, NEW t \in Tab, NEW pending \in SUBSET net,
         NEW underway \in SUBSET events, Leave(x, t, pending, underway), UNCHANGED calls,
         lost \subseteq lost', busy \subseteq busy', answers \subseteq answers',
         Listening(t), Answers(x, t), TakesUp(x, t), StopsCalling(x, t), StopsRinging(x, t),
         Handles(x, t, pending, underway)
  PROVE  Told'
<1> DEFINE n == [t EXCEPT !.outbox = {}]
<1>1. /\ tabs' = [tabs EXCEPT ![x] = n] /\ tabs \in [Tabs -> Tab]
      /\ net' = pending \cup Sent(x, t)
      /\ events' = {e \in underway : Heard(x, t, e)} /\ calls' = calls
  BY DEF Leave, IndInv, TabsOK
<1>2. /\ n.incoming = t.incoming /\ n.outgoing = t.outgoing /\ n.accepted = t.accepted
      /\ n.call = t.call /\ n.ready = t.ready /\ n.streams = t.streams
      /\ n.peerAccepted = t.peerAccepted
  BY DEF Tab
<1>3. tabs'[x] = n /\ \A y \in Tabs \ {x} : tabs'[y] = tabs[y]
  BY <1>1
<1> HIDE DEF n
<1>4. /\ Listening(n) /\ n.call = t.call /\ n.ready = t.ready
      /\ \A c : /\ RingsFor(n, c) <=> RingsFor(t, c)
                /\ CallsFor(n, c) <=> CallsFor(t, c)
                /\ \A k : Hears(n, c, k) <=> Hears(t, c, k)
  BY <1>2 DEF Listening, RingsFor, CallsFor, Hears
<1>5. \A c : Given(c) => Given(c)'
  BY DEF Given
<1>6. \A c : Excused(c) => Excused(c)'
  BY <1>5 DEF Excused
<1>7. ASSUME NEW e \in underway, e.tab # x \/ e.kind = "inbox" \/ Hears(t, e.call, e.kind)
      PROVE  e \in events'
  BY <1>1, <1>7 DEF Heard, Hears
<1>8. /\ events' \subseteq events /\ pending \subseteq net'
      /\ \A p \in net' \ net : \E w \in t.outbox :
           p.kind = w.word /\ p.call = w.call /\ p.from = x
      /\ \A w \in t.outbox : \E p \in net' : p.kind = w.word /\ p.call = w.call
  <2>1. ASSUME NEW p \in Sent(x, t)
        PROVE  \E w \in t.outbox : p.kind = w.word /\ p.call = w.call /\ p.from = x
    <3>1. PICK w \in t.outbox : p = [kind |-> w.word, call |-> w.call, from |-> x]
      BY <2>1 DEF Sent
    <3> QED BY <3>1
  <2>2. ASSUME NEW w \in t.outbox
        PROVE  \E p \in Sent(x, t) : p.kind = w.word /\ p.call = w.call
    <3>1. [kind |-> w.word, call |-> w.call, from |-> x] \in Sent(x, t)
      BY DEF Sent
    <3> QED BY <3>1
  <2> HIDE DEF Sent
  <2> QED BY <1>1, <2>1, <2>2
<1>9. \A c : Offered(c)' => Offered(c)
  BY <1>8 DEF Offered, Answers
<1>10. \A y \in Tabs : \A c \in Calls :
         /\ RingsFor(tabs'[y], c) => RingsFor(tabs[y], c)
         /\ CallsFor(tabs'[y], c) => CallsFor(tabs[y], c) /\ tabs'[y].ready = tabs[y].ready
  BY <1>3, <1>4 DEF TakesUp
<1>11. AllListening'
  BY <1>3, <1>4 DEF Told, AllListening, Listening, RingsFor, CallsFor, Hears
<1>12. AnswersGiven'
  <2>1. ASSUME NEW p \in net', p.kind \in {"accept", "decline"}
        PROVE  UserOf[p.from] = calls[p.call].to /\ Given(p.call)'
    BY <1>5, <1>8, <2>1 DEF Told, AnswersGiven, Answers
  <2>2. ASSUME NEW e \in events', e.kind # "inbox"
        PROVE  \/ e.word = "cancel" /\ e.from = UserOf[Caller(e.call)]
               \/ /\ e.word \in {"accept", "decline"} /\ e.from = calls[e.call].to
                  /\ Given(e.call)'
    BY <1>5, <1>8, <2>2 DEF Told, AnswersGiven
  <2> QED BY <1>1, <2>1, <2>2 DEF AnswersGiven, Caller
<1>13. Unsent'
  <2>1. ASSUME NEW c \in creating'
        PROVE  ~Offered(c)' /\ ~RingsSomewhere(c)'
    <3>1. c \in creating /\ c \in Calls
      BY CallFacts DEF Handles, IndInv, KnownCalls
    <3> QED BY <1>9, <1>10, <3>1 DEF Told, Unsent, RingsSomewhere
  <2>2. ASSUME NEW y \in Tabs, NEW c \in Calls, CallsFor(tabs'[y], c), ~tabs'[y].ready
        PROVE  c \in creating'
    <3>1. CallsFor(tabs[y], c) /\ ~tabs[y].ready /\ Caller(c) = y
      BY <1>10, <2>2, WhoseCall
    <3>2. c \in creating
      BY <3>1 DEF Told, Unsent
    <3> QED BY <1>3, <1>4, <2>2, <3>1, <3>2 DEF Handles
  <2> QED BY <2>1, <2>2 DEF Unsent
<1>14. CallsEnd'
  <2> SUFFICES ASSUME NEW c \in DOMAIN calls
               PROVE  Ending(c)'
    BY <1>1 DEF CallsEnd
  <2>0. c \in Calls /\ Caller(c) \in Tabs /\ Caller(c)' = Caller(c)
    BY <1>1, WhoseCall DEF Caller
  <2>1. Ending(c)
    BY DEF Told, CallsEnd
  <2>2. CASE tabs[Caller(c)].call = c
    <3>1. CASE tabs'[Caller(c)].call = c
      BY <2>0, <3>1 DEF Ending
    <3>2. CASE tabs'[Caller(c)].call # c
      <4>1. Caller(c) = x /\ tabs[x].call = c /\ t.call # c
        BY <1>3, <1>4, <2>0, <2>2, <3>2
      <4>2. Excused(c)' \/ Says(t, "cancel", c) \/ c \in creating
        BY <4>1 DEF StopsCalling
      <4>3. CASE Says(t, "cancel", c)
        BY <1>8, <4>3 DEF Says, Ending
      <4>4. CASE c \in creating
        <5>1. ~Offered(c) /\ ~RingsSomewhere(c)
          BY <4>4 DEF Told, Unsent
        <5> QED BY <1>9, <1>10, <2>0, <5>1 DEF RingsSomewhere, Ending
      <4> QED BY <4>2, <4>3, <4>4 DEF Ending
    <3> QED BY <3>1, <3>2
  <2>3. CASE Excused(c)
    BY <1>6, <2>3 DEF Ending
  <2>4. CASE \E p \in net : p.kind = "cancel" /\ p.call = c
    BY <1>8, <2>4 DEF Handles, Ending
  <2>5. CASE ~Offered(c) /\ \A y \in Tabs : RingsFor(tabs[y], c) => Cancelled(y, c)
    <3>1. ASSUME NEW y \in Tabs, RingsFor(tabs'[y], c)
          PROVE  Cancelled(y, c)'
      <4>1. RingsFor(tabs[y], c)
        BY <1>10, <2>0, <3>1
      <4>2. PICK e \in events : e.tab = y /\ SaysCancel(e, c)
        BY <2>5, <4>1 DEF Cancelled
      <4>3. e.call = c /\ e.kind = "cancel"
        BY <4>2 DEF SaysCancel
      <4>4. e \in underway
        BY <1>3, <1>4, <3>1, <4>2, <4>3 DEF Handles
      <4>5. e \in events'
        <5>1. CASE y # x
          BY <1>7, <4>2, <4>4, <5>1
        <5>2. CASE y = x
          <6>1. RingsFor(t, c)
            BY <1>3, <1>4, <3>1, <5>2
          <6>2. Hears(t, c, "cancel")
            BY <2>0, <6>1 DEF Listening
          <6> QED BY <1>7, <4>3, <4>4, <6>2
        <5> QED BY <5>1, <5>2
      <4>6. SaysCancel(e, c)'
        BY <2>0, <4>2 DEF SaysCancel
      <4> QED BY <4>2, <4>5, <4>6 DEF Cancelled
    <3> QED BY <1>9, <2>5, <3>1 DEF Ending
  <2> QED BY <2>1, <2>2, <2>3, <2>4, <2>5 DEF Ending
<1>15. CallsWait'
  <2> SUFFICES ASSUME NEW y \in Tabs, NEW c \in Calls, CallsFor(tabs'[y], c)
               PROVE  Waiting(c)'
    BY DEF CallsWait
  <2>1. CallsFor(tabs[y], c) /\ Waiting(c)
    BY <1>10 DEF Told, CallsWait
  <2>2. c \in DOMAIN calls /\ Caller(c) = y /\ tabs[y].call = c
    BY <2>1, WhoseCall
  <2>3. CASE c \in creating
    BY <1>3, <1>4, <2>2, <2>3 DEF Handles, Waiting
  <2>4. CASE c \in lost \cup busy
    BY <2>4 DEF Waiting
  <2>5. CASE CalleeTabs(c) = {}
    BY <1>1, <2>5 DEF CalleeTabs, Waiting
  <2>6. CASE \E p \in net : p.call = c /\ p.kind = "invite"
    <3> PICK p \in net : p.call = c /\ p.kind = "invite"
      BY <2>6
    <3>1. CASE p \in pending
      BY <1>8, <3>1 DEF Waiting, Offered
    <3>2. CASE p \notin pending
      BY <1>3, <1>4, <2>2, <3>2 DEF Handles, Waiting
    <3> QED BY <3>1, <3>2
  <2>7. CASE \E e \in events : e.call = c /\ e.kind = "inbox"
    <3> PICK e \in events : e.call = c /\ e.kind = "inbox"
      BY <2>7
    <3>1. CASE e \in underway
      BY <1>7, <3>1 DEF Waiting, Offered
    <3>2. CASE e \notin underway
      BY <3>2 DEF Handles, Waiting
    <3> QED BY <3>1, <3>2
  <2>8. CASE RingsSomewhere(c)
    <3>1. PICK z \in Tabs : RingsFor(tabs[z], c)
      BY <2>8 DEF RingsSomewhere
    <3>2. CASE z # x \/ RingsFor(t, c)
      <4>1. RingsFor(tabs'[z], c)
        BY <1>3, <1>4, <3>1, <3>2
      <4> QED BY <4>1 DEF RingsSomewhere, Waiting
    <3>3. CASE z = x /\ ~RingsFor(t, c)
      <4>1. \/ c \in lost' \/ tabs[Caller(c)].call # c
            \/ Says(t, "accept", c) \/ Says(t, "decline", c)
        BY <2>2, <3>1, <3>3 DEF StopsRinging
      <4>2. ASSUME NEW word \in {"accept", "decline"}, Says(t, word, c)
            PROVE  Answering(c)'
        BY <1>8, <4>2 DEF Says, Answering
      <4> QED BY <2>2, <4>1, <4>2 DEF Waiting
    <3> QED BY <3>2, <3>3
  <2>9. CASE \E p \in net : p.call = c /\ p.kind \in {"accept", "decline"}
    BY <1>8, <2>9 DEF Handles, Waiting, Answering
  <2>10. CASE \E e \in events : SaysAnswer(e, c)
    <3>1. PICK e \in events : SaysAnswer(e, c)
      BY <2>10
    <3>2. e.tab = y /\ e.call = c /\ e.kind = "decline" /\ SaysAnswer(e, c)'
      BY <1>1, <2>2, <3>1, WhoseCall DEF SaysAnswer
    <3>3. e \in underway
      BY <1>3, <1>4, <3>1, <3>2 DEF Handles
    <3>4. e \in events' \/ c \in creating
      <4>1. CASE y # x
        BY <1>7, <3>2, <3>3, <4>1
      <4>2. CASE y = x /\ tabs[y].ready
        <5>1. CallsFor(t, c) /\ t.ready
          BY <1>3, <1>4, <4>2 DEF TakesUp
        <5>2. Hears(t, c, "decline")
          BY <5>1 DEF Listening
        <5> QED BY <1>7, <3>2, <3>3, <5>2
      <4>3. CASE ~tabs[y].ready
        BY <2>1, <4>3 DEF Told, Unsent
      <4> QED BY <4>1, <4>2, <4>3
    <3> QED BY <2>3, <3>2, <3>4 DEF Answering, Waiting
  <2> QED
    BY <2>1, <2>3, <2>4, <2>5, <2>6, <2>7, <2>8, <2>9, <2>10
       DEF Waiting, Offered, Answering
<1> QED BY <1>11, <1>12, <1>13, <1>14, <1>15 DEF Told

(* A tab that is left as it was. *)
LEMMA SameTells ==
  ASSUME IndInv, Told, NEW x \in Tabs, NEW underway \in SUBSET events,
         Leave(x, tabs[x], net, underway), UNCHANGED <<calls, creating, lost, busy, answers>>,
         \A e \in events \ underway :
           /\ e.tab = x /\ e.kind # "inbox"
           /\ SaysCancel(e, e.call) => ~RingsFor(tabs[x], e.call)
           /\ SaysAnswer(e, e.call) => ~CallsFor(tabs[x], e.call)
  PROVE  Told'
<1>1. tabs[x] \in Tab /\ tabs[x].outbox = {} /\ Listening(tabs[x])
  BY DEF IndInv, TabsOK, Told, AllListening
<1>2. Answers(x, tabs[x]) /\ TakesUp(x, tabs[x]) /\ StopsRinging(x, tabs[x])
  BY <1>1 DEF Answers, TakesUp, StopsRinging
<1>3. StopsCalling(x, tabs[x])
  BY DEF StopsCalling
<1>4. Handles(x, tabs[x], net, underway)
  BY DEF Handles
<1> QED BY <1>1, <1>2, <1>3, <1>4, HandlerTells

LEMMA HubEventTells ==
  ASSUME IndInv, Told, NEW e \in events, HubEvent(e)
  PROVE  Told'
<1> DEFINE x == e.tab
           t == tabs[x]
<1>1. e.kind # "inbox" /\ UNCHANGED <<calls, creating, lost, busy, answers>>
  BY DEF HubEvent, history
<1>2. /\ x \in Tabs /\ e.call \in DOMAIN calls /\ t.call = e.call /\ TabOK(t) /\ t.outbox = {}
      /\ e.kind \in {"accept", "decline", "cancel"}
      /\ e.kind \in {"accept", "decline"} => t.outgoing /\ ~t.incoming
      /\ e.kind = "cancel" => t.incoming /\ ~t.outgoing
  BY <1>1, HeardBy
<1>3. /\ OwnCall(x, t) /\ t \in Tab /\ ~t.peerAccepted /\ e.call \in Calls
      /\ calls[e.call].to # UserOf[Caller(e.call)]
  BY <1>2, CallFacts DEF IndInv, TabsOK, TabOK, Told, AllListening, Listening
<1>4. \/ e.word = "cancel" /\ e.from = UserOf[Caller(e.call)]
      \/ e.word \in {"accept", "decline"} /\ e.from = calls[e.call].to /\ Given(e.call)
  BY <1>1 DEF Told, AnswersGiven
<1>5. t.outgoing => Caller(e.call) = x
  BY <1>2, <1>3 DEF OwnCall, Calls, NoCall
<1>6. \A f \in events \ (events \ {e}) : f = e
  OBVIOUS
<1> HIDE DEF t
<1>7. CASE e.kind = "accept"
  <2>1. Leave(x, OnAccept(t, x, e), net, events \ {e})
    BY <1>7 DEF HubEvent, t
  <2>2. OnAccept(t, x, e) = t
    BY <1>2, <1>3, <1>4, <1>5, <1>7 DEF OnAccept
  <2>3. ~SaysCancel(e, e.call) /\ ~SaysAnswer(e, e.call)
    BY <1>7 DEF SaysCancel, SaysAnswer
  <2> QED BY <1>1, <1>2, <1>6, <2>1, <2>2, <2>3, SameTells DEF t
<1>8. CASE e.kind = "decline"
  <2> DEFINE d == OnDecline(t, x, e)
  <2>1. Leave(x, d, net, events \ {e})
    BY <1>8 DEF HubEvent, t
  <2>2. ~SaysCancel(e, e.call)
    BY <1>8 DEF SaysCancel
  <2>3. CASE e.from # calls[e.call].to
    <3>1. d = t
      BY <2>3 DEF OnDecline
    <3>2. ~SaysAnswer(e, e.call)
      BY <2>3 DEF SaysAnswer
    <3> QED BY <1>1, <1>2, <1>6, <2>1, <2>2, <3>1, <3>2, SameTells DEF t
  <2>4. CASE e.from = calls[e.call].to
    <3>1. TabOK(d) /\ d.call = NoCall /\ d.outbox = {} /\ ~d.peerAccepted
      BY <1>2, <1>8, <2>4, OnDeclineOK
    <3>2. Given(e.call)
      BY <1>3, <1>4, <2>4
    <3> HIDE DEF d
    <3>3. /\ Listening(d) /\ d \in Tab
          /\ \A c \in Calls : ~RingsFor(d, c) /\ ~CallsFor(d, c)
      BY <3>1, IdleListens DEF TabOK
    <3>4. Answers(x, d) /\ TakesUp(x, d)
      BY <3>1, <3>3 DEF Answers, TakesUp
    <3>5. StopsCalling(x, d)
      BY <1>1, <1>2, <3>2 DEF StopsCalling, Excused, Given, t
    <3>6. StopsRinging(x, d)
      BY <1>2, <1>8 DEF StopsRinging, RingsFor, t
    <3>7. Handles(x, d, net, events \ {e})
      BY <1>1, <1>3, <1>6, <2>2, <3>3 DEF Handles
    <3> QED BY <1>1, <1>2, <2>1, <3>3, <3>4, <3>5, <3>6, <3>7, HandlerTells
  <2> QED BY <2>3, <2>4
<1>9. CASE e.kind = "cancel"
  <2>1. Leave(x, OnCancel(t, x, e), net, events \ {e})
    BY <1>9 DEF HubEvent, t
  <2>2. ~SaysAnswer(e, e.call)
    BY <1>9 DEF SaysAnswer
  <2>3. CASE ~(e.from = UserOf[Caller(e.call)] /\ e.word = "cancel")
    <3>1. OnCancel(t, x, e) = t
      BY <2>3 DEF OnCancel
    <3>2. ~SaysCancel(e, e.call)
      BY <2>3 DEF SaysCancel
    <3> QED BY <1>1, <1>2, <1>6, <2>1, <2>2, <3>1, <3>2, SameTells DEF t
  <2>4. CASE e.from = UserOf[Caller(e.call)] /\ e.word = "cancel"
    <3> DEFINE d == EndCall(t)
    <3>1. Leave(x, d, net, events \ {e})
      BY <2>1, <2>4 DEF OnCancel
    <3>2. TabOK(d) /\ d.call = NoCall /\ d.outbox = {} /\ ~d.peerAccepted
      BY <1>2, <1>9, EndCallOK
    <3>3. tabs[Caller(e.call)].call # e.call
      BY <1>1, <2>4 DEF IndInv, CallerGone
    <3> HIDE DEF d
    <3>4. /\ Listening(d) /\ d \in Tab
          /\ \A c \in Calls : ~RingsFor(d, c) /\ ~CallsFor(d, c)
      BY <3>2, IdleListens DEF TabOK
    <3>5. Answers(x, d) /\ TakesUp(x, d)
      BY <3>2, <3>4 DEF Answers, TakesUp
    <3>6. StopsCalling(x, d)
      BY <1>2, <3>3 DEF StopsCalling, t
    <3>7. StopsRinging(x, d)
      BY <1>2, <3>3 DEF StopsRinging, RingsFor, t
    <3>8. Handles(x, d, net, events \ {e})
      BY <1>1, <1>3, <1>6, <2>2, <3>4 DEF Handles
    <3> QED BY <1>1, <1>2, <3>1, <3>4, <3>5, <3>6, <3>7, <3>8, HandlerTells
  <2> QED BY <2>3, <2>4
<1> QED BY <1>2, <1>7, <1>8, <1>9

LEMMA ClicksTell ==
  ASSUME IndInv, Told, NEW x \in Tabs, ClickAccept(x) \/ ClickReject(x) \/ ClickEnd(x)
  PROVE  Told'
<1> DEFINE t == tabs[x]
<1>1. /\ TabOK(t) /\ OwnCall(x, t) /\ t.outbox = {} /\ ~t.peerAccepted
      /\ \A c \in DOMAIN calls : Caller(c) = x /\ t.call = c => CallsFor(t, c)
      /\ \A c \in Calls : RingsFor(t, c) => c \in DOMAIN calls /\ UserOf[x] = calls[c].to
      /\ DOMAIN calls \subseteq Calls
  BY CallFacts, WhoseCall DEF IndInv, TabsOK, Told, AllListening, Listening
<1>2. UNCHANGED <<calls, creating, lost, busy>>
  BY DEF ClickAccept, ClickReject, ClickEnd, history
<1>3. CASE ClickAccept(x) \/ ClickReject(x)
  <2>1. PICK how \in {"accept", "decline"} :
          /\ Answered(x, how) /\ t.incoming /\ ~t.accepted
          /\ how = "accept" => Leave(x, AcceptCall(t), net, events)
          /\ how = "decline" => Leave(x, RejectCall(t), net, events)
    BY <1>3 DEF ClickAccept, ClickReject, Handled, Rings
  <2>2. PICK d : d = IF how = "accept" THEN AcceptCall(t) ELSE RejectCall(t)
    OBVIOUS
  <2>3. /\ TabOK(d) /\ ~d.peerAccepted /\ t.call # NoCall /\ ~t.outgoing
        /\ d.outbox = {Word(how, t.call)} /\ d.call \in {t.call, NoCall}
        /\ \A c \in Calls : ~RingsFor(d, c) /\ ~CallsFor(d, c)
    <3>1. ~t.outgoing
      BY <1>1, <2>1 DEF TabOK, Agrees
    <3>2. CASE how = "accept"
      BY <1>1, <2>1, <2>2, <3>1, <3>2, AcceptCallOK DEF RingsFor, CallsFor
    <3>3. CASE how = "decline"
      BY <1>1, <2>1, <2>2, <3>1, <3>3, RejectCallOK, IdleListens
    <3> QED BY <3>2, <3>3
  <2>4. /\ t.call \in Calls /\ RingsFor(t, t.call) /\ t.call \in DOMAIN calls
        /\ UserOf[x] = calls[t.call].to
    BY <1>1, <2>1, <2>3 DEF TabOK, Tab, RingsFor
  <2>13. PICK c : c = t.call
    OBVIOUS
  <2>5. /\ Given(c)' /\ answers \subseteq answers'
    <3>1. PICK a : a = [tab |-> x, call |-> t.call, how |-> how]
      OBVIOUS
    <3>2. answers' = answers \cup {a}
      BY <2>1, <3>1 DEF Answered
    <3>3. a.call = c /\ a.how # "reload"
      BY <2>13, <3>1
    <3> QED BY <3>2, <3>3 DEF Given
  <2>6. Listening(d) /\ d \in Tab
    BY <2>3 DEF Listening, TabOK
  <2>7. Answers(x, d)
    <3>1. \A w \in d.outbox : w.word = how /\ w.call = t.call
      BY <2>3 DEF Word
    <3>2. \A w \in d.outbox : w.call = c
      BY <2>13, <3>1
    <3> QED BY <2>4, <2>5, <3>1, <3>2 DEF Answers
  <2>8. TakesUp(x, d)
    BY <2>3 DEF TakesUp
  <2>9. StopsCalling(x, d)
    BY <1>1, <2>3 DEF StopsCalling, CallsFor
  <2>10. StopsRinging(x, d)
    <3>1. Says(d, how, t.call)
      BY <2>3 DEF Says, Word
    <3> QED BY <2>1, <3>1 DEF StopsRinging, RingsFor
  <2>11. Handles(x, d, net, events)
    BY <1>2 DEF Handles
  <2>12. Leave(x, d, net, events)
    BY <2>1, <2>2
  <2> QED BY <1>2, <2>5, <2>6, <2>7, <2>8, <2>9, <2>10, <2>11, <2>12, HandlerTells
<1>4. CASE ClickEnd(x)
  <2>1. PICK d : d = EndCall(t)
    OBVIOUS
  <2>2. /\ Leave(x, d, net, events) /\ ~Rings(x) /\ answers' = answers
    BY <1>4, <2>1 DEF ClickEnd, Handled, history
  <2>3. /\ TabOK(d) /\ d.call = NoCall /\ ~d.peerAccepted
        /\ d.outbox # {} => d.outbox = {Word("cancel", t.call)} /\ t.outgoing /\ t.call # NoCall
        /\ t.outgoing /\ t.ready => d.outbox = {Word("cancel", t.call)}
    BY <1>1, <2>1, EndCallOK
  <2>4. /\ Listening(d) /\ d \in Tab
        /\ \A c \in Calls : ~RingsFor(d, c) /\ ~CallsFor(d, c)
    BY <2>3, IdleListens DEF TabOK
  <2>5. Answers(x, d)
    BY <1>1, <2>3 DEF Answers, Word, OwnCall
  <2>6. TakesUp(x, d)
    BY <2>4 DEF TakesUp
  <2>7. StopsCalling(x, d)
    <3> SUFFICES ASSUME NEW c \in DOMAIN calls, Caller(c) = x, t.call = c
                 PROVE  Says(d, "cancel", c) \/ c \in creating
      BY DEF StopsCalling
    <3>1. CallsFor(t, c) /\ t.outgoing /\ c \in Calls
      BY <1>1 DEF CallsFor
    <3>2. CASE t.ready
      <4>1. Word("cancel", t.call) \in d.outbox
        BY <2>3, <3>1, <3>2
      <4>2. Word("cancel", t.call).word = "cancel" /\ Word("cancel", t.call).call = c
        BY DEF Word
      <4> QED BY <4>1, <4>2 DEF Says
    <3>3. CASE ~t.ready
      BY <3>1, <3>3 DEF Told, Unsent
    <3> QED BY <3>2, <3>3
  <2>8. StopsRinging(x, d)
    BY <2>2 DEF StopsRinging, RingsFor, Rings
  <2>9. Handles(x, d, net, events)
    BY <1>2 DEF Handles
  <2> QED BY <1>2, <2>2, <2>4, <2>5, <2>6, <2>7, <2>8, <2>9, HandlerTells
<1> QED BY <1>3, <1>4

LEMMA ReloadTells ==
  ASSUME IndInv, Told, NEW x \in Tabs, Reload(x)
  PROVE  Told'
<1>1. /\ tabs' = [tabs EXCEPT ![x] = NewTab] /\ events' = {e \in events : e.tab # x}
      /\ net' = net /\ calls' = calls /\ busy' = busy
      /\ creating' = creating \ {c \in DOMAIN calls : Caller(c) = x}
      /\ lost' = lost \cup ({tabs[x].held} \ {NoCall})
                      \cup {e.call : e \in {f \in events : f.tab = x}}
      /\ answers \subseteq answers'
  BY DEF Reload, Answered
<1>2. TabOK(NewTab) /\ NewTab.call = NoCall /\ NewTab.outbox = {} /\ ~NewTab.peerAccepted
  BY NewTabOK DEF NewTab
<1>3. NewTab = [NewTab EXCEPT !.outbox = {}]
  BY <1>2 DEF TabOK, Tab
<1>4. Leave(x, NewTab, net, {e \in events : e.tab # x})
  <2>1. Sent(x, NewTab) = {}
    BY <1>2 DEF Sent
  <2>2. \A e \in events : e.tab # x => Heard(x, NewTab, e)
    BY DEF Heard
  <2> QED BY <1>1, <1>3, <2>1, <2>2 DEF Leave
<1>5. PICK n : n = NewTab
  OBVIOUS
<1>6. /\ Listening(n) /\ n \in Tab /\ \A c \in Calls : ~RingsFor(n, c) /\ ~CallsFor(n, c)
  BY <1>2, <1>5, IdleListens DEF TabOK
<1>7. tabs[x].held = tabs[x].call /\ DOMAIN calls \subseteq Calls
  BY CallFacts DEF IndInv, TabsOK, TabOK, Agrees
<1>8. tabs[x].call # NoCall => tabs[x].call \in lost'
  BY <1>1, <1>7
<1>9. Answers(x, n) /\ TakesUp(x, n)
  BY <1>2, <1>5, <1>6 DEF Answers, TakesUp
<1>10. StopsCalling(x, n)
  BY <1>7, <1>8 DEF StopsCalling, Excused, Calls, NoCall
<1>11. StopsRinging(x, n)
  BY <1>7, <1>8 DEF StopsRinging, RingsFor, Calls, NoCall
<1>12. Handles(x, n, net, {e \in events : e.tab # x})
  <2>1. \A e \in events : e.tab = x => e.call \in lost' /\ e.call \in Calls
    BY <1>1, <1>7 DEF IndInv, KnownCalls
  <2>2. \A c \in creating \ creating' : Caller(c) = x /\ c \in Calls
    BY <1>1, <1>7
  <2> QED BY <1>1, <1>6, <2>1, <2>2 DEF Handles
<1> QED BY <1>1, <1>4, <1>5, <1>6, <1>9, <1>10, <1>11, <1>12, HandlerTells

LEMMA HubFailsTells ==
  ASSUME IndInv, Told, NEW c \in creating, HubFails(c)
  PROVE  Told'
<1>1. c \in DOMAIN calls /\ c \in Calls /\ Caller(c) \in Tabs
  BY CallFacts DEF IndInv, KnownCalls
<1>2. PICK x \in Tabs : x = Caller(c)
  BY <1>1
<1>3. PICK g : g = GiveUp(tabs[x], c)
  OBVIOUS
<1>4. /\ Leave(x, g, net, events) /\ UNCHANGED <<calls, lost, busy, answers>>
      /\ creating' = creating \ {c}
  BY <1>2, <1>3 DEF HubFails, Handled, history
<1>5. TabOK(tabs[x]) /\ tabs[x].outbox = {} /\ Listening(tabs[x])
  BY DEF IndInv, TabsOK, Told, AllListening
<1>6. /\ TabOK(g) /\ g.outbox = {}
      /\ IF tabs[x].outgoing /\ tabs[x].call = c THEN ~g.peerAccepted /\ g.call = NoCall
         ELSE g = tabs[x]
  BY <1>1, <1>3, <1>5, GiveUpOK
<1>7. Listening(g) /\ g \in Tab /\ Answers(x, g) /\ TakesUp(x, g)
  <2>1. CASE tabs[x].outgoing /\ tabs[x].call = c
    BY <1>6, <2>1, IdleListens DEF TabOK, Answers, TakesUp
  <2>2. CASE ~(tabs[x].outgoing /\ tabs[x].call = c)
    BY <1>5, <1>6, <2>2 DEF TabOK, Answers, TakesUp
  <2> QED BY <2>1, <2>2
<1>8. StopsCalling(x, g)
  BY <1>6 DEF StopsCalling
<1>9. StopsRinging(x, g)
  BY <1>5, <1>6 DEF StopsRinging, RingsFor, TabOK, Agrees
<1>10. ~CallsFor(g, c)
  BY <1>1, <1>6 DEF CallsFor, Calls, NoCall
<1>11. Handles(x, g, net, events)
  BY <1>2, <1>4, <1>10 DEF Handles
<1> QED BY <1>4, <1>7, <1>8, <1>9, <1>11, HandlerTells

LEMMA InviteFailsTells ==
  ASSUME IndInv, Told, NEW c \in awaiting, InviteFails(c)
  PROVE  Told'
<1>1. c \in DOMAIN calls /\ c \in Calls /\ Caller(c) \in Tabs
  BY CallFacts DEF IndInv, KnownCalls
<1>2. PICK x \in Tabs : x = Caller(c)
  BY <1>1
<1>3. PICK t : t = [tabs[x] EXCEPT !.streams = {s \in @ : s.call # c}]
  OBVIOUS
<1>4. PICK g : g = GiveUp(t, c)
  OBVIOUS
<1>5. PICK pending \in {net, OtherThanInvite(c)} : Leave(x, g, pending, events)
  BY <1>2, <1>3, <1>4 DEF InviteFails
<1>6. /\ UNCHANGED <<calls, creating, busy, answers>> /\ lost \subseteq lost'
      /\ tabs[x].outgoing /\ tabs[x].call = c => c \in lost'
      /\ pending \in SUBSET net /\ \A p \in net \ pending : p.kind = "invite" /\ p.call = c
  BY <1>2, <1>5 DEF InviteFails, OtherThanInvite
<1>7. /\ TabOK(tabs[x]) /\ tabs[x] \in Tab /\ tabs[x].outbox = {} /\ Listening(tabs[x])
  BY DEF IndInv, TabsOK, TabOK, Told, AllListening
<1>8. /\ t \in Tab /\ t.phase = tabs[x].phase /\ t.held = tabs[x].held
      /\ t.streams = {s \in tabs[x].streams : s.call # c}
      /\ t.open = tabs[x].open /\ t.incoming = tabs[x].incoming
      /\ t.outgoing = tabs[x].outgoing /\ t.accepted = tabs[x].accepted
      /\ t.peerAccepted = tabs[x].peerAccepted /\ t.declined = tabs[x].declined
      /\ t.call = tabs[x].call /\ t.ready = tabs[x].ready /\ t.shown = tabs[x].shown
      /\ t.ring = tabs[x].ring /\ t.ringback = tabs[x].ringback
      /\ t.outbox = tabs[x].outbox
  BY <1>3, <1>7 DEF Tab
<1>9. TabOK(t)
  BY <1>7, <1>8 DEF TabOK, Agrees, Sources, Tones
<1>10. /\ TabOK(g) /\ g.outbox = {}
       /\ IF t.outgoing /\ t.call = c THEN ~g.peerAccepted /\ g.call = NoCall ELSE g = t
  BY <1>1, <1>4, <1>7, <1>8, <1>9, GiveUpOK
<1>11. ~RingsFor(tabs[x], c)
  BY <1>1, <1>2, WhoseCall
<1>12. Listening(g) /\ g \in Tab /\ Answers(x, g) /\ TakesUp(x, g)
  <2>1. CASE t.outgoing /\ t.call = c
    BY <1>10, <2>1, IdleListens DEF TabOK, Answers, TakesUp
  <2>2. CASE ~(t.outgoing /\ t.call = c)
    <3>1. \A d : /\ RingsFor(t, d) <=> RingsFor(tabs[x], d)
                 /\ CallsFor(t, d) <=> CallsFor(tabs[x], d)
                 /\ \A k : d # c => (Hears(t, d, k) <=> Hears(tabs[x], d, k))
      BY <1>8 DEF RingsFor, CallsFor, Hears
    <3>2. ~CallsFor(t, c) /\ ~RingsFor(t, c)
      BY <1>11, <2>2, <3>1 DEF CallsFor
    <3>3. Listening(t)
      BY <1>7, <1>8, <3>1, <3>2 DEF Listening
    <3>4. Answers(x, t) /\ TakesUp(x, t)
      BY <1>7, <1>8, <3>1 DEF Answers, TakesUp
    <3> QED BY <1>8, <1>10, <2>2, <3>3, <3>4
  <2> QED BY <2>1, <2>2
<1>13. StopsCalling(x, g)
  BY <1>6, <1>8, <1>10 DEF StopsCalling, Excused
<1>14. StopsRinging(x, g)
  BY <1>7, <1>8, <1>10 DEF StopsRinging, RingsFor, TabOK, Agrees
<1>15. c \in lost' \/ ~CallsFor(g, c)
  BY <1>6, <1>8, <1>10 DEF CallsFor
<1>16. Handles(x, g, pending, events)
  <2>1. ASSUME NEW p \in net \ pending
        PROVE  /\ p.kind = "invite"
               /\ p.call \in lost' \/ (Caller(p.call) = x /\ ~CallsFor(g, p.call))
    BY <1>2, <1>6, <1>15
  <2>2. events \ events = {} /\ creating' = creating
    BY <1>6
  <2> QED BY <2>1, <2>2 DEF Handles
<1> QED BY <1>5, <1>6, <1>12, <1>13, <1>14, <1>16, HandlerTells

(* Steps of the network leave the tabs alone: whatever is taken from it     *)
(* becomes an event, or the call counts as lost or its user as busy.        *)
Becomes(c) == \A x \in Tabs : CallsFor(tabs[x], c) => Waiting(c)'
Handed(p) ==
  IF p.kind = "invite" THEN CalleeTabs(p.call) = {} \/ Offered(p.call)'
  ELSE /\ p.kind = "cancel" =>
            \/ p.call \in lost'
            \/ /\ ~Offered(p.call)'
               /\ \A x \in Tabs : RingsFor(tabs[x], p.call) => Cancelled(x, p.call)'
       /\ p.kind # "cancel" => Becomes(p.call)

LEMMA NetworkTells ==
  ASSUME IndInv, Told, UNCHANGED <<tabs, calls, creating, answers>>,
         lost \subseteq lost', busy \subseteq busy', net' \subseteq net,
         \A c : Offered(c)' => Offered(c),
         \A p \in net \ net' : Handed(p),
         \A e \in events \ events' : e.kind = "inbox" /\ e.call \in busy',
         \A e \in events' \ events : e.kind # "inbox" =>
           \/ e.word = "cancel" /\ e.from = UserOf[Caller(e.call)]
           \/ e.word \in {"accept", "decline"} /\ e.from = calls[e.call].to /\ Given(e.call)
  PROVE  Told'
<1>1. \A c : /\ Given(c)' <=> Given(c)
             /\ RingsSomewhere(c)' <=> RingsSomewhere(c)
             /\ Excused(c) => Excused(c)'
  BY DEF Given, RingsSomewhere, RingsFor, Excused
<1>2. AllListening'
  BY DEF Told, AllListening, Listening, RingsFor, CallsFor, Hears
<1>3. AnswersGiven'
  <2>1. ASSUME NEW p \in net', p.kind \in {"accept", "decline"}
        PROVE  UserOf[p.from] = calls[p.call].to /\ Given(p.call)'
    BY <1>1, <2>1 DEF Told, AnswersGiven
  <2>2. ASSUME NEW e \in events', e.kind # "inbox"
        PROVE  \/ e.word = "cancel" /\ e.from = UserOf[Caller(e.call)]
               \/ /\ e.word \in {"accept", "decline"} /\ e.from = calls[e.call].to
                  /\ Given(e.call)'
    BY <1>1, <2>2 DEF Told, AnswersGiven
  <2> QED BY <2>1, <2>2 DEF AnswersGiven, Caller
<1>4. Unsent'
  BY <1>1 DEF Told, Unsent, CallsFor
<1>5. CallsEnd'
  <2> SUFFICES ASSUME NEW c \in DOMAIN calls
               PROVE  Ending(c)'
    BY DEF CallsEnd
  <2>1. Ending(c)
    BY DEF Told, CallsEnd
  <2>2. CASE tabs[Caller(c)].call = c
    BY <2>2 DEF Ending, Caller
  <2>3. CASE Excused(c)
    BY <1>1, <2>3 DEF Ending
  <2>4. CASE \E p \in net : p.kind = "cancel" /\ p.call = c
    <3> PICK p \in net : p.kind = "cancel" /\ p.call = c
      BY <2>4
    <3>1. CASE p \in net'
      BY <3>1 DEF Ending
    <3>2. CASE p \notin net'
      <4>1. CASE c \in lost'
        BY <4>1 DEF Ending, Excused
      <4>2. CASE c \notin lost'
        <5>1. /\ \A x \in Tabs : RingsFor(tabs[x], c) => Cancelled(x, c)'
              /\ ~Offered(c)'
          BY <3>2, <4>2 DEF Handed
        <5> QED BY <5>1 DEF Ending, RingsFor
      <4> QED BY <4>1, <4>2
    <3> QED BY <3>1, <3>2
  <2>5. CASE ~Offered(c) /\ \A x \in Tabs : RingsFor(tabs[x], c) => Cancelled(x, c)
    <3>1. ASSUME NEW x \in Tabs, RingsFor(tabs[x], c)
          PROVE  Cancelled(x, c)'
      <4>1. PICK e \in events : e.tab = x /\ SaysCancel(e, c)
        BY <2>5, <3>1 DEF Cancelled
      <4>2. e \in events' /\ SaysCancel(e, c)'
        BY <4>1 DEF SaysCancel, Caller
      <4> QED BY <4>1, <4>2 DEF Cancelled
    <3> QED BY <2>5, <3>1 DEF Ending, RingsFor
  <2> QED BY <2>1, <2>2, <2>3, <2>4, <2>5 DEF Ending
<1>6. CallsWait'
  <2> SUFFICES ASSUME NEW y \in Tabs, NEW c \in Calls, CallsFor(tabs[y], c)
               PROVE  Waiting(c)'
    BY DEF CallsWait, CallsFor
  <2>1. Waiting(c)
    BY DEF Told, CallsWait
  <2>2. CASE c \in creating \cup lost \cup busy
    BY <2>2 DEF Waiting
  <2>3. CASE CalleeTabs(c) = {}
    BY <2>3 DEF CalleeTabs, Waiting
  <2>4. CASE \E p \in net : p.call = c /\ p.kind = "invite"
    <3>1. PICK p \in net : p.call = c /\ p.kind = "invite"
      BY <2>4
    <3>2. CASE p \in net'
      BY <3>1, <3>2 DEF Waiting, Offered
    <3>3. CASE p \notin net'
      <4>1. CalleeTabs(c) = {} \/ Offered(c)'
        BY <3>1, <3>3 DEF Handed
      <4> QED BY <4>1 DEF Waiting, CalleeTabs
    <3> QED BY <3>2, <3>3
  <2>5. CASE \E e \in events : e.call = c /\ e.kind = "inbox"
    BY <2>5 DEF Waiting, Offered
  <2>6. CASE RingsSomewhere(c)
    BY <1>1, <2>6 DEF Waiting
  <2>7. CASE \E p \in net : p.call = c /\ p.kind \in {"accept", "decline"}
    <3>1. PICK p \in net : p.call = c /\ p.kind \in {"accept", "decline"}
      BY <2>7
    <3>2. CASE p \in net'
      BY <3>1, <3>2 DEF Waiting, Answering
    <3>3. CASE p \notin net'
      BY <3>1, <3>3 DEF Handed, Becomes
    <3> QED BY <3>2, <3>3
  <2>8. CASE \E e \in events : SaysAnswer(e, c)
    <3>1. PICK e \in events : SaysAnswer(e, c)
      BY <2>8
    <3>2. e \in events' /\ SaysAnswer(e, c)'
      BY <3>1 DEF SaysAnswer
    <3> QED BY <3>2 DEF Waiting, Answering
  <2> QED BY <2>1, <2>2, <2>3, <2>4, <2>5, <2>6, <2>7, <2>8 DEF Waiting, Offered, Answering
<1> QED BY <1>2, <1>3, <1>4, <1>5, <1>6 DEF Told

LEMMA InviteArrivesTells ==
  ASSUME IndInv, Told, NEW p \in net, InviteArrives(p)
  PROVE  Told'
<1> DEFINE new == {[kind |-> "inbox", call |-> p.call, tab |-> x, word |-> "invite",
                    from |-> UserOf[p.from]] : x \in CalleeTabs(p.call)}
<1>1. /\ net' = net \ {p} /\ events' = events \cup new /\ p.kind = "invite"
      /\ UNCHANGED <<tabs, calls, creating, answers, lost, busy>>
  BY DEF InviteArrives, history
<1>2. ASSUME NEW e \in new
      PROVE  e.kind = "inbox" /\ e.call = p.call
  OBVIOUS
<1>3. ASSUME CalleeTabs(p.call) # {}
      PROVE  Offered(p.call)'
  <2>1. PICK x \in CalleeTabs(p.call) : TRUE
    BY <1>3
  <2>2. PICK e : e = [kind |-> "inbox", call |-> p.call, tab |-> x, word |-> "invite",
                      from |-> UserOf[p.from]]
    OBVIOUS
  <2>3. e.call = p.call /\ e.kind = "inbox"
    BY <2>2
  <2>4. e \in new /\ e.call = p.call /\ e.kind = "inbox"
    BY <2>1, <2>2, <2>3
  <2>5. e \in events'
    BY <1>1, <2>4
  <2>6. PICK c : c = p.call
    OBVIOUS
  <2>7. Offered(c)'
    BY <2>4, <2>5, <2>6 DEF Offered
  <2> QED BY <2>6, <2>7
<1> HIDE DEF new
<1>4. ASSUME NEW c, Offered(c)'
      PROVE  Offered(c)
  <2>1. CASE c = p.call
    BY <1>1, <2>1 DEF Offered
  <2>2. CASE c # p.call
    BY <1>1, <1>2, <1>4, <2>2 DEF Offered
  <2> QED BY <2>1, <2>2
<1>5. \A q \in net \ net' : Handed(q)
  <2>1. \A q \in net \ net' : q = p
    BY <1>1
  <2> QED BY <1>1, <1>3, <2>1 DEF Handed
<1>6. \A e \in events' \ events : e.kind = "inbox"
  BY <1>1, <1>2
<1>7. events \ events' = {} /\ net' \subseteq net
  BY <1>1
<1> QED BY <1>1, <1>4, <1>5, <1>6, <1>7, NetworkTells

(* Who listens when a word arrives, hears it.                               *)
LEMMA PostHeard ==
  ASSUME IndInv, NEW p \in net, PostArrives(p), ~Unready(p),
         NEW x \in Tabs, x \in Addressed(p), NEW k \in {"accept", "decline", "cancel"}, Hears(tabs[x], p.call, k)
  PROVE  \E e \in events' : /\ e.tab = x /\ e.call = p.call /\ e.kind = k
                            /\ e.word = p.kind /\ e.from = UserOf[p.from]
<1>1. /\ p \in Request /\ p.call \in Calls /\ UserOf[p.from] \in Users
  BY TabsAssumption DEF IndInv, KnownCalls, Request
<1>2. PICK e : e = [kind |-> k, call |-> p.call, tab |-> x, word |-> p.kind,
                    from |-> UserOf[p.from]]
  OBVIOUS
<1>3. /\ e.kind = k /\ e.call = p.call /\ e.tab = x /\ e.word = p.kind
      /\ e.from = UserOf[p.from]
  BY <1>2
<1>4. e \in Event
  BY <1>1, <1>2 DEF Event, Request
<1>5. \E s \in tabs[e.tab].streams : s.call = p.call /\ s.kind = e.kind /\ s.live
  <2>1. PICK s \in tabs[x].streams : s.call = p.call /\ s.kind = k
    BY DEF Hears
  <2>2. s.live
    BY <2>1 DEF Unready
  <2> QED BY <1>3, <2>1, <2>2
<1>6. e \in Listeners(p.call)
  BY <1>3, <1>4, <1>5 DEF Listeners
<1>7. e \in events'
  BY <1>3, <1>6 DEF PostArrives
<1> QED BY <1>3, <1>7

LEMMA PostArrivesTells ==
  ASSUME IndInv, Told, NEW p \in net, PostArrives(p)
  PROVE  Told'
<1> DEFINE new == {e \in Listeners(p.call) : e.word = p.kind /\ e.from = UserOf[p.from]}
<1>1. /\ net' = net \ {p} /\ events' = events \cup new /\ p.kind # "invite"
      /\ UNCHANGED <<tabs, calls, creating, answers, busy>>
      /\ lost' = lost \cup (IF Unready(p) THEN {p.call} ELSE {})
  BY DEF PostArrives
<1>2. PICK c : c = p.call
  OBVIOUS
<1>3. c \in DOMAIN calls /\ c \in Calls /\ p \in Request
  BY <1>2, CallFacts DEF IndInv, KnownCalls
<1>4. ASSUME NEW e \in new
      PROVE  /\ e.kind # "inbox" /\ e.call = c /\ e.word = p.kind
             /\ e.from = UserOf[p.from]
  <2>1. /\ e \in Event /\ e.call = c /\ e.word = p.kind /\ e.from = UserOf[p.from]
        /\ \E s \in tabs[e.tab].streams : s.kind = e.kind
    BY <1>2 DEF Listeners
  <2>2. PICK s \in tabs[e.tab].streams : s.kind = e.kind
    BY <2>1
  <2>3. s \in Stream
    BY <2>1 DEF IndInv, TabsOK, Event, Tab
  <2> QED BY <2>1, <2>2, <2>3 DEF Stream
<1> HIDE DEF new
<1>5. /\ p.kind = "cancel" => UserOf[p.from] = UserOf[Caller(c)]
      /\ p.kind # "cancel" => /\ p.kind \in {"accept", "decline"}
                              /\ UserOf[p.from] = calls[c].to /\ Given(c)
  BY <1>1, <1>2, <1>3 DEF IndInv, CallerGone, Told, AnswersGiven, Request
<1>6. \A d : Offered(d)' => Offered(d)
  BY <1>1, <1>4 DEF Offered
<1>7. ASSUME p.kind = "cancel", c \notin lost'
      PROVE  /\ ~Offered(c)'
             /\ \A x \in Tabs : RingsFor(tabs[x], c) => Cancelled(x, c)'
  <2>1. ~Unready(p)
    BY <1>1, <1>2, <1>7
  <2>2. ~Offered(c)
    BY <1>2, <1>7, <2>1 DEF Unready, Uninvited, Offered
  <2>3. ASSUME NEW x \in Tabs, RingsFor(tabs[x], c)
        PROVE  Cancelled(x, c)'
    <3>1. Hears(tabs[x], c, "cancel")
      BY <1>3, <2>3 DEF Told, AllListening, Listening
    <3>2. x \in Addressed(p)
      BY <1>2, <1>3, <1>7, <2>3, WhoseCall DEF Addressed, CalleeTabs
    <3>3. PICK e \in events' : /\ e.tab = x /\ e.call = c /\ e.kind = "cancel"
                               /\ e.word = p.kind /\ e.from = UserOf[p.from]
      BY <1>2, <2>1, <3>1, <3>2, PostHeard
    <3>4. SaysCancel(e, c)'
      BY <1>1, <1>5, <1>7, <3>3 DEF SaysCancel, Caller
    <3> QED BY <3>3, <3>4 DEF Cancelled
  <2> QED BY <1>6, <2>2, <2>3
<1>8. ASSUME p.kind # "cancel", NEW x \in Tabs, CallsFor(tabs[x], c)
      PROVE  Waiting(c)'
  <2>1. CASE Unready(p)
    BY <1>1, <1>2, <2>1 DEF Waiting
  <2>2. CASE ~tabs[x].ready
    BY <1>1, <1>3, <1>8, <2>2 DEF Told, Unsent, Waiting
  <2>3. CASE ~Unready(p) /\ tabs[x].ready
    <3>1. Hears(tabs[x], c, "decline")
      BY <1>3, <1>8, <2>3 DEF Told, AllListening, Listening
    <3>2. x \in Addressed(p)
      BY <1>2, <1>3, <1>8, WhoseCall DEF Addressed
    <3>3. PICK e \in events' : /\ e.call = c /\ e.kind = "decline"
                               /\ e.from = UserOf[p.from]
      BY <1>2, <2>3, <3>1, <3>2, PostHeard
    <3>4. SaysAnswer(e, c)'
      BY <1>1, <1>5, <1>8, <3>3 DEF SaysAnswer
    <3> QED BY <3>3, <3>4 DEF Answering, Waiting
  <2> QED BY <2>1, <2>2, <2>3
<1>9. \A q \in net \ net' : Handed(q)
  <2>1. \A q \in net \ net' : q = p
    BY <1>1
  <2>2. Handed(p)
    BY <1>1, <1>2, <1>7, <1>8 DEF Handed, Becomes
  <2> QED BY <2>1, <2>2
<1>10. ASSUME NEW e \in events' \ events
       PROVE  \/ e.word = "cancel" /\ e.from = UserOf[Caller(e.call)]
              \/ e.word \in {"accept", "decline"} /\ e.from = calls[e.call].to /\ Given(e.call)
  BY <1>1, <1>4, <1>5
<1>11. events \ events' = {} /\ net' \subseteq net /\ lost \subseteq lost'
  BY <1>1
<1> QED BY <1>1, <1>6, <1>9, <1>10, <1>11, NetworkTells

LEMMA PostLostTells ==
  ASSUME IndInv, Told, NEW p \in net, PostLost(p)
  PROVE  Told'
<1>1. /\ net' = net \ {p} /\ lost' = lost \cup {p.call} /\ p.kind # "invite"
      /\ UNCHANGED <<tabs, calls, creating, events, answers, busy>>
  BY DEF PostLost
<1>2. \A c : Offered(c)' => Offered(c)
  BY <1>1 DEF Offered
<1>3. PICK c : c = p.call
  OBVIOUS
<1>4. Waiting(c)'
  BY <1>1, <1>3 DEF Waiting
<1>5. \A q \in net \ net' : Handed(q)
  BY <1>1, <1>3, <1>4 DEF Handed, Becomes
<1>6. events' \ events = {} /\ events \ events' = {} /\ net' \subseteq net
      /\ lost \subseteq lost'
  BY <1>1
<1> QED BY <1>1, <1>2, <1>5, <1>6, NetworkTells

LEMMA InboxTells ==
  ASSUME IndInv, Told, NEW e \in events, InboxEvent(e)
  PROVE  Told'
<1>1. /\ e.kind = "inbox" /\ e \in Event /\ e.tab \in Tabs
      /\ UNCHANGED <<calls, creating, lost, answers>>
  BY DEF InboxEvent, IndInv, KnownCalls, Event
<1>2. PICK c : c = e.call
  OBVIOUS
<1>3. PICK x \in Tabs : x = e.tab
  BY <1>1
<1>4. /\ c \in DOMAIN calls /\ c \in Calls /\ Caller(c) # x /\ Offered(c)
  <2>1. c \in DOMAIN calls /\ UserOf[x] = calls[c].to
    BY <1>1, <1>2, <1>3 DEF IndInv, KnownCalls, EventsHeard
  <2>2. Offered(c)
    BY <1>1, <1>2 DEF Offered
  <2> QED BY <2>1, <2>2, CallFacts DEF IndInv
<1>5. CASE ~IsFree(tabs[x])
  <2>1. /\ UNCHANGED <<tabs, net>> /\ events' = events \ {e} /\ busy' = busy \cup {c}
    BY <1>2, <1>3, <1>5 DEF InboxEvent
  <2>2. \A d : Offered(d)' => Offered(d)
    BY <2>1 DEF Offered
  <2>3. \A f \in events \ events' : f.kind = "inbox" /\ f.call \in busy'
    BY <1>1, <1>2, <2>1
  <2>4. net \ net' = {} /\ events' \ events = {} /\ busy \subseteq busy'
    BY <2>1
  <2> QED BY <1>1, <2>1, <2>2, <2>3, <2>4, NetworkTells
<1>6. CASE IsFree(tabs[x])
  <2>1. PICK r : r = ReceiveCall(tabs[x], c)
    OBVIOUS
  <2>2. Leave(x, r, net, events \ {e}) /\ busy' = busy
    BY <1>2, <1>3, <1>6, <2>1 DEF InboxEvent
  <2>3. /\ TabOK(tabs[x]) /\ tabs[x].outbox = {} /\ tabs \in [Tabs -> Tab]
        /\ ~tabs[x].incoming /\ ~tabs[x].outgoing /\ tabs[x].call = NoCall
        /\ ~tabs[x].peerAccepted
    BY <1>6 DEF IndInv, TabsOK, TabOK, Agrees, IsFree, CanStart, Told, AllListening, Listening
  <2>4. /\ TabOK(r) /\ r.call = c /\ r.incoming /\ ~r.outgoing /\ ~r.accepted
        /\ r.outbox = {} /\ ~r.peerAccepted /\ Hears(r, c, "cancel")
    BY <1>4, <1>6, <2>1, <2>3, ReceiveCallOK
  <2>5. PICK n : n = [r EXCEPT !.outbox = {}]
    OBVIOUS
  <2>6. n = r
    BY <2>4, <2>5 DEF TabOK, Tab
  <2>7. /\ tabs' = [tabs EXCEPT ![x] = r] /\ net' = net \cup Sent(x, r)
        /\ events' = {f \in events \ {e} : Heard(x, r, f)}
    BY <2>2, <2>5, <2>6 DEF Leave
  <2>8. /\ tabs'[x] = r /\ \A y \in Tabs \ {x} : tabs'[y] = tabs[y]
        /\ net' = net
    BY <2>3, <2>4, <2>7 DEF Sent
  <2>9. events' = events \ {e}
    <3>1. ASSUME NEW f \in events, f.tab = x, f.kind # "inbox"
          PROVE  FALSE
      BY <1>4, <2>3, <3>1, HeardBy, CallFacts DEF IndInv, Calls, NoCall
    <3> QED BY <2>7, <3>1 DEF Heard
  <2>10. \A y \in Tabs : \A d : d # c =>
           /\ RingsFor(tabs'[y], d) => y # x /\ RingsFor(tabs[y], d)
           /\ y # x => (RingsFor(tabs'[y], d) <=> RingsFor(tabs[y], d))
    BY <2>4, <2>8 DEF RingsFor
  <2>11. \A y \in Tabs : \A d :
           CallsFor(tabs'[y], d) => y # x /\ CallsFor(tabs[y], d) /\ tabs'[y] = tabs[y]
    BY <2>4, <2>8 DEF CallsFor
  <2>12. \A d : /\ Offered(d)' => Offered(d)
                /\ d # c => (Offered(d) => Offered(d)')
                /\ Given(d)' <=> Given(d)
                /\ Excused(d)' <=> Excused(d)
    BY <1>1, <1>2, <2>8, <2>9 DEF Offered, Given, Excused
  <2>13. RingsFor(tabs'[x], c)
    BY <2>4, <2>8 DEF RingsFor
  <2>14. AllListening'
    <3>1. Listening(r)
      BY <2>4 DEF Listening, RingsFor, CallsFor
    <3> QED BY <2>8, <3>1 DEF Told, AllListening, Listening, RingsFor, CallsFor, Hears
  <2>15. AnswersGiven'
    <3>1. ASSUME NEW p \in net, p.kind \in {"accept", "decline"}
          PROVE  UserOf[p.from] = calls[p.call].to /\ Given(p.call)'
      BY <2>12, <3>1 DEF Told, AnswersGiven
    <3>2. ASSUME NEW f \in events, f.kind # "inbox"
          PROVE  \/ f.word = "cancel" /\ f.from = UserOf[Caller(f.call)]
                 \/ /\ f.word \in {"accept", "decline"} /\ f.from = calls[f.call].to
                    /\ Given(f.call)'
      BY <2>12, <3>2 DEF Told, AnswersGiven
    <3> QED BY <1>1, <2>8, <2>9, <3>1, <3>2 DEF AnswersGiven, Caller
  <2>16. Unsent'
    <3>1. ASSUME NEW d \in creating
          PROVE  ~Offered(d)' /\ ~RingsSomewhere(d)'
      BY <1>4, <2>10, <2>12 DEF Told, Unsent, RingsSomewhere
    <3>2. ASSUME NEW y \in Tabs, NEW d \in Calls, CallsFor(tabs'[y], d), ~tabs'[y].ready
          PROVE  d \in creating
      BY <2>11, <3>2 DEF Told, Unsent
    <3> QED BY <1>1, <3>1, <3>2 DEF Unsent
  <2>17. CallsEnd'
    <3> SUFFICES ASSUME NEW d \in DOMAIN calls
                 PROVE  Ending(d)'
      BY <1>1 DEF CallsEnd
    <3>1. Ending(d) /\ Caller(d)' = Caller(d) /\ Caller(d) \in Tabs /\ d \in Calls
      BY <1>1, WhoseCall DEF Told, CallsEnd, Caller
    <3>2. CASE tabs[Caller(d)].call = d
      <4>1. Caller(d) # x
        BY <2>3, <3>1, <3>2 DEF Calls, NoCall
      <4> QED BY <2>8, <3>1, <3>2, <4>1 DEF Ending
    <3>3. CASE Excused(d)
      BY <2>12, <3>3 DEF Ending
    <3>4. CASE \E p \in net : p.kind = "cancel" /\ p.call = d
      BY <2>8, <3>4 DEF Ending
    <3>5. CASE ~Offered(d) /\ \A y \in Tabs : RingsFor(tabs[y], d) => Cancelled(y, d)
      <4>1. d # c
        BY <1>4, <3>5
      <4>2. \A y \in Tabs : Cancelled(y, d) => Cancelled(y, d)'
        BY <1>1, <2>9, <3>1 DEF Cancelled, SaysCancel
      <4> QED BY <2>10, <2>12, <3>5, <4>1, <4>2 DEF Ending
    <3> QED BY <3>1, <3>2, <3>3, <3>4, <3>5 DEF Ending
  <2>18. CallsWait'
    <3> SUFFICES ASSUME NEW y \in Tabs, NEW d \in Calls, CallsFor(tabs'[y], d)
                 PROVE  Waiting(d)'
      BY DEF CallsWait
    <3>1. Waiting(d)
      BY <2>11 DEF Told, CallsWait
    <3>2. CASE d = c
      BY <2>13, <3>2 DEF Waiting, RingsSomewhere
    <3>3. CASE d # c
      <4>1. Offered(d) => Offered(d)'
        BY <2>12, <3>3
      <4>2. RingsSomewhere(d) => RingsSomewhere(d)'
        BY <2>3, <2>10, <3>3 DEF RingsSomewhere, RingsFor
      <4>3. Answering(d) => Answering(d)'
        BY <1>1, <2>8, <2>9 DEF Answering, SaysAnswer
      <4> QED BY <1>1, <2>2, <3>1, <4>1, <4>2, <4>3 DEF Waiting, CalleeTabs
    <3> QED BY <3>2, <3>3
  <2> QED BY <2>14, <2>15, <2>16, <2>17, <2>18 DEF Told
<1> QED BY <1>5, <1>6

LEMMA MakeCallTells ==
  ASSUME IndInv, Told, NEW x \in Tabs, NEW u \in Users, MakeCall(x, u)
  PROVE  Told'
<1>1. PICK c : c = Len(calls) + 1
  OBVIOUS
<1>2. PICK m : m = [MakeVideoCall(Start(tabs[x], c), c) EXCEPT !.ringback = TRUE]
  OBVIOUS
<1>3. /\ KnownCalls /\ TabOK(tabs[x]) /\ tabs[x].outbox = {} /\ tabs \in [Tabs -> Tab]
      /\ calls \in Seq([from : Tabs, to : Users])
  BY DEF IndInv, TabsOK, KnownCalls
<1>4. c \in Calls /\ IsFree(tabs[x])
  BY <1>1 DEF MakeCall
<1>5. TabOK(m) /\ m.call = c /\ m.outgoing /\ ~m.incoming /\ m.outbox = {} /\ ~m.peerAccepted
      /\ ~m.ready
  BY <1>2, <1>3, <1>4, MakeCallOK
<1>6. PICK n : n = [m EXCEPT !.outbox = {}]
  OBVIOUS
<1>7. n = m
  BY <1>5, <1>6 DEF TabOK, Tab
<1>8. /\ tabs' = [tabs EXCEPT ![x] = m]
      /\ net' = net \cup Sent(x, m)
      /\ events' = {e \in events : Heard(x, m, e)}
      /\ calls' = Append(calls, [from |-> x, to |-> u])
      /\ creating' = creating \cup {c} /\ UNCHANGED <<lost, busy, answers>>
  BY <1>1, <1>2, <1>6, <1>7 DEF MakeCall, Handled, Leave, history
<1>9. /\ DOMAIN calls = 1..Len(calls) /\ Len(calls) \in Nat /\ DOMAIN calls \subseteq Calls
      /\ \A d \in DOMAIN calls : Caller(d) \in Tabs
  BY <1>3, CallFacts
<1>10. /\ DOMAIN calls' = DOMAIN calls \cup {c} /\ c \notin DOMAIN calls
       /\ \A d \in DOMAIN calls : calls'[d] = calls[d]
       /\ calls'[c] = [from |-> x, to |-> u]
  <2>1. [from |-> x, to |-> u] \in [from : Tabs, to : Users]
    OBVIOUS
  <2>2. /\ calls' \in Seq([from : Tabs, to : Users]) /\ Len(calls') = c
        /\ \A d \in 1..Len(calls) : calls'[d] = calls[d]
        /\ calls'[c] = [from |-> x, to |-> u]
    BY <1>1, <1>3, <1>8, <2>1, AppendProperties
  <2>3. DOMAIN calls' = 1..c
    BY <2>2
  <2> QED BY <1>1, <1>9, <2>2, <2>3
<1>11. /\ tabs[x].call = NoCall /\ ~tabs[x].incoming /\ ~tabs[x].outgoing
       /\ ~tabs[x].peerAccepted
  BY <1>3, <1>4 DEF TabOK, Agrees, IsFree, CanStart, Told, AllListening, Listening
<1>12. net' = net /\ events' = events
  <2>1. ASSUME NEW f \in events, f.tab = x, f.kind # "inbox"
        PROVE  FALSE
    BY <1>9, <1>11, <2>1, HeardBy DEF Calls, NoCall
  <2>2. Sent(x, m) = {}
    BY <1>5 DEF Sent
  <2> QED BY <1>8, <2>1, <2>2 DEF Heard
<1>13. /\ tabs'[x] = m /\ \A y \in Tabs \ {x} : tabs'[y] = tabs[y]
       /\ \A p \in net : p.call \in DOMAIN calls
       /\ \A e \in events : e.call \in DOMAIN calls
  BY <1>3, <1>8 DEF KnownCalls
<1>14. \A y \in Tabs : \A d \in Calls :
         /\ RingsFor(tabs'[y], d) <=> RingsFor(tabs[y], d)
         /\ CallsFor(tabs'[y], d) => \/ y = x /\ d = c /\ d \notin DOMAIN calls
                                     \/ y # x /\ CallsFor(tabs[y], d) /\ d \in DOMAIN calls
  <2>1. ASSUME NEW y \in Tabs, NEW d \in Calls, CallsFor(tabs[y], d)
        PROVE  d \in DOMAIN calls
    BY <2>1, WhoseCall
  <2> QED BY <1>5, <1>10, <1>11, <1>13, <2>1 DEF RingsFor, CallsFor
<1>15. \A d : /\ Offered(d)' <=> Offered(d)
              /\ Given(d)' <=> Given(d)
              /\ Excused(d)' <=> Excused(d)
              /\ d \in DOMAIN calls => Caller(d)' = Caller(d) /\ CalleeTabs(d)' = CalleeTabs(d)
  BY <1>8, <1>10, <1>12 DEF Offered, Given, Excused, Caller, CalleeTabs
<1>16. \A d \in Calls : RingsSomewhere(d)' <=> RingsSomewhere(d)
  BY <1>14 DEF RingsSomewhere
<1>17. AllListening'
  <2>1. Listening(m)
    BY <1>5 DEF Listening, RingsFor, CallsFor
  <2> QED BY <1>13, <2>1 DEF Told, AllListening, Listening, RingsFor, CallsFor, Hears
<1>18. AnswersGiven'
  <2>1. ASSUME NEW p \in net, p.kind \in {"accept", "decline"}
        PROVE  UserOf[p.from] = calls'[p.call].to /\ Given(p.call)'
    BY <1>10, <1>13, <1>15, <2>1 DEF Told, AnswersGiven
  <2>2. ASSUME NEW f \in events, f.kind # "inbox"
        PROVE  \/ f.word = "cancel" /\ f.from = UserOf[calls'[f.call].from]
               \/ /\ f.word \in {"accept", "decline"} /\ f.from = calls'[f.call].to
                  /\ Given(f.call)'
    BY <1>10, <1>13, <1>15, <2>2 DEF Told, AnswersGiven, Caller
  <2> QED BY <1>12, <2>1, <2>2 DEF AnswersGiven, Caller
<1>19. Unsent'
  <2>1. ASSUME NEW d \in creating'
        PROVE  ~Offered(d)' /\ ~RingsSomewhere(d)'
    <3>1. CASE d \in creating
      <4>1. d \in Calls
        BY <1>9, <3>1 DEF IndInv, KnownCalls
      <4> QED BY <1>15, <1>16, <3>1, <4>1 DEF Told, Unsent
    <3>2. CASE d = c
      <4>1. ~Offered(c)
        BY <1>10, <1>13 DEF Offered
      <4>2. ~RingsSomewhere(c)
        BY <1>4, <1>10, WhoseCall DEF RingsSomewhere
      <4> QED BY <1>4, <1>15, <1>16, <3>2, <4>1, <4>2
    <3> QED BY <1>8, <3>1, <3>2
  <2>2. ASSUME NEW y \in Tabs, NEW d \in Calls, CallsFor(tabs'[y], d), ~tabs'[y].ready
        PROVE  d \in creating'
    <3>1. CASE d = c
      BY <1>8, <3>1
    <3>2. CASE y # x /\ CallsFor(tabs[y], d)
      BY <1>8, <1>13, <2>2, <3>2 DEF Told, Unsent
    <3> QED BY <1>14, <2>2, <3>1, <3>2
  <2> QED BY <2>1, <2>2 DEF Unsent
<1>20. CallsEnd'
  <2> SUFFICES ASSUME NEW d \in DOMAIN calls'
               PROVE  Ending(d)'
    BY DEF CallsEnd
  <2>1. CASE d = c
    <3>1. Caller(d)' = x
      BY <1>10, <2>1 DEF Caller
    <3>2. tabs'[Caller(d)'].call = d
      BY <1>5, <1>13, <2>1, <3>1
    <3> QED BY <3>2 DEF Ending
  <2>2. CASE d \in DOMAIN calls
    <3>1. /\ Ending(d) /\ Caller(d)' = Caller(d) /\ Caller(d) \in Tabs /\ d \in Calls
          /\ calls'[d] = calls[d]
      BY <1>10, <1>15, <2>2, WhoseCall DEF Told, CallsEnd
    <3>2. CASE tabs[Caller(d)].call = d
      <4>1. Caller(d) # x
        BY <1>11, <3>1, <3>2 DEF Calls, NoCall
      <4> QED BY <1>13, <3>1, <3>2, <4>1 DEF Ending
    <3>3. CASE Excused(d)
      BY <1>15, <3>3 DEF Ending
    <3>4. CASE \E p \in net : p.kind = "cancel" /\ p.call = d
      BY <1>12, <3>4 DEF Ending
    <3>5. CASE ~Offered(d) /\ \A y \in Tabs : RingsFor(tabs[y], d) => Cancelled(y, d)
      <4>1. \A y \in Tabs : Cancelled(y, d) => Cancelled(y, d)'
        BY <1>12, <3>1 DEF Cancelled, SaysCancel, Caller
      <4> QED BY <1>14, <1>15, <3>1, <3>5, <4>1 DEF Ending
    <3> QED BY <3>1, <3>2, <3>3, <3>4, <3>5 DEF Ending
  <2> QED BY <1>10, <2>1, <2>2
<1>21. CallsWait'
  <2> SUFFICES ASSUME NEW y \in Tabs, NEW d \in Calls, CallsFor(tabs'[y], d)
               PROVE  Waiting(d)'
    BY DEF CallsWait
  <2>1. CASE d = c
    BY <1>8, <2>1 DEF Waiting
  <2>2. CASE CallsFor(tabs[y], d) /\ d \in DOMAIN calls
    <3>1. Waiting(d) /\ CalleeTabs(d)' = CalleeTabs(d) /\ calls'[d] = calls[d]
      BY <1>10, <1>15, <2>2 DEF Told, CallsWait
    <3>2. Answering(d) => Answering(d)'
      BY <1>12, <3>1 DEF Answering, SaysAnswer
    <3> QED BY <1>8, <1>15, <1>16, <3>1, <3>2 DEF Waiting
  <2> QED BY <1>14, <2>1, <2>2
<1> QED BY <1>17, <1>18, <1>19, <1>20, <1>21 DEF Told

LEMMA HubCreatedTells ==
  ASSUME IndInv, Told, NEW c \in creating, HubCreated(c)
  PROVE  Told'
<1>1. c \in DOMAIN calls /\ c \in Calls /\ Caller(c) \in Tabs
  BY CallFacts DEF IndInv, KnownCalls
<1>2. PICK x \in Tabs : x = Caller(c)
  BY <1>1
<1>3. /\ creating' = creating \ {c} /\ UNCHANGED <<calls, lost, busy, answers>>
  BY DEF HubCreated, history
<1>4. CASE ~CallsFor(tabs[x], c)
  <2>1. UNCHANGED <<tabs, net, events>>
    BY <1>2, <1>4 DEF HubCreated, CallsFor
  <2>2. \A d : Offered(d)' <=> Offered(d)
    BY <2>1 DEF Offered
  <2>3. \A d \in Calls : RingsSomewhere(d)' <=> RingsSomewhere(d)
    BY <2>1 DEF RingsSomewhere, RingsFor
  <2>4. ASSUME NEW y \in Tabs, NEW d \in Calls, CallsFor(tabs[y], d)
        PROVE  d # c
    BY <1>2, <1>4, <2>4, WhoseCall
  <2>5. AllListening'
    BY <2>1 DEF Told, AllListening, Listening, RingsFor, CallsFor, Hears
  <2>6. AnswersGiven'
    BY <1>3, <2>1 DEF Told, AnswersGiven, Given, Caller
  <2>7. Unsent'
    <3>1. \A d \in creating' : d \in creating /\ d \in Calls
      BY <1>3, CallFacts DEF IndInv, KnownCalls
    <3>2. \A d \in creating' : ~Offered(d)' /\ ~RingsSomewhere(d)'
      BY <2>2, <2>3, <3>1 DEF Told, Unsent
    <3>3. \A y \in Tabs : \A d \in Calls :
            CallsFor(tabs'[y], d) /\ ~tabs'[y].ready => d \in creating'
      BY <1>3, <2>1, <2>4 DEF Told, Unsent
    <3> QED BY <3>2, <3>3 DEF Unsent
  <2>8. CallsEnd'
    BY <1>3, <2>1 DEF Told, CallsEnd, Ending, Excused, Given, Offered, RingsFor, Cancelled,
                      SaysCancel, Caller
  <2>9. CallsWait'
    <3> SUFFICES ASSUME NEW y \in Tabs, NEW d \in Calls, CallsFor(tabs'[y], d)
                 PROVE  Waiting(d)'
      BY DEF CallsWait
    <3>1. Waiting(d) /\ d # c
      BY <2>1, <2>4 DEF Told, CallsWait
    <3>2. Answering(d) => Answering(d)'
      BY <1>3, <2>1 DEF Answering, SaysAnswer
    <3> QED BY <1>3, <2>2, <2>3, <3>1, <3>2 DEF Waiting, CalleeTabs
  <2> QED BY <2>5, <2>6, <2>7, <2>8, <2>9 DEF Told
<1>5. CASE CallsFor(tabs[x], c)
  <2>1. PICK h : h = [SignalSessionReady(tabs[x])
                        EXCEPT !.streams = @ \cup Listen(c, {"accept", "decline"}),
                               !.outbox = {Word("invite", c)}]
    OBVIOUS
  <2>2. Leave(x, h, net, events)
    BY <1>2, <1>5, <2>1 DEF HubCreated, Handled, CallsFor
  <2>3. /\ TabOK(tabs[x]) /\ tabs[x].outbox = {} /\ tabs \in [Tabs -> Tab]
        /\ tabs[x].outgoing /\ tabs[x].call = c /\ ~tabs[x].peerAccepted
        /\ ~tabs[x].incoming
    BY <1>5 DEF IndInv, TabsOK, TabOK, Agrees, Told, AllListening, Listening, CallsFor
  <2>4. /\ TabOK(h) /\ h.call = c /\ h.outgoing /\ ~h.incoming
        /\ h.outbox = {Word("invite", c)}
        /\ h.ready /\ ~h.peerAccepted /\ Hears(h, c, "decline")
        /\ tabs[x].streams \subseteq h.streams
    <3> DEFINE g == [SignalSessionReady(tabs[x])
                       EXCEPT !.streams = @ \cup Listen(c, {"accept", "decline"}),
                              !.outbox = {Word("invite", c)}]
    <3>1. /\ TabOK(g) /\ g.call = c /\ g.outgoing /\ ~g.incoming
          /\ g.outbox = {Word("invite", c)}
          /\ g.ready /\ g.peerAccepted = tabs[x].peerAccepted /\ Hears(g, c, "decline")
          /\ tabs[x].streams \subseteq g.streams
      BY <1>1, <2>3, HubReadyOK
    <3>2. h = g
      BY <2>1
    <3> HIDE DEF g
    <3> QED BY <2>3, <3>1, <3>2
  <2>5. PICK n : n = [h EXCEPT !.outbox = {}]
    OBVIOUS
  <2>6. /\ n.call = c /\ n.outgoing /\ ~n.incoming /\ n.ready /\ ~n.peerAccepted
        /\ n.streams = h.streams
    BY <2>4, <2>5 DEF TabOK, Tab
  <2>7. PICK p : p = [kind |-> "invite", call |-> c, from |-> x]
    OBVIOUS
  <2>8. p.kind = "invite" /\ p.call = c /\ p.from = x
    BY <2>7
  <2>9. Sent(x, h) = {p}
    BY <2>4, <2>7 DEF Sent, Word
  <2>10. /\ tabs' = [tabs EXCEPT ![x] = n] /\ net' = net \cup {p}
         /\ events' = {f \in events : Heard(x, h, f)}
    BY <2>2, <2>5, <2>9 DEF Leave
  <2>11. tabs'[x] = n /\ \A y \in Tabs \ {x} : tabs'[y] = tabs[y]
    BY <2>3, <2>10
  <2>12. events' = events
    <3>1. ASSUME NEW f \in events, f.tab = x, f.kind # "inbox"
          PROVE  \E s \in h.streams : s.call = f.call /\ s.kind = f.kind
      BY <2>4, <3>1 DEF IndInv, EventsHeard
    <3> QED BY <2>10, <3>1 DEF Heard
  <2>13. \A y \in Tabs : \A d \in Calls :
           /\ RingsFor(tabs'[y], d) <=> RingsFor(tabs[y], d)
           /\ CallsFor(tabs'[y], d) <=> CallsFor(tabs[y], d)
           /\ CallsFor(tabs[y], d) => ((y = x) <=> (d = c))
    BY <1>2, <2>3, <2>6, <2>11, WhoseCall DEF RingsFor, CallsFor
  <2>14. \A d \in Calls : RingsSomewhere(d)' <=> RingsSomewhere(d)
    BY <2>13 DEF RingsSomewhere
  <2>15. /\ Offered(c)'
         /\ \A d : /\ d # c => (Offered(d)' <=> Offered(d))
                   /\ Given(d)' <=> Given(d)
                   /\ Excused(d)' <=> Excused(d)
    BY <1>3, <2>8, <2>10, <2>12 DEF Offered, Given, Excused
  <2>16. AllListening'
    <3>1. Listening(n)
      BY <2>4, <2>6 DEF Listening, RingsFor, CallsFor, Hears
    <3> QED BY <2>11, <3>1 DEF Told, AllListening, Listening, RingsFor, CallsFor, Hears
  <2>17. AnswersGiven'
    <3>1. ASSUME NEW q \in net', q.kind \in {"accept", "decline"}
          PROVE  UserOf[q.from] = calls[q.call].to /\ Given(q.call)'
      BY <2>8, <2>10, <2>15, <3>1 DEF Told, AnswersGiven
    <3>2. ASSUME NEW f \in events, f.kind # "inbox"
          PROVE  \/ f.word = "cancel" /\ f.from = UserOf[Caller(f.call)]
                 \/ /\ f.word \in {"accept", "decline"} /\ f.from = calls[f.call].to
                    /\ Given(f.call)'
      BY <2>15, <3>2 DEF Told, AnswersGiven
    <3> QED BY <1>3, <2>12, <3>1, <3>2 DEF AnswersGiven, Caller
  <2>18. Unsent'
    <3>1. \A d \in creating' : d \in creating /\ d \in Calls /\ d # c
      BY <1>3, CallFacts DEF IndInv, KnownCalls
    <3>2. \A d \in creating' : ~Offered(d)' /\ ~RingsSomewhere(d)'
      BY <2>14, <2>15, <3>1 DEF Told, Unsent
    <3>3. ASSUME NEW y \in Tabs, NEW d \in Calls, CallsFor(tabs'[y], d), ~tabs'[y].ready
          PROVE  d \in creating'
      <4>1. y # x
        BY <2>6, <2>11, <3>3
      <4> QED BY <1>3, <2>11, <2>13, <3>3, <4>1 DEF Told, Unsent
    <3> QED BY <3>2, <3>3 DEF Unsent
  <2>19. CallsEnd'
    <3> SUFFICES ASSUME NEW d \in DOMAIN calls
                 PROVE  Ending(d)'
      BY <1>3 DEF CallsEnd
    <3>1. Ending(d) /\ Caller(d)' = Caller(d) /\ Caller(d) \in Tabs /\ d \in Calls
      BY <1>3, WhoseCall DEF Told, CallsEnd, Caller
    <3>2. CASE tabs[Caller(d)].call = d
      BY <2>3, <2>6, <2>11, <3>1, <3>2 DEF Ending
    <3>3. CASE Excused(d)
      BY <2>15, <3>3 DEF Ending
    <3>4. CASE \E q \in net : q.kind = "cancel" /\ q.call = d
      BY <2>10, <3>4 DEF Ending
    <3>5. CASE /\ tabs[Caller(d)].call # d /\ ~Offered(d)
               /\ \A y \in Tabs : RingsFor(tabs[y], d) => Cancelled(y, d)
      <4>1. d # c
        BY <1>2, <2>3, <3>5
      <4>2. \A y \in Tabs : Cancelled(y, d) => Cancelled(y, d)'
        BY <1>3, <2>12 DEF Cancelled, SaysCancel, Caller
      <4> QED BY <2>13, <2>15, <3>1, <3>5, <4>1, <4>2 DEF Ending
    <3> QED BY <3>1, <3>2, <3>3, <3>4, <3>5 DEF Ending
  <2>20. CallsWait'
    <3> SUFFICES ASSUME NEW y \in Tabs, NEW d \in Calls, CallsFor(tabs'[y], d)
                 PROVE  Waiting(d)'
      BY DEF CallsWait
    <3>1. CASE d = c
      BY <2>15, <3>1 DEF Waiting
    <3>2. CASE d # c
      <4>1. Waiting(d)
        BY <2>13 DEF Told, CallsWait
      <4>2. Answering(d) => Answering(d)'
        BY <1>3, <2>10, <2>12 DEF Answering, SaysAnswer
      <4> QED BY <1>3, <2>14, <2>15, <3>2, <4>1, <4>2 DEF Waiting, CalleeTabs
    <3> QED BY <3>1, <3>2
  <2> QED BY <2>16, <2>17, <2>18, <2>19, <2>20 DEF Told
<1> QED BY <1>4, <1>5

LEMMA SourceOpensTells ==
  ASSUME IndInv, Told, NEW x \in Tabs, NEW s \in tabs[x].streams, SourceOpens(x, s)
  PROVE  Told'
<1> PICK o : o = [s EXCEPT !.live = TRUE]
  OBVIOUS
<1>1. PICK live : live = (tabs[x].streams \ {s}) \cup {o}
  OBVIOUS
<1>2. PICK n : n = [tabs[x] EXCEPT !.streams = live]
  OBVIOUS
<1>3. tabs[x] \in Tab /\ tabs \in [Tabs -> Tab]
  BY DEF IndInv, TabsOK, TabOK
<1>4. /\ tabs' = [tabs EXCEPT ![x] = n]
      /\ UNCHANGED <<calls, creating, net, events, lost, busy, answers>>
  BY <1>1, <1>2, <1>3 DEF SourceOpens, history
<1>5. /\ n.incoming = tabs[x].incoming /\ n.outgoing = tabs[x].outgoing
      /\ n.accepted = tabs[x].accepted /\ n.call = tabs[x].call /\ n.ready = tabs[x].ready
      /\ n.peerAccepted = tabs[x].peerAccepted /\ n.streams = live
  BY <1>2, <1>3 DEF Tab
<1>6. \A d, k : Hears(n, d, k) <=> Hears(tabs[x], d, k)
  <2>1. tabs[x].streams \in SUBSET Stream
    BY <1>3 DEF Tab
  <2>2. s \in Stream
    BY <2>1
  <2>3. o.call = s.call /\ o.kind = s.kind
    BY <2>2, SameSource
  <2>4. /\ \A l \in live : \E r \in tabs[x].streams : l.call = r.call /\ l.kind = r.kind
        /\ \A r \in tabs[x].streams : \E l \in live : l.call = r.call /\ l.kind = r.kind
    BY <1>1, <2>3
  <2> QED BY <1>5, <2>4 DEF Hears
<1>7. tabs'[x] = n /\ \A y \in Tabs \ {x} : tabs'[y] = tabs[y]
  BY <1>3, <1>4
<1>8. \A y \in Tabs :
        /\ tabs'[y].call = tabs[y].call /\ tabs'[y].ready = tabs[y].ready
        /\ \A d : /\ RingsFor(tabs'[y], d) <=> RingsFor(tabs[y], d)
                  /\ CallsFor(tabs'[y], d) <=> CallsFor(tabs[y], d)
        /\ Listening(tabs[y]) => Listening(tabs'[y])
  BY <1>5, <1>6, <1>7 DEF RingsFor, CallsFor, Listening
<1>9. \A d : /\ Offered(d)' <=> Offered(d)
             /\ Excused(d)' <=> Excused(d)
             /\ RingsSomewhere(d)' <=> RingsSomewhere(d)
             /\ Answering(d)' <=> Answering(d)
             /\ Caller(d)' = Caller(d)
  BY <1>4, <1>8 DEF Offered, Excused, Given, RingsSomewhere, Answering, SaysAnswer, Caller
<1>10. AllListening'
  BY <1>8 DEF Told, AllListening
<1>11. AnswersGiven'
  BY <1>4 DEF Told, AnswersGiven, Given, Caller
<1>12. Unsent'
  BY <1>4, <1>8, <1>9 DEF Told, Unsent
<1>13. CallsEnd'
  <2> SUFFICES ASSUME NEW d \in DOMAIN calls
               PROVE  Ending(d)'
    BY <1>4 DEF CallsEnd
  <2>1. Ending(d) /\ Caller(d) \in Tabs
    BY WhoseCall DEF Told, CallsEnd
  <2>2. \A y \in Tabs : Cancelled(y, d) => Cancelled(y, d)'
    BY <1>4 DEF Cancelled, SaysCancel, Caller
  <2> QED BY <1>4, <1>8, <1>9, <2>1, <2>2 DEF Ending
<1>14. CallsWait'
  <2> SUFFICES ASSUME NEW y \in Tabs, NEW d \in Calls, CallsFor(tabs'[y], d)
               PROVE  Waiting(d)'
    BY DEF CallsWait
  <2>1. Waiting(d)
    BY <1>8 DEF Told, CallsWait
  <2> QED BY <1>4, <1>9, <2>1 DEF Waiting, CalleeTabs
<1> QED BY <1>10, <1>11, <1>12, <1>13, <1>14 DEF Told

LEMMA StepTold == IndInv /\ Told /\ [Next]_vars => Told'
<1> SUFFICES ASSUME IndInv, Told, [Next]_vars PROVE Told'
  OBVIOUS
<1>1. CASE UNCHANGED vars
  <2>1. /\ UNCHANGED <<tabs, calls, creating, net, events, lost, busy, answers>>
        /\ \A c : Offered(c)' <=> Offered(c)
    BY <1>1 DEF vars, Offered
  <2>2. net \ net' = {} /\ events \ events' = {} /\ events' \ events = {}
    BY <2>1
  <2> QED BY <2>1, <2>2, NetworkTells
<1>2. CASE Next
  <2>1. ASSUME NEW c \in creating, HubCreated(c) \/ HubFails(c)
        PROVE  Told'
    BY <2>1, HubCreatedTells, HubFailsTells
  <2>2. ASSUME NEW p \in net, InviteArrives(p) \/ PostArrives(p) \/ PostLost(p)
        PROVE  Told'
    BY <2>2, InviteArrivesTells, PostArrivesTells, PostLostTells
  <2>3. ASSUME NEW e \in events, InboxEvent(e) \/ HubEvent(e)
        PROVE  Told'
    BY <2>3, InboxTells, HubEventTells
  <2>4. ASSUME NEW x \in Tabs, ClickAccept(x) \/ ClickReject(x) \/ ClickEnd(x) \/ Reload(x)
        PROVE  Told'
    BY <2>4, ClicksTell, ReloadTells
  <2> QED BY <1>2, <2>1, <2>2, <2>3, <2>4, MakeCallTells, InviteFailsTells, SourceOpensTells
      DEF Next
<1> QED BY <1>1, <1>2

LEMMA EverybodyTold == Spec => []Told
<1>1. IndInv /\ Told /\ [Next]_vars => Told'
  BY StepTold
<1> QED BY <1>1, InitTold, Invariance, PTL DEF Spec

(* Once nothing is on its way, a tab that rings has a caller who still      *)
(* calls, unless a word of the call was not heard or the callee answered    *)
(* elsewhere: endCall sends its cancellation after the invitation, and a    *)
(* ring listens for it (actions/index.js).                                  *)
THEOREM NobodyLeftRinging == Spec => []NoOrphanRing
<1>1. IndInv /\ Told => NoOrphanRing
  <2> SUFFICES ASSUME IndInv, Told, Quiet, NEW x \in Tabs, Rings(x)
               PROVE  \/ tabs[Caller(tabs[x].call)].call = tabs[x].call
                      \/ tabs[x].call \in lost
                      \/ \E a \in answers : a.call = tabs[x].call /\ a.how # "reload"
    BY DEF NoOrphanRing
  <2>1. PICK c : c = tabs[x].call
    OBVIOUS
  <2>2. c \in Calls /\ RingsFor(tabs[x], c)
    BY <2>1 DEF IndInv, TabsOK, TabOK, Tab, Agrees, Rings, RingsFor
  <2>3. Ending(c)
    BY <2>2, WhoseCall DEF Told, CallsEnd
  <2>4. net = {} /\ ~Cancelled(x, c)
    BY DEF Quiet, Cancelled
  <2> QED BY <2>1, <2>2, <2>3, <2>4 DEF Ending, Excused, Given
<1> QED BY <1>1, Invariance, EverybodyTold, PTL

(* Once nothing is on its way, a caller who hears the ringback rings        *)
(* somewhere, unless a word of the call was not heard, a tab of the callee  *)
(* was busy or the callee has none: whoever stops ringing says so, and the  *)
(* caller listens for it (rejectCall, outgoingDeclineListen.js).            *)
THEOREM NobodyLeftCalling == Spec => []NoOrphanCall
<1>1. IndInv /\ Told => NoOrphanCall
  <2> SUFFICES ASSUME IndInv, Told, Quiet, NEW x \in Tabs, tabs[x].ringback
               PROVE  \/ \E y \in Tabs : Rings(y) /\ tabs[y].call = tabs[x].call
                      \/ tabs[x].call \in lost \cup busy
                      \/ CalleeTabs(tabs[x].call) = {}
    BY DEF NoOrphanCall
  <2>1. PICK c : c = tabs[x].call
    OBVIOUS
  <2>2. c \in Calls /\ CallsFor(tabs[x], c)
    BY <2>1 DEF IndInv, TabsOK, TabOK, Tab, Agrees, Tones, CallsFor
  <2>3. Waiting(c)
    BY <2>2 DEF Told, CallsWait
  <2>4. c \notin creating /\ ~Offered(c) /\ ~Answering(c)
    BY DEF Quiet, Offered, Answering
  <2>5. CASE RingsSomewhere(c)
    BY <2>1, <2>5 DEF RingsSomewhere, RingsFor, Rings
  <2> QED BY <2>1, <2>3, <2>4, <2>5 DEF Waiting
<1> QED BY <1>1, Invariance, EverybodyTold, PTL

-----------------------------------------------------------------------------
(* The window of a tab in the middle of a handler shows no refusal.         *)
Plain(t) == t \in Tab /\ ~t.declined

LEMMA CallOverPlain ==
  ASSUME NEW t \in Tab
  PROVE  Plain(CallOver(t))
<1>1. CallOver(t).declined = FALSE
  BY DEF CallOver, Tab
<1> QED BY <1>1, CallOverType DEF Plain

LEMMA EndPlain ==
  ASSUME NEW t, TabOK(t), t.outbox = {}
  PROVE  Plain(EndCall(t)) /\ (t.incoming => Plain(RejectCall(t)))
<1>1. ASSUME NEW q \in Tab, NEW c
      PROVE  ReleaseCallResources(q, c) \in Tab
  BY <1>1 DEF ReleaseCallResources, ReleaseOwn, Tab, CallSessionState
<1>2. t \in Tab /\ (t.call # NoCall => t.call \in Calls) /\ (t.ready => t.call # NoCall)
  BY DEF TabOK, Tab, Agrees
<1>3. PICK e : e = IF t.outgoing /\ ~t.peerAccepted /\ t.ready
                   THEN {Word("cancel", t.call)} ELSE {}
  OBVIOUS
<1>4. PICK r : r = IF t.incoming /\ t.ready THEN {Word("decline", t.call)} ELSE {}
  OBVIOUS
<1>5. {e, r} \subseteq SUBSET [word : {"invite", "accept", "decline", "cancel"}, call : Calls]
  BY <1>2, <1>3, <1>4 DEF Word
<1>6. /\ [t EXCEPT !.ring = FALSE, !.ringback = FALSE, !.outbox = e] \in Tab
      /\ [t EXCEPT !.ring = FALSE, !.outbox = r] \in Tab
  BY <1>2, <1>5 DEF Tab
<1>7. /\ EndCall(t) = CallOver(ReleaseCallResources(
           [t EXCEPT !.ring = FALSE, !.ringback = FALSE, !.outbox = e], t.call))
      /\ RejectCall(t) = CallOver(ReleaseCallResources(
           [t EXCEPT !.ring = FALSE, !.outbox = r], t.call))
  BY <1>3, <1>4 DEF EndCall, RejectCall
<1> QED BY <1>1, <1>6, <1>7, CallOverPlain

LEMMA GiveUpPlain ==
  ASSUME NEW t, Plain(t), NEW c
  PROVE  Plain(GiveUp(t, c))
<1>1. CASE ~(t.outgoing /\ t.call = c)
  BY <1>1 DEF GiveUp
<1>2. CASE t.outgoing /\ t.call = c
  <2>1. PICK q : q = Transition([t EXCEPT !.ringback = FALSE], c, "failed")
    OBVIOUS
  <2>2. q \in Tab
    BY <2>1 DEF Plain, Tab, Transition, CallSessionState
  <2>3. PICK f : f = Show(q, "failed")
    OBVIOUS
  <2>4. f \in Tab
    BY <2>2, <2>3 DEF Show, Tab, CallSessionState
  <2>5. ReleaseCallResources(f, c) \in Tab
    BY <2>4 DEF ReleaseCallResources, ReleaseOwn, Tab, CallSessionState
  <2>6. GiveUp(t, c) = CallOver(ReleaseCallResources(f, c))
    BY <1>2, <2>1, <2>3 DEF GiveUp
  <2> QED BY <2>5, <2>6, CallOverPlain
<1> QED BY <1>1, <1>2

LEMMA AnswerPlain ==
  ASSUME NEW t, TabOK(t), Plain(t)
  PROVE  /\ t.incoming => Plain(AcceptCall(t))
         /\ \A x, e : t.outgoing => Plain(OnAccept(t, x, e))
         /\ \A c \in Calls : IsFree(t) => Plain(ReceiveCall(t, c))
<1>1. ASSUME t.incoming PROVE Plain(AcceptCall(t))
  <2>1. AcceptCall(t) \in Tab
    BY <1>1, AcceptCallOK DEF TabOK
  <2>2. PICK q : q = [t EXCEPT !.ring = FALSE, !.streams = {s \in @ : s.kind # "cancel"}]
    OBVIOUS
  <2>3. q \in Tab /\ ~q.declined
    BY <2>2 DEF Plain, Tab
  <2>4. PICK p : p = Show(Transition(q, t.call, "connecting"), "connecting")
    OBVIOUS
  <2>5. p \in Tab /\ ~p.declined
    BY <2>3, <2>4 DEF Show, Transition, Tab, CallSessionState
  <2>6. \/ AcceptCall(t) = CallOver(q)
        \/ AcceptCall(t) = [p EXCEPT !.outbox = {Word("accept", t.call)},
                                     !.streams = @ \cup Listen(t.call, {"media"}),
                                     !.accepted = TRUE]
    BY <2>2, <2>4 DEF AcceptCall
  <2>7. ~AcceptCall(t).declined
    BY <2>3, <2>5, <2>6, CallOverPlain DEF Tab, Plain
  <2> QED BY <2>1, <2>7 DEF Plain
<1>2. ASSUME NEW x, NEW e, t.outgoing PROVE Plain(OnAccept(t, x, e))
  <2>1. OnAccept(t, x, e) \in Tab
    BY <1>2, OnAcceptOK DEF TabOK
  <2>2. PICK p : p = Show(Transition(t, e.call, "connecting"), "connecting")
    OBVIOUS
  <2>3. p \in Tab /\ ~p.declined
    BY <2>2 DEF Show, Transition, Tab, CallSessionState, Plain
  <2>4. OnAccept(t, x, e) \in {t, [p EXCEPT !.ringback = FALSE, !.peerAccepted = TRUE,
                                            !.streams = {s \in @ : s.kind # "decline"}]}
    BY <2>2 DEF OnAccept
  <2>5. ~OnAccept(t, x, e).declined
    BY <2>3, <2>4 DEF Tab, Plain
  <2> QED BY <2>1, <2>5 DEF Plain
<1>3. ASSUME NEW c \in Calls, IsFree(t) PROVE Plain(ReceiveCall(t, c))
  <2>1. ReceiveCall(t, c) \in Tab
    BY <1>3, ReceiveCallOK DEF TabOK
  <2>2. PICK v : v = ReceiveVideoCall(Start(t, c), c)
    OBVIOUS
  <2>3. v \in Tab /\ ~v.declined
    BY <2>2 DEF ReceiveVideoCall, Start, Tab, CallSessionState, Plain
  <2>4. ReceiveCall(t, c) = [v EXCEPT !.ring = TRUE,
                                      !.streams = @ \cup Listen(c, {"cancel"})]
    BY <2>2 DEF ReceiveCall
  <2>5. ~ReceiveCall(t, c).declined
    BY <2>3, <2>4 DEF Tab
  <2> QED BY <2>1, <2>5 DEF Plain
<1> QED BY <1>1, <1>2, <1>3

(* Who leaves a handler at a plain tab shows no refusal, nor does a tab     *)
(* whose handler it was not.                                                *)
LEMMA StaysPlain ==
  ASSUME tabs \in [Tabs -> Tab], NEW x \in Tabs, NEW y \in Tabs, NEW t,
         NEW pending, NEW underway, Leave(y, t, pending, underway),
         ~tabs[x].declined, x = y => Plain(t)
  PROVE  ~tabs'[x].declined
<1>1. tabs' = [tabs EXCEPT ![y] = [t EXCEPT !.outbox = {}]]
  BY DEF Leave
<1>2. CASE x # y
  BY <1>1, <1>2
<1>3. CASE x = y
  <2>1. [t EXCEPT !.outbox = {}].declined = t.declined
    BY <1>3 DEF Plain, Tab
  <2> QED BY <1>1, <1>3, <2>1 DEF Plain
<1> QED BY <1>2, <1>3

(* A caller is told that a call was declined only while that call is its    *)
(* own, and after a tab of the callee answered it: not because of a word    *)
(* that was lost, late, of another call or of anybody else                  *)
(* (outgoingDeclineListen.js).  That the answer may have been an accept is  *)
(* the finding of DeclinesAreReal.                                          *)
DeclinesFollowAnswers ==
  [][\A x \in Tabs : ~tabs[x].declined /\ tabs'[x].declined =>
       /\ tabs[x].outgoing
       /\ \E a \in answers : a.call = tabs[x].call /\ a.how # "reload"]_vars

THEOREM OnlyAnswersDecline == Spec => DeclinesFollowAnswers
<1> DEFINE Cause(x) == /\ tabs[x].outgoing
                       /\ \E a \in answers : a.call = tabs[x].call /\ a.how # "reload"
<1>1. ASSUME IndInv, Told, Next, NEW x \in Tabs, ~tabs[x].declined, tabs'[x].declined
      PROVE  Cause(x)
  <2>1. /\ tabs \in [Tabs -> Tab] /\ TabOK(tabs[x]) /\ KnownCalls
        /\ tabs[x] \in Tab /\ tabs[x].outbox = {} /\ Plain(tabs[x])
    BY <1>1 DEF IndInv, TabsOK, TabOK, Plain
  <2>2. ASSUME NEW y \in Tabs, NEW u \in Users, MakeCall(y, u)
        PROVE  FALSE
    <3>1. PICK c \in Calls : c = Len(calls) + 1
      BY <2>2 DEF MakeCall
    <3>2. PICK m : m = [MakeVideoCall(Start(tabs[y], c), c) EXCEPT !.ringback = TRUE]
      OBVIOUS
    <3>3. Handled(y, m) /\ IsFree(tabs[y])
      BY <2>2, <3>1, <3>2 DEF MakeCall
    <3>4. TabOK(tabs[y])
      BY <1>1 DEF IndInv, TabsOK
    <3>5. TabOK(m) /\ m.outgoing /\ m.call = c /\ c # NoCall
      BY <3>2, <3>3, <3>4, MakeCallOK DEF Calls, NoCall
    <3>6. Plain(m)
      BY <3>5 DEF TabOK, Agrees, Plain
    <3> QED BY <1>1, <2>1, <3>3, <3>6, StaysPlain DEF Handled
  <2>3. ASSUME NEW c \in creating, HubCreated(c)
        PROVE  FALSE
    <3>1. Caller(c) \in Tabs /\ c \in Calls
      BY <2>1, CallFacts DEF KnownCalls
    <3>2. CASE tabs[Caller(c)].outgoing /\ tabs[Caller(c)].call = c
      <4>1. PICK h : h = [SignalSessionReady(tabs[Caller(c)])
                            EXCEPT !.streams = @ \cup Listen(c, {"accept", "decline"}),
                                   !.outbox = {Word("invite", c)}]
        OBVIOUS
      <4>2. Handled(Caller(c), h)
        BY <2>3, <3>2, <4>1 DEF HubCreated
      <4>3. TabOK(tabs[Caller(c)])
        BY <1>1, <3>1 DEF IndInv, TabsOK
      <4>4. TabOK(h) /\ h.outgoing /\ h.call = c /\ c # NoCall
        <5>1. PICK t : t = tabs[Caller(c)]
          OBVIOUS
        <5>2. TabOK(t) /\ t.outgoing /\ t.call = c
          BY <3>2, <4>3, <5>1
        <5>3. TabOK(h) /\ h.outgoing /\ h.call = c
          BY <3>1, <4>1, <5>1, <5>2, HubReadyOK
        <5> QED BY <3>1, <5>3 DEF Calls, NoCall
      <4>5. Plain(h)
        BY <4>4 DEF TabOK, Agrees, Plain
      <4> QED BY <1>1, <2>1, <3>1, <4>2, <4>5, StaysPlain DEF Handled
    <3>3. CASE ~(tabs[Caller(c)].outgoing /\ tabs[Caller(c)].call = c)
      BY <1>1, <2>3, <3>3 DEF HubCreated
    <3> QED BY <3>2, <3>3
  <2>4. ASSUME NEW c \in creating, HubFails(c)
        PROVE  FALSE
    <3>1. Caller(c) \in Tabs
      BY <2>1, CallFacts DEF KnownCalls
    <3>2. x = Caller(c) => Plain(GiveUp(tabs[Caller(c)], c))
      BY <2>1, GiveUpPlain
    <3> QED BY <1>1, <2>1, <2>4, <3>1, <3>2, StaysPlain DEF HubFails, Handled
  <2>5. ASSUME NEW c \in awaiting, InviteFails(c)
        PROVE  FALSE
    <3>1. Caller(c) \in Tabs
      BY <2>1, CallFacts DEF KnownCalls
    <3>2. PICK t : t = [tabs[Caller(c)] EXCEPT !.streams = {s \in @ : s.call # c}]
      OBVIOUS
    <3>3. x = Caller(c) => Plain(t)
      BY <2>1, <3>2 DEF Plain, Tab
    <3>4. x = Caller(c) => Plain(GiveUp(t, c))
      BY <3>3, GiveUpPlain
    <3>5. PICK pending : Leave(Caller(c), GiveUp(t, c), pending, events)
      BY <2>5, <3>2 DEF InviteFails
    <3> QED BY <1>1, <2>1, <3>1, <3>4, <3>5, StaysPlain
  <2>6. ASSUME NEW p \in net, InviteArrives(p) \/ PostArrives(p) \/ PostLost(p)
        PROVE  FALSE
    BY <1>1, <2>6 DEF InviteArrives, PostArrives, PostLost
  <2>7. ASSUME NEW y \in Tabs, NEW s \in tabs[y].streams, SourceOpens(y, s)
        PROVE  FALSE
    BY <1>1, <2>1, <2>7 DEF SourceOpens, Tab
  <2>8. ASSUME NEW e \in events, InboxEvent(e)
        PROVE  FALSE
    <3>1. e.tab \in Tabs /\ e.call \in Calls
      BY <2>1 DEF KnownCalls, Event
    <3>2. CASE IsFree(tabs[e.tab])
      <4>1. Leave(e.tab, ReceiveCall(tabs[e.tab], e.call), net, events \ {e})
        BY <2>8, <3>2 DEF InboxEvent
      <4>2. x = e.tab => Plain(ReceiveCall(tabs[e.tab], e.call))
        BY <2>1, <3>1, <3>2, AnswerPlain
      <4> QED BY <1>1, <2>1, <3>1, <4>1, <4>2, StaysPlain
    <3>3. CASE ~IsFree(tabs[e.tab])
      BY <1>1, <2>8, <3>3 DEF InboxEvent
    <3> QED BY <3>2, <3>3
  <2>9. ASSUME NEW e \in events, HubEvent(e)
        PROVE  Cause(x)
    <3>1. /\ e.tab \in Tabs /\ tabs[e.tab].call = e.call /\ e.kind # "inbox"
          /\ e.kind \in {"accept", "decline", "cancel"}
          /\ e.kind \in {"accept", "decline"} => tabs[e.tab].outgoing
      BY <1>1, <2>9, HeardBy DEF HubEvent
    <3>2. CASE e.tab # x
      BY <1>1, <2>1, <2>9, <3>1, <3>2, StaysPlain DEF HubEvent
    <3>3. CASE e.tab = x /\ e.kind = "accept"
      <4>1. Leave(x, OnAccept(tabs[x], x, e), net, events \ {e})
        BY <2>9, <3>3 DEF HubEvent
      <4>2. Plain(OnAccept(tabs[x], x, e))
        BY <2>1, <3>1, <3>3, AnswerPlain
      <4> QED BY <1>1, <2>1, <4>1, <4>2, StaysPlain
    <3>4. CASE e.tab = x /\ e.kind = "cancel"
      <4>1. Leave(x, OnCancel(tabs[x], x, e), net, events \ {e})
        BY <2>9, <3>4 DEF HubEvent
      <4>2. Plain(OnCancel(tabs[x], x, e))
        BY <2>1, EndPlain DEF OnCancel
      <4> QED BY <1>1, <2>1, <4>1, <4>2, StaysPlain
    <3>5. CASE e.tab = x /\ e.kind = "decline"
      <4>1. Leave(x, OnDecline(tabs[x], x, e), net, events \ {e})
        BY <2>9, <3>5 DEF HubEvent
      <4>2. OnDecline(tabs[x], x, e) # tabs[x]
        BY <1>1, <2>1, <4>1, StaysPlain
      <4>3. e.from = calls[e.call].to
        BY <4>2 DEF OnDecline
      <4>4. calls[e.call].to # UserOf[Caller(e.call)]
        BY <1>1, <3>1, HeardBy DEF IndInv, KnownCalls
      <4>5. Given(e.call)
        BY <1>1, <3>1, <4>3, <4>4 DEF Told, AnswersGiven
      <4> QED BY <3>1, <3>5, <4>5 DEF Given
    <3> QED BY <3>1, <3>2, <3>3, <3>4, <3>5
  <2>10. ASSUME NEW y \in Tabs, ClickAccept(y) \/ ClickReject(y) \/ ClickEnd(y)
         PROVE  FALSE
    <3>1. x = y => /\ Rings(y) => Plain(AcceptCall(tabs[y])) /\ Plain(RejectCall(tabs[y]))
                   /\ Plain(EndCall(tabs[y]))
      BY <2>1, EndPlain, AnswerPlain DEF Rings
    <3> QED BY <1>1, <2>1, <2>10, <3>1, StaysPlain
            DEF ClickAccept, ClickReject, ClickEnd, Handled
  <2>11. ASSUME NEW y \in Tabs, Reload(y)
         PROVE  FALSE
    BY <1>1, <2>1, <2>11 DEF Reload, NewTab
  <2> QED BY <1>1, <2>2, <2>3, <2>4, <2>5, <2>6, <2>7, <2>8, <2>9, <2>10, <2>11 DEF Next
<1>2. IndInv /\ Told /\ [Next]_vars =>
        [\A x \in Tabs : ~tabs[x].declined /\ tabs'[x].declined => Cause(x)]_vars
  BY <1>1
<1> QED BY <1>2, Invariance, EverybodyTold, PTL DEF Spec, DeclinesFollowAnswers
=============================================================================
