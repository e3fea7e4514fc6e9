------------------------------ MODULE DirectCalls ------------------------------
(* Direct calls between the tabs of several users, from the click of the    *)
(* caller to the answer (webapp/src/actions/index.js and the listeners      *)
(* beside it). A handler runs to its end and is one action. The requests it *)
(* sends reach the server in any order or not at all; the server hands a    *)
(* publication to the event sources subscribed at that moment and keeps     *)
(* nothing for later ones.                                                  *)
(*                                                                          *)
(* The call ends at the answer: the caller compares an accept with its own  *)
(* id and takes any word of the callee for a refusal (OnAccept, OnDecline), *)
(* so no handler of a connected call is ever reached.                       *)
EXTENDS CallSession, Sequences

CONSTANTS
  Tabs, Users,
  UserOf,    \* whose tab it is
  MaxUpsets  \* how often a request fails, a message is lost, a tab reloads

ASSUME TabsAssumption ==
  UserOf \in [Tabs -> Users] /\ MaxUpsets \in Nat

VARIABLES
  tabs,     \* what each tab knows (CallSession)
  calls,    \* the calls ever made: from a tab to a user, numbered
  creating, \* calls whose signalling session is being created
  awaiting, \* calls whose invitation was sent and may still be reported failed
  net,      \* requests on their way to the server
  events,   \* events on their way to the tabs
  upsets,   \* how often things went wrong
  lost,     \* calls of which something was not heard (history)
  busy,     \* invitations that a tab ignored (history)
  answers   \* how each tab was done with each ring (history)
vars == <<tabs, calls, creating, awaiting, net, events, upsets, lost, busy, answers>>
history == <<lost, busy, answers>>

Request == [kind : {"invite", "accept", "decline", "cancel"},
            call : Calls, from : Tabs]
Event == [kind : {"inbox", "accept", "decline", "cancel"}, call : Calls,
          tab : Tabs, word : {"invite", "accept", "decline", "cancel"},
          from : Users]
Answer == [tab : Tabs, call : Calls, how : {"accept", "decline", "reload"}]

Caller(c) == calls[c].from
CalleeTabs(c) == {x \in Tabs : UserOf[x] = calls[c].to}
Word(w, c) == [word |-> w, call |-> c]

-----------------------------------------------------------------------------
(* Hanging up. Only a caller who still rings says so to the other side: the *)
(* end of a connection would be noticed.                                    *)
EndCallSilently(t) ==
  CallOver(ReleaseCallResources(
    [t EXCEPT !.ring = FALSE, !.ringback = FALSE], t.call))
EndCall(t) ==
  LET cancels == t.outgoing /\ ~t.peerAccepted /\ t.ready
      said == IF cancels THEN {Word("cancel", t.call)} ELSE {}
  IN CallOver(ReleaseCallResources(
       [t EXCEPT !.ring = FALSE, !.ringback = FALSE, !.outbox = said], t.call))

RejectCallSilently(t) ==
  CallOver(ReleaseCallResources([t EXCEPT !.ring = FALSE], t.call))
RejectCall(t) ==
  LET said == IF t.incoming /\ t.ready THEN {Word("decline", t.call)} ELSE {}
  IN CallOver(ReleaseCallResources(
       [t EXCEPT !.ring = FALSE, !.outbox = said], t.call))

(* Answering: the tab connects and waits for the caller's swarm. *)
AcceptCall(t) ==
  LET quiet == [t EXCEPT !.ring = FALSE,
                         !.streams = {s \in @ : s.kind # "cancel"}]
  IN IF t.ready /\ IsCurrent(t, t.call)
     THEN [Show(Transition(quiet, t.call, "connecting"), "connecting")
             EXCEPT !.outbox = {Word("accept", t.call)},
                    !.streams = @ \cup Listen(t.call, {"media"}),
                    !.accepted = TRUE]
     ELSE CallOver(quiet)

(* An invitation is ignored by a tab that is in a call, or still shows that *)
(* one was declined.                                                        *)
IsFree(t) == ~t.incoming /\ ~t.outgoing /\ CanStart(t)
ReceiveCall(t, c) ==
  [ReceiveVideoCall(Start(t, c), c)
     EXCEPT !.ring = TRUE, !.streams = @ \cup Listen(c, {"cancel"})]

(* The session or the invitation of an outgoing call failed. *)
GiveUpQuietly(t, c) ==
  IF t.outgoing /\ t.call = c
  THEN ReleaseCallResources(
         Show(Transition([t EXCEPT !.ringback = FALSE], c, "failed"), "failed"), c)
  ELSE t
GiveUp(t, c) ==
  IF t.outgoing /\ t.call = c
  THEN CallOver(ReleaseCallResources(
         Show(Transition([t EXCEPT !.ringback = FALSE], c, "failed"), "failed"), c))
  ELSE t

-----------------------------------------------------------------------------
(* The listeners. Every one of them hears everything said in the session of *)
(* the call, whatever channel it names.                                     *)
OnDecline(t, x, e) ==
  IF e.from = calls[e.call].to
  THEN OutgoingCallDeclined(ReleaseCallResources(
         [t EXCEPT !.ringback = FALSE], e.call))
  ELSE t

(* The accept names who accepted, and is compared with who listens. *)
OnAccept(t, x, e) ==
  IF e.word = "accept" /\ e.from = UserOf[x] /\ ~t.peerAccepted /\ IsCurrent(t, e.call)
  THEN [Show(Transition(t, e.call, "connecting"), "connecting")
          EXCEPT !.ringback = FALSE, !.peerAccepted = TRUE,
                 !.streams = {s \in @ : s.kind # "decline"}]
  ELSE t

(* Only a cancellation carries the number of the call. *)
OnCancelAny(t, x, e) == EndCall(t)
OnCancel(t, x, e) ==
  IF e.from = UserOf[Caller(e.call)] /\ e.word = "cancel" THEN EndCall(t) ELSE t

-----------------------------------------------------------------------------
Init ==
  /\ tabs = [x \in Tabs |-> NewTab]
  /\ calls = <<>>
  /\ creating = {} /\ awaiting = {} /\ net = {} /\ events = {}
  /\ upsets = 0 /\ lost = {} /\ busy = {} /\ answers = {}

(* A handler leaves tab x at t: its requests are on their way, and events   *)
(* for an event source it closed are dropped.                               *)
Sent(x, t) == {[kind |-> w.word, call |-> w.call, from |-> x] : w \in t.outbox}
Heard(x, t, e) ==
  e.tab = x /\ e.kind # "inbox"
    => \E s \in t.streams : s.call = e.call /\ s.kind = e.kind
Leave(x, t, pending, underway) ==
  /\ tabs' = [tabs EXCEPT ![x] = [t EXCEPT !.outbox = {}]]
  /\ net' = pending \cup Sent(x, t)
  /\ events' = {e \in underway : Heard(x, t, e)}
Handled(x, t) == Leave(x, t, net, events)

Upset == upsets < MaxUpsets /\ upsets' = upsets + 1

MakeCall(x, u) ==
  LET c == Len(calls) + 1
  IN /\ u # UserOf[x]
     /\ c \in Calls
     /\ IsFree(tabs[x])
     /\ Handled(x, [MakeVideoCall(Start(tabs[x], c), c) EXCEPT !.ringback = TRUE])
     /\ calls' = Append(calls, [from |-> x, to |-> u])
     /\ creating' = creating \cup {c}
     /\ UNCHANGED <<awaiting, upsets, history>>

(* The session of a call was created: if the call is still on, listen and   *)
(* invite, else close the hub.                                              *)
HubCreatedLate(c) ==
  LET x == Caller(c)
      t == [SignalSessionReady(tabs[x])
              EXCEPT !.streams = @ \cup Listen(c, {"accept", "decline"}),
                     !.outbox = {Word("invite", c)}]
  IN /\ c \in creating
     /\ creating' = creating \ {c}
     /\ Handled(x, t) /\ awaiting' = awaiting \cup {c}
     /\ UNCHANGED <<calls, upsets, history>>
HubCreated(c) ==
  LET x == Caller(c)
      t == [SignalSessionReady(tabs[x])
              EXCEPT !.streams = @ \cup Listen(c, {"accept", "decline"}),
                     !.outbox = {Word("invite", c)}]
  IN /\ c \in creating
     /\ creating' = creating \ {c}
     /\ IF tabs[x].outgoing /\ tabs[x].call = c
        THEN Handled(x, t) /\ awaiting' = awaiting \cup {c}
        ELSE UNCHANGED <<tabs, net, events, awaiting>>
     /\ UNCHANGED <<calls, upsets, history>>

HubFails(c) ==
  /\ c \in creating
  /\ Upset
  /\ creating' = creating \ {c}
  /\ Handled(Caller(c), GiveUp(tabs[Caller(c)], c))
  /\ UNCHANGED <<calls, awaiting, history>>

(* The request of the invitation fails, after it arrived, before it will or *)
(* for good: the hub is closed and the call, if it is still on, given up    *)
(* without a word to who rings or will ring.                                *)
OtherThanInvite(c) == {p \in net : p.kind # "invite" \/ p.call # c}
InviteFails(c) ==
  LET x == Caller(c)
      t == [tabs[x] EXCEPT !.streams = {s \in @ : s.call # c}]
  IN /\ c \in awaiting
     /\ Upset
     /\ awaiting' = awaiting \ {c}
     /\ \E pending \in {net, OtherThanInvite(c)} : Leave(x, GiveUp(t, c), pending, events)
     /\ lost' = lost \cup {d \in {c} : tabs[x].outgoing /\ tabs[x].call = d}
     /\ UNCHANGED <<calls, creating, busy, answers>>

-----------------------------------------------------------------------------
(* The server. An invitation goes to the inbox of every tab of the callee.  *)
InviteArrives(p) ==
  /\ p \in net /\ p.kind = "invite"
  /\ net' = net \ {p}
  /\ events' = events \cup
       {[kind |-> "inbox", call |-> p.call, tab |-> x, word |-> "invite",
         from |-> UserOf[p.from]] : x \in CalleeTabs(p.call)}
  /\ UNCHANGED <<tabs, calls, creating, awaiting, upsets, history>>

(* Who a word is for is not listening yet, or not yet invited: the callee   *)
(* must hear of a cancellation, the caller of an answer.                    *)
Addressed(p) == IF p.kind = "cancel" THEN CalleeTabs(p.call) ELSE {Caller(p.call)}
Uninvited(c) ==
  \/ \E e \in events : e.call = c /\ e.kind = "inbox"
  \/ \E q \in net : q.call = c /\ q.kind = "invite"
Unready(p) ==
  \/ \E x \in Addressed(p) : \E s \in tabs[x].streams : s.call = p.call /\ ~s.live
  \/ p.kind = "cancel" /\ Uninvited(p.call)

(* Anything else goes to the event sources of its session. *)
Listeners(c) ==
  {e \in Event : /\ e.call = c
                 /\ \E s \in tabs[e.tab].streams :
                      s.call = c /\ s.kind = e.kind /\ s.live}
PostArrives(p) ==
  /\ p \in net /\ p.kind # "invite"
  /\ net' = net \ {p}
  /\ events' = events \cup
       {e \in Listeners(p.call) : e.word = p.kind /\ e.from = UserOf[p.from]}
  /\ lost' = lost \cup (IF Unready(p) THEN {p.call} ELSE {})
  /\ UNCHANGED <<tabs, calls, creating, awaiting, upsets, busy, answers>>

(* Nobody retries a publication. *)
PostLost(p) ==
  /\ p \in net /\ p.kind # "invite"
  /\ Upset
  /\ net' = net \ {p}
  /\ lost' = lost \cup {p.call}
  /\ UNCHANGED <<tabs, calls, creating, awaiting, events, busy, answers>>

(* An event source of a tab is subscribed, each in its own time. *)
SourceOpens(x, s) ==
  /\ ~s.live
  /\ tabs' = [tabs EXCEPT ![x].streams = (@ \ {s}) \cup {[s EXCEPT !.live = TRUE]}]
  /\ UNCHANGED <<calls, creating, awaiting, net, events, upsets, history>>

InboxEvent(e) ==
  /\ e \in events /\ e.kind = "inbox"
  /\ IF IsFree(tabs[e.tab])
     THEN Leave(e.tab, ReceiveCall(tabs[e.tab], e.call), net, events \ {e}) /\ UNCHANGED busy
     ELSE /\ busy' = busy \cup {e.call} /\ events' = events \ {e}
          /\ UNCHANGED <<tabs, net>>
  /\ UNCHANGED <<calls, creating, awaiting, upsets, lost, answers>>

HubEvent(e) ==
  LET t == tabs[e.tab]
      after == CASE e.kind = "accept" -> OnAccept(t, e.tab, e)
                 [] e.kind = "decline" -> OnDecline(t, e.tab, e)
                 [] e.kind = "cancel" -> OnCancel(t, e.tab, e)
  IN /\ e \in events /\ e.kind # "inbox"
     /\ Leave(e.tab, after, net, events \ {e})
     /\ UNCHANGED <<calls, creating, awaiting, upsets, history>>

-----------------------------------------------------------------------------
(* The user. *)
Rings(x) == tabs[x].incoming /\ ~tabs[x].accepted
Answered(x, how) ==
  answers' = answers \cup {[tab |-> x, call |-> tabs[x].call, how |-> how]}

ClickAccept(x) ==
  /\ Rings(x)
  /\ Handled(x, AcceptCall(tabs[x]))
  /\ Answered(x, "accept")
  /\ UNCHANGED <<calls, creating, awaiting, upsets, lost, busy>>

ClickReject(x) ==
  /\ Rings(x)
  /\ Handled(x, RejectCall(tabs[x]))
  /\ Answered(x, "decline")
  /\ UNCHANGED <<calls, creating, awaiting, upsets, lost, busy>>

ClickEnd(x) ==
  /\ tabs[x].open /\ ~Rings(x)
  /\ Handled(x, EndCall(tabs[x]))
  /\ UNCHANGED <<calls, creating, awaiting, upsets, history>>

(* The page is reloaded in the middle of a call: nobody is told. *)
Reload(x) ==
  LET own == {c \in DOMAIN calls : Caller(c) = x}
  IN /\ tabs[x].open
     /\ Upset
     /\ tabs' = [tabs EXCEPT ![x] = NewTab]
     /\ creating' = creating \ own
     /\ awaiting' = awaiting \ own
     /\ events' = {e \in events : e.tab # x}
     /\ lost' = lost \cup ({tabs[x].held} \ {NoCall})
                     \cup {e.call : e \in {f \in events : f.tab = x}}
     /\ IF Rings(x) THEN Answered(x, "reload") ELSE UNCHANGED answers
     /\ UNCHANGED <<calls, net, busy>>

Next ==
  \/ \E x \in Tabs, u \in Users : MakeCall(x, u)
  \/ \E c \in creating : HubCreated(c) \/ HubFails(c)
  \/ \E c \in awaiting : InviteFails(c)
  \/ \E p \in net : InviteArrives(p) \/ PostArrives(p) \/ PostLost(p)
  \/ \E x \in Tabs : \E s \in tabs[x].streams : SourceOpens(x, s)
  \/ \E e \in events : InboxEvent(e) \/ HubEvent(e)
  \/ \E x \in Tabs : ClickAccept(x) \/ ClickReject(x) \/ ClickEnd(x) \/ Reload(x)
Spec == Init /\ [][Next]_vars

-----------------------------------------------------------------------------
(* Every variable keeps to its type. *)
TypeOK ==
  /\ \A x \in Tabs :
       /\ {tabs[x].phase, tabs[x].shown} \subseteq CallSessionState
       /\ {tabs[x].held, tabs[x].call} \subseteq Calls \cup {NoCall}
       /\ tabs[x].streams \subseteq Stream
       /\ tabs[x].outbox = {}
       /\ {tabs[x].open, tabs[x].incoming, tabs[x].outgoing, tabs[x].accepted,
           tabs[x].peerAccepted, tabs[x].declined, tabs[x].ready,
           tabs[x].ring, tabs[x].ringback} \subseteq BOOLEAN
  /\ calls \in Seq([from : Tabs, to : Users]) /\ Len(calls) <= MaxCalls
  /\ creating \subseteq Calls /\ awaiting \subseteq Calls /\ upsets \in 0..MaxUpsets
  /\ net \subseteq Request /\ events \subseteq Event
  /\ lost \subseteq Calls /\ busy \subseteq Calls /\ answers \subseteq Answer

(* The window and the session never part (the store only mirrors what       *)
(* CallSession decides): same call, same state, one direction, and a        *)
(* session exactly while the window shows a call that was not declined.     *)
WindowFollowsSession ==
  \A x \in Tabs : LET t == tabs[x] IN
    /\ t.held = t.call /\ t.shown = t.phase
    /\ (t.phase # "idle") = (t.incoming \/ (t.outgoing /\ ~t.declined))
    /\ t.open = (t.incoming \/ t.outgoing) /\ ~(t.incoming /\ t.outgoing)

(* No event source outlives its call: "a call that ends without releasing   *)
(* these starves the webapp's own requests" (actions/index.js).             *)
SourcesOfCurrentCall ==
  \A x \in Tabs : \A s \in tabs[x].streams : s.call = tabs[x].held

(* The tones: a tab rings while it can be answered, a caller hears the      *)
(* ringback while nobody has (callRing.js).                                 *)
TonesMatch ==
  \A x \in Tabs :
    /\ tabs[x].ring = Rings(x)
    /\ tabs[x].ringback = (tabs[x].outgoing /\ ~tabs[x].declined /\ ~tabs[x].peerAccepted)

(* Nothing is on its way any more. *)
Quiet ==
  /\ creating = {} /\ net = {} /\ events = {}
  /\ \A x \in Tabs : \A s \in tabs[x].streams : s.live

(* Nobody is left ringing: once all is quiet, a tab that rings has a caller *)
(* who still calls, unless something was not heard or another tab of the    *)
(* user answered (endCall, "hanging up now would leave their modal ringing  *)
(* for ever").                                                              *)
NoOrphanRing ==
  Quiet => \A x \in Tabs : Rings(x) =>
    LET c == tabs[x].call IN
      \/ tabs[Caller(c)].call = c
      \/ c \in lost
      \/ \E a \in answers : a.call = c /\ a.how # "reload"

(* Nobody is left calling: once all is quiet, a caller who hears the        *)
(* ringback rings somewhere, unless something was not heard, a tab was busy *)
(* or the user called has none (rejectCall, and makeVideoCall with its      *)
(* failures).                                                               *)
NoOrphanCall ==
  Quiet => \A x \in Tabs : tabs[x].ringback =>
    LET c == tabs[x].call IN
      \/ \E y \in Tabs : Rings(y) /\ tabs[y].call = c
      \/ c \in lost \cup busy
      \/ CalleeTabs(c) = {}

(* A ring ends because it was answered in its tab, or its caller has gone:  *)
(* a word of anybody else does not end it (incomingCancelListen.js).        *)
RingsEndForCause ==
  [][\A x \in Tabs : Rings(x) /\ ~Rings(x)' =>
       \/ \E a \in answers' : a.tab = x /\ a.call = tabs[x].call
       \/ tabs[Caller(tabs[x].call)].call # tabs[x].call]_vars

(* A caller is told that the call was declined only if it was               *)
(* (outgoingDeclineListen.js: "Listen for decline events").                 *)
DeclinesAreReal ==
  [][\A x \in Tabs : ~tabs[x].declined /\ tabs'[x].declined =>
       \E a \in answers : a.call = tabs[x].call /\ a.how = "decline"]_vars
=============================================================================
