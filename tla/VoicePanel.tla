------------------------------ MODULE VoicePanel ------------------------------
(* The voice panel of one browser tab (AudioCallPanel and its room          *)
(* controller) between its user, its microphone, the plugin server and      *)
(* another tab of the same user. A handler, with the callbacks it runs, the *)
(* state it sets and the componentDidUpdate that follows, is one action:    *)
(* JavaScript runs it to its end. What it waits for, a permission, a hub, a *)
(* closing swarm, a request, an event, comes back as an action of its own,  *)
(* in any order.                                                            *)
(*                                                                          *)
(* The server is as the tab sees it: the room it lists the user in, which a *)
(* request changes and an event reports.                                    *)
EXTENDS VoiceSession

CONSTANTS
  MaxClicks,  \* how often the user joins, leaves or closes the panel
  MaxUpsets    \* how often the microphone is switched, the other tab moves
              \* or a request fails

ASSUME BoundsAssumption == MaxClicks \in Nat /\ MaxUpsets \in Nat

VARIABLES
  tab,     \* the panel, its controller, its session and the browser
  posts,   \* presence requests on their way
  server,  \* the room the server lists the user in
  events,  \* presence events on their way
  spent,   \* how often each bounded thing happened
  goal     \* where the user asked this tab to be (history)
vars == <<tab, posts, server, events, spent, goal>>

Places == Rooms \cup {NoRoom}
(* The turn in which a request was made tells it from those of other stays. *)
Post == [room : Places, turn : 0..2 * MaxClicks]
Change == {e \in [prev : Places, room : Places] : e.prev # e.room}
Callback == [do : {"join", "unlock", "nothing"}, room : Places, turn : Nat]
Nothing == [do |-> "nothing", room |-> NoRoom, turn |-> 0]

-----------------------------------------------------------------------------
(* What every state change of the panel ends in. One thing per update: the  *)
(* permission first, then the connection.                                   *)
NeedsMicrophone(t) ==
  t.room # NoRoom /\ t.audioOn /\ ~t.initialized /\ t.prompt = NoRoom
NeedsConnection(t) ==
  /\ t.room # NoRoom /\ t.initialized /\ ~t.swarmInitialized
  /\ ~t.connectPending /\ t.link = None

RequestPerms(t) == [t EXCEPT !.prompt = t.room]
ConnectToSwarm(t) ==
  LET s == IF CanStart(t, t.room) THEN StartSession(t, t.room) ELSE t
      c == [room |-> t.room, id |-> Fresh({d.id : d \in t.connects})]
  IN IF IsActive(s, t.room)
     THEN [s EXCEPT !.connectPending = TRUE, !.connects = @ \cup {c}]
     ELSE t
Render(t) ==
  IF ~t.mounted THEN t
  ELSE IF NeedsMicrophone(t) THEN RequestPerms(t)
  ELSE IF NeedsConnection(t) THEN ConnectToSwarm(t) ELSE t

(* The heartbeat of a room starts with a request. *)
Announce(t, r) == [t EXCEPT !.outbox = @ \cup {[room |-> r, turn |-> t.turn]}]
StartPresenceOnce(t, r) == Announce(t, r)
StartPresence(t, r) == Announce([t EXCEPT !.beat = r], r)

ResetActiveRoom(t) ==
  IF t.mounted
  THEN [t EXCEPT !.room = NoRoom, !.initialized = FALSE,
                 !.swarmInitialized = FALSE, !.audioOn = FALSE]
  ELSE t

-----------------------------------------------------------------------------
(* The session is free: a join goes on if no later click overtook it.       *)
Enter(t, r) ==
  LET s == [StartSession(t, r) EXCEPT !.room = r, !.initialized = FALSE,
              !.swarmInitialized = FALSE, !.audioOn = TRUE]
  IN StartPresence(Render(s), r)
FinishJoinAnyway(t, r, k) ==
  LET p == [t EXCEPT !.connectPending = FALSE]
  IN IF ~t.mounted \/ ~CanStart(t, r) THEN p ELSE Enter(p, r)
FinishJoin(t, r, k) ==
  LET p == [t EXCEPT !.connectPending = FALSE]
  IN IF k # t.turn THEN t
     ELSE IF ~t.mounted \/ ~CanStart(t, r) THEN p ELSE Enter(p, r)

RunCallback(t, c) ==
  CASE c.do = "join" -> FinishJoin(t, c.room, c.turn)
    [] c.do = "unlock" -> [t EXCEPT !.connectPending = FALSE]
    [] OTHER -> t
(* One after the other, each on the tab its predecessor left. *)
RunCallbacks(t) ==
  LET ran[n \in 0..Len(t.due)] ==
        IF n = 0 THEN [t EXCEPT !.due = <<>>]
        ELSE RunCallback(ran[n - 1], t.due[n])
  IN ran[Len(t.due)]

JoinRoom(t, r, atOnce) ==
  LET p == [t EXCEPT !.turn = @ + 1, !.beat = NoRoom, !.connectPending = TRUE]
      callback == [do |-> "join", room |-> r, turn |-> p.turn]
  IN RunCallbacks(Close(p, callback, atOnce))

LeaveRoom(t, atOnce) ==
  LET p == [t EXCEPT !.turn = @ + 1, !.beat = NoRoom, !.connectPending = FALSE]
      q == Announce(p, NoRoom)
  IN ResetActiveRoom(RunCallbacks(Close(q, Nothing, atOnce)))

(* The user moved in another tab: the server knows already. *)
DisconnectLocalShown(t, atOnce) ==
  LET p == [t EXCEPT !.turn = @ + 1, !.beat = NoRoom, !.connectPending = TRUE]
      unlock == [do |-> "unlock", room |-> NoRoom, turn |-> 0]
  IN RunCallbacks(Close(p, unlock, atOnce))
DisconnectLocal(t, atOnce) ==
  LET p == [t EXCEPT !.turn = @ + 1, !.beat = NoRoom, !.connectPending = TRUE]
      unlock == [do |-> "unlock", room |-> NoRoom, turn |-> 0]
  IN ResetActiveRoom(RunCallbacks(Close(p, unlock, atOnce)))

-----------------------------------------------------------------------------
Init ==
  /\ tab = [mode |-> "idle", held |-> NoRoom, stream |-> None, link |-> None,
            dying |-> None, callbacks |-> <<>>, due |-> <<>>,
            running |-> {}, open |-> {},
            replaced |-> [streams |-> {}, links |-> {}],
            room |-> NoRoom, initialized |-> FALSE, audioOn |-> FALSE,
            swarmInitialized |-> FALSE, connectPending |-> FALSE,
            prompt |-> NoRoom, connects |-> {}, turn |-> 0, beat |-> NoRoom,
            outbox |-> {}, mounted |-> TRUE]
  /\ posts = {} /\ events = {} /\ server = NoRoom /\ goal = NoRoom
  /\ spent = [clicks |-> 0, upsets |-> 0]

(* A handler leaves the tab at t and its requests on their way. *)
Handled(t) ==
  /\ tab' = [t EXCEPT !.outbox = {}]
  /\ posts' = posts \cup t.outbox
Spend(kind, bound) ==
  /\ spent[kind] < bound
  /\ spent' = [spent EXCEPT ![kind] = @ + 1]

(* The user clicks on a room, creates one or accepts an invitation. *)
ClickJoin(r, atOnce) ==
  /\ tab.mounted /\ tab.room # r
  /\ Spend("clicks", MaxClicks)
  /\ Handled(JoinRoom(tab, r, atOnce))
  /\ goal' = r
  /\ UNCHANGED <<server, events>>

ClickLeave(atOnce) ==
  /\ tab.mounted /\ tab.room # NoRoom
  /\ Spend("clicks", MaxClicks)
  /\ Handled(LeaveRoom(tab, atOnce))
  /\ goal' = NoRoom
  /\ UNCHANGED <<server, events>>

(* The microphone button; the headphones button does the same to a          *)
(* microphone that is on.                                                   *)
ToggleMicrophone ==
  /\ tab.mounted /\ tab.room # NoRoom
  /\ Spend("upsets", MaxUpsets)
  /\ Handled(Announce(Render([tab EXCEPT !.audioOn = ~@]), tab.room))
  /\ UNCHANGED <<server, events, goal>>

(* The tab shows another page: nothing tells the server. *)
Unmount(atOnce) ==
  /\ tab.mounted
  /\ Spend("clicks", MaxClicks)
  /\ LET t == [tab EXCEPT !.mounted = FALSE, !.beat = NoRoom]
     IN Handled(RunCallbacks(Close(t, Nothing, atOnce)))
  /\ goal' = NoRoom
  /\ UNCHANGED <<server, events>>

(* The browser answers the request for the microphone. Refused, the user    *)
(* listens only.                                                            *)
MediaSettles(granted) ==
  LET r == tab.prompt
      t == IF granted THEN SetStream(tab, r) ELSE tab
      current == t.mounted /\ IsActive(tab, r) /\ t.room = r /\ t.audioOn
      u == IF current
           THEN Announce(Render([t EXCEPT !.initialized = TRUE]), r) ELSE t
  IN /\ r # NoRoom
     /\ Handled([u EXCEPT !.prompt = NoRoom])
     /\ UNCHANGED <<server, events, spent, goal>>

(* The server created the hub of a pending connection, or did not. *)
HubCreated(c) ==
  /\ c \in tab.connects
  /\ Handled([Connect(tab, c.room) EXCEPT !.connects = @ \ {c},
                                          !.connectPending = FALSE])
  /\ UNCHANGED <<server, events, spent, goal>>

HubFailsLocked(c) ==
  /\ c \in tab.connects
  /\ Spend("upsets", MaxUpsets)
  /\ tab' = [tab EXCEPT !.connects = @ \ {c}]
  /\ UNCHANGED <<posts, server, events, goal>>
HubFails(c) ==
  /\ c \in tab.connects
  /\ Spend("upsets", MaxUpsets)
  /\ tab' = [tab EXCEPT !.connects = @ \ {c}, !.connectPending = FALSE]
  /\ UNCHANGED <<posts, server, events, goal>>

(* The swarm reports that it is closed, or its timer goes off. *)
SwarmCloses ==
  /\ tab.mode = "closing"
  /\ Handled(RunCallbacks(Finish(tab)))
  /\ UNCHANGED <<server, events, spent, goal>>

(* Another participant shows up on a hub whose connection is open. *)
HubData ==
  /\ tab.mounted /\ tab.open # {} /\ ~tab.swarmInitialized
  /\ Handled(Render([tab EXCEPT !.swarmInitialized = TRUE]))
  /\ UNCHANGED <<server, events, spent, goal>>

(* A directory that was polled arrives: the panel updates. *)
DirectoryArrives ==
  /\ Handled(Render(tab))
  /\ UNCHANGED <<server, events, spent, goal>>

Heartbeat ==
  /\ tab.beat # NoRoom
  /\ Handled(Announce(tab, tab.beat))
  /\ UNCHANGED <<server, events, spent, goal>>

-----------------------------------------------------------------------------
(* The server moves the user to room r and tells every tab. *)
MoveTo(r) ==
  /\ server' = r
  /\ events' = events \cup ({[prev |-> server, room |-> r]} \cap Change)

PostArrives(p) ==
  /\ p \in posts
  /\ posts' = posts \ {p}
  /\ MoveTo(p.room)
  /\ UNCHANGED <<tab, spent, goal>>

PostFails(p) ==
  /\ p \in posts
  /\ Spend("upsets", MaxUpsets)
  /\ posts' = posts \ {p}
  /\ UNCHANGED <<tab, server, events, goal>>

(* Another tab of the user joins or leaves. *)
OtherTabMoves(r) ==
  /\ r # server
  /\ Spend("upsets", MaxUpsets)
  /\ MoveTo(r)
  /\ UNCHANGED <<tab, posts, goal>>

(* 45 seconds passed without a heartbeat for the room. *)
PresenceExpires ==
  /\ server # NoRoom
  /\ tab.beat # server
  /\ server' = NoRoom
  /\ UNCHANGED <<tab, posts, events, spent, goal>>

(* Another tab moved the user out of the room of this one, or so it seems. *)
Exclusive(e) == tab.mounted /\ tab.room # NoRoom /\ e.prev = tab.room
EventArrives(e, atOnce) ==
  /\ e \in events
  /\ events' = events \ {e}
  /\ IF Exclusive(e)
     THEN Handled(DisconnectLocal(tab, atOnce)) /\ goal' = NoRoom
     ELSE UNCHANGED <<tab, posts, goal>>
  /\ UNCHANGED <<server, spent>>

-----------------------------------------------------------------------------
Next ==
  \/ \E r \in Rooms, atOnce \in BOOLEAN : ClickJoin(r, atOnce)
  \/ \E atOnce \in BOOLEAN : ClickLeave(atOnce) \/ Unmount(atOnce)
  \/ ToggleMicrophone
  \/ \E granted \in BOOLEAN : MediaSettles(granted)
  \/ \E c \in tab.connects : HubCreated(c) \/ HubFails(c)
  \/ SwarmCloses \/ HubData \/ DirectoryArrives \/ Heartbeat
  \/ \E p \in posts : PostArrives(p) \/ PostFails(p)
  \/ \E r \in Places : OtherTabMoves(r)
  \/ PresenceExpires
  \/ \E e \in events, atOnce \in BOOLEAN : EventArrives(e, atOnce)
Spec == Init /\ [][Next]_vars

(* The browser answers, requests end, the timer of a closing swarm goes     *)
(* off, the intervals of the heartbeat and of the directory go on, and the  *)
(* presence of who sends no heartbeat runs out.                             *)
Fairness ==
  /\ WF_vars(\E granted \in BOOLEAN : MediaSettles(granted))
  /\ WF_vars(\E c \in tab.connects : HubCreated(c))
  /\ WF_vars(SwarmCloses)
  /\ WF_vars(DirectoryArrives)
  /\ WF_vars(Heartbeat)
  /\ \A p \in Post : WF_vars(PostArrives(p))
  /\ WF_vars(PresenceExpires)
FairSpec == Spec /\ Fairness

-----------------------------------------------------------------------------
(* Every variable keeps to its type. *)
TypeOK ==
  /\ tab.mode \in Modes /\ {tab.held, tab.room, tab.prompt, tab.beat} \subseteq Places
  /\ {tab.stream, tab.link, tab.dying} \subseteq Nat
  /\ \A i \in DOMAIN tab.callbacks : tab.callbacks[i] \in Callback
  /\ tab.due = <<>> /\ tab.outbox = {}
  /\ {tab.initialized, tab.audioOn, tab.swarmInitialized, tab.connectPending,
      tab.mounted} \subseteq BOOLEAN
  /\ tab.connects \subseteq [room : Rooms, id : Nat]
  /\ posts \subseteq Post /\ events \subseteq Change
  /\ server \in Places /\ goal \in Places

(* Session and panel agree on the room (audio_group_call.jsx keeps          *)
(* activeRoom, voiceSession.js roomId): a mounted panel shows a room exactly *)
(* while its session holds it, except while the session closes.             *)
RoomsAgree ==
  tab.mounted /\ tab.mode # "closing" => tab.held = tab.room

(* Nothing that arrives late is kept (voiceSession.js setStream and         *)
(* connect): a running microphone or an open hub is the one the session     *)
(* holds or is closing, or one the session itself replaced by another; and  *)
(* a session without a room holds none.                                     *)
NothingLateKept ==
  /\ tab.mode # "active" => tab.stream = None /\ tab.link = None
  /\ tab.running \subseteq {tab.stream} \cup tab.replaced.streams
  /\ tab.open \subseteq {tab.link, tab.dying} \cup tab.replaced.links

(* A tab is connected to one swarm at a time: "so it cannot move the user   *)
(* back or remain connected to two WebRTC swarms" (audio_group_call.jsx).   *)
OneSwarm == Cardinality(tab.open) <= 1

(* Clicks take effect: the panel ends up in the room of the last one,       *)
(* whatever was closing, pending or answered late at the time               *)
(* (audio_group_call.jsx handleJoinRoom).                                   *)
ClicksSettle == []<>(tab.mounted => tab.room = goal)

(* Who stays in a room with the microphone on gets connected to it          *)
(* (reconcileVoiceConnection), unless a connection was replaced.            *)
Connected ==
  []<>(tab.mounted /\ tab.room # NoRoom /\ tab.audioOn
         => tab.link # None \/ tab.replaced.links # {})

(* The server ends up listing the user where the tab stays, whatever was    *)
(* lost or overtaken: heartbeats repeat (voiceRoomController.js), presence  *)
(* expires.                                                                 *)
InRoom == IF tab.mounted THEN tab.room ELSE NoRoom
PresenceFollowsTab == <>[](server = InRoom)
=============================================================================
