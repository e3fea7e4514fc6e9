------------------------------ MODULE VoiceLobby ------------------------------
(* The list of voice rooms in the panel of one user, with the invitations   *)
(* that reach the user and those it sends (audio_group_call.jsx,            *)
(* voiceRoomController.js, voice_invite_post.jsx), between the plugin       *)
(* server and a friend. A handler with everything it calls is one action.   *)
(* Requests, their answers and events come in any order; an answer may be   *)
(* lost after the request took effect, or the request before.               *)
(*                                                                          *)
(* The panel knows the rooms only from copies of the directory: the answers *)
(* to its polls, to the refreshes that events ask for and to its own        *)
(* requests. What it holds while in a room, its heartbeats and other tabs   *)
(* are VoicePanel's; here a stay is one announcement, and leaving waits for *)
(* the session that closes. The user is an administrator, who may create    *)
(* and delete any room.                                                     *)
EXTENDS InviteCard, InvitePicker, FiniteSets

CONSTANTS
  Rooms,      \* ids of rooms
  FirstRooms, \* the rooms there are at the beginning
  NoRoom,
  MaxCopies,  \* bound on the copies of the directory on their way
  MaxEvents   \* bound on clicks, on what the friend does and on failures

ASSUME LobbyAssumption ==
  /\ NoRoom = NoMenu /\ Rooms = Menus /\ FirstRooms \subseteq Rooms
  /\ MaxCopies \in Nat \ {0} /\ MaxEvents \in Nat

VARIABLES
  server,  \* the directory and the invitations
  tab,     \* the panel, and the posts in the channel
  net,     \* requests, answers and events on their way
  spent    \* how often something happened that need not
vars == <<server, tab, net, spent>>

Places == Rooms \cup {NoRoom}
Who == {"me", "friend"}
Directory == [rooms : SUBSET Rooms, at : [Who -> Places]]

(* invites: the room and status of each invitation; late: those whose time  *)
(* is up. used: the ids given to rooms so far. missed (history): rooms in   *)
(* which the server never got to know of the user.                          *)
Server == [rooms : SUBSET Rooms, at : [Who -> Places], used : SUBSET Rooms,
           late : SUBSET Invites, missed : SUBSET Rooms,
           invites : [Invites -> [room : Places,
                      status : Decisions \cup {"unsent", "pending"}]]]
Panel == [list : Directory, room : Places, next : Places, closing : BOOLEAN,
          deleting : SUBSET Rooms, form : BOOLEAN, card : Card, picker : Picker,
          posts : [Invites -> Post], out : {{}}]
Present == [rooms |-> server.rooms, at |-> server.at]
Late(i) == i \in server.late

Get == [do |-> "get"]
Copy(d) == [do |-> "copy", of |-> d]
Presence(r) == [do |-> "presence", room |-> r]
Deletion(r) == [do |-> "delete", room |-> r]
Change(w, prev, r) == [do |-> "event", who |-> w, prev |-> prev, room |-> r]
Offer(i) == [do |-> "offer", invite |-> i]
Answer(i, from, d, how) ==
  [do |-> "answer", invite |-> i, from |-> from, as |-> d, how |-> how]
Search(term, latest) == [do |-> "search", term |-> term, latest |-> latest]
Invitation(r) == [do |-> "invite", room |-> r]
Creation(r) == [do |-> "create", room |-> r]
Created(r, d) == [do |-> "created", room |-> r, of |-> d]

(* What may be on its way. *)
Message ==
  [do : {"get"}] \cup [do : {"copy"}, of : Directory]
  \cup [do : {"presence", "invite"}, room : Places]
  \cup [do : {"delete", "create"}, room : Rooms]
  \cup [do : {"created"}, room : Rooms, of : Directory]
  \cup [do : {"event"}, who : Who, prev : Places, room : Places]
  \cup [do : {"offer"}, invite : Invites]
  \cup [do : {"answer"}, invite : Invites, from : {"card", "post"}, as : Decisions,
        how : {"sent", "recorded", "refused", "lost"}]
  \cup [do : {"search"}, term : Terms, latest : BOOLEAN]

Count(odd) == spent' = spent + (IF odd THEN 1 ELSE 0) /\ spent' <= MaxEvents

(* The friend may be in a room when the panel opens. *)
Init ==
  /\ \E r \in FirstRooms \cup {NoRoom} :
       server = [rooms |-> FirstRooms, used |-> FirstRooms, late |-> {}, missed |-> {},
                 at |-> [w \in Who |-> IF w = "me" THEN NoRoom ELSE r],
                 invites |-> [i \in Invites |-> [room |-> NoRoom, status |-> "unsent"]]]
  /\ tab = [list |-> [rooms |-> {}, at |-> [w \in Who |-> NoRoom]],
            room |-> NoRoom, next |-> NoRoom, closing |-> FALSE, deleting |-> {},
            form |-> FALSE, card |-> NoCard, picker |-> NoPicker,
            posts |-> [i \in Invites |-> NewPost], out |-> {}]
  /\ net = {Get}
  /\ spent = 0

-----------------------------------------------------------------------------
(* The panel. out: the requests a handler makes. *)
Send(t, m) == [t EXCEPT !.out = @ \cup {m}]

(* The session is free: deletions that waited are asked for, and the last   *)
(* room asked for is entered.                                               *)
Free(t) ==
  LET d == [t EXCEPT !.closing = FALSE, !.deleting = {}, !.next = NoRoom,
                     !.out = @ \cup {Deletion(r) : r \in t.deleting}]
  IN IF t.next = NoRoom THEN d
     ELSE Send([d EXCEPT !.room = t.next, !.picker = Entered], Presence(t.next))

(* Without a room there is nothing to wait for. *)
Close(t, atOnce) ==
  IF t.closing THEN t
  ELSE IF atOnce \/ t.room = NoRoom THEN Free(t) ELSE [t EXCEPT !.closing = TRUE]

JoinRoom(t, r, atOnce) ==
  IF t.room = r THEN t ELSE Close([t EXCEPT !.next = r], atOnce)

ResetActiveRoom(t) == [t EXCEPT !.room = NoRoom, !.picker = Reset(@)]
DisconnectLocalRoom(t, atOnce) ==
  ResetActiveRoom(Close([t EXCEPT !.next = NoRoom], atOnce))
LeaveRoom(t, atOnce) == Send(DisconnectLocalRoom(t, atOnce), Presence(NoRoom))

DeleteRoom(t, r, atOnce) ==
  IF t.room = r THEN LeaveRoom([t EXCEPT !.deleting = @ \cup {r}], atOnce)
  ELSE Send(t, Deletion(r))

(* A change of somebody's place, as an event tells it. *)
MovedFromThisRoomElsewhere(t, e) ==
  /\ e.who = "me" /\ t.room # NoRoom
  /\ e.prev = t.room /\ e.room \notin {t.room, NoRoom}
MovedFromThisRoom(t, e) ==
  e.who = "me" /\ t.room # NoRoom /\ e.prev = t.room /\ e.room # t.room
PresenceChanged(t, e, atOnce) ==
  Send(IF MovedFromThisRoom(t, e) THEN DisconnectLocalRoom(t, atOnce) ELSE t, Get)

(* An answer to an invitation is known to be recorded: who accepted enters. *)
ApplyDecision(t, i, d, atOnce) ==
  LET s == [t EXCEPT !.card = Settled(@, i)]
  IN IF d = "accepted" THEN JoinRoom(s, server.invites[i].room, atOnce) ELSE s

-----------------------------------------------------------------------------
(* What a handler does, it does to the tab t it leaves behind. *)
Handled(t, rest) ==
  /\ tab' = [t EXCEPT !.out = {}]
  /\ net' = rest \cup t.out
  /\ UNCHANGED server
Clicked(t) == Handled(t, net) /\ Count(TRUE)

(* The rows of the list: every room of the copy, and the active room. *)
VisibleRooms == tab.list.rooms \cup ({tab.room} \ {NoRoom})
ClickJoin(r, atOnce) ==
  /\ r \in VisibleRooms \ {tab.room}
  /\ Clicked(JoinRoom(tab, r, atOnce))
ClickLeave(atOnce) == tab.room # NoRoom /\ Clicked(LeaveRoom(tab, atOnce))
SessionFree == tab.closing /\ Handled(Free(tab), net) /\ UNCHANGED spent

ToggleRoomMenu(r) ==
  r \in VisibleRooms /\ Clicked([tab EXCEPT !.picker = MenuToggled(@, r)])
RoomRowLeave(r) ==
  /\ tab.picker.menu = r /\ r # NoRoom
  /\ Handled([tab EXCEPT !.picker = MenuLeft(@, r)], net) /\ UNCHANGED spent
DeleteRoomFromMenu(r, atOnce) ==
  /\ tab.picker.menu = r /\ r \in VisibleRooms
  /\ Clicked(DeleteRoom([tab EXCEPT !.picker.menu = NoMenu], r, atOnce))

ToggleCreate == Clicked([tab EXCEPT !.form = ~@])
CreateChannel(r) ==
  /\ tab.form /\ r \in Rooms \ server.used
  /\ Creation(r) \notin net
  /\ Clicked(Send(tab, Creation(r)))

(* Requests that were asked for earlier are no longer the latest. *)
Outdated(m) == IF m.do = "search" THEN Search(m.term, FALSE) ELSE m
Superseded == {Outdated(m) : m \in net}

ToggleInvitePicker ==
  /\ tab.room # NoRoom
  /\ Handled([tab EXCEPT !.picker = Toggled(@)], Superseded) /\ UNCHANGED spent
ClickOutside ==
  /\ tab.picker.open
  /\ Handled([tab EXCEPT !.picker = Closed(@)], Superseded) /\ UNCHANGED spent
TypeSearch(term) ==
  /\ tab.picker.open
  /\ LET t == [tab EXCEPT !.picker = Typed(@, term)]
     IN Handled(IF term = NoTerm THEN t ELSE Send(t, Search(term, TRUE)), Superseded)
  /\ Count(TRUE)

(* Who is in the room, as the list has it, is not offered, and nobody after *)
(* a search that failed.                                                    *)
Eligible(t) == t.list.at["friend"] # t.room /\ t.picker.results # Failed
SendVoiceInvite ==
  /\ tab.picker.open /\ ~tab.picker.pending /\ ~tab.picker.inviting
  /\ Eligible(tab)
  /\ Clicked(Send([tab EXCEPT !.picker = Inviting(@)], Invitation(tab.room)))

ClickCard(d) ==
  LET i == tab.card.shows
      t == [tab EXCEPT !.card = CardClicked(@, Late(i))]
  IN /\ i # NoInvite /\ ~tab.card.pending
     /\ Clicked(IF Late(i) THEN t ELSE Send(t, Answer(i, "card", d, "sent")))
CardTimer ==
  /\ tab.card.timer # NoInvite /\ Late(tab.card.timer)
  /\ Handled([tab EXCEPT !.card = CardExpires(@)], net) /\ UNCHANGED spent

ClickPost(i, d) ==
  /\ server.invites[i].status # "unsent"
  /\ CanRespond(tab.posts[i])
  /\ LET t == [tab EXCEPT !.posts[i] = PostClicked(@, Late(i))]
     IN Clicked(IF Late(i) THEN t ELSE Send(t, Answer(i, "post", d, "sent")))
PostTimer(i) ==
  /\ tab.posts[i].timed /\ Late(i)
  /\ Handled([tab EXCEPT !.posts[i] = PostExpires(@)], net) /\ UNCHANGED spent
PostChanges(i) ==
  /\ server.invites[i].status \in Decisions /\ tab.posts[i].seen = "pending"
  /\ Handled([tab EXCEPT !.posts[i] = PostEdited(@, server.invites[i].status)], net)
  /\ UNCHANGED spent

-----------------------------------------------------------------------------
(* Something arrives at the tab. *)
ApplyRooms(m) ==
  /\ m \in net /\ m.do = "copy"
  /\ Handled([tab EXCEPT !.list = m.of], net \ {m}) /\ UNCHANGED spent
EventArrives(m, atOnce) ==
  /\ m \in net /\ m.do = "event"
  /\ Handled(PresenceChanged(tab, m, atOnce), net \ {m}) /\ UNCHANGED spent
OfferArrives(m) ==
  /\ m \in net /\ m.do = "offer"
  /\ Handled([tab EXCEPT !.card = Offered(@, m.invite, Late(m.invite))], net \ {m})
  /\ UNCHANGED spent
AnswerHeard(m, atOnce) ==
  /\ m \in net /\ m.do = "answer" /\ m.how # "sent"
  /\ LET ok == m.how = "recorded"
         t == IF m.from = "post"
              THEN [tab EXCEPT !.posts[m.invite] = PostAnswered(@, m.as, ok)]
              ELSE [tab EXCEPT !.card = CASE ok -> @ [] m.how = "refused" -> Refused(@)
                                          [] OTHER -> TryAgain(@)]
     IN Handled(IF ok THEN ApplyDecision(t, m.invite, m.as, atOnce) ELSE t, net \ {m})
  /\ UNCHANGED spent
CreationHeard(m, atOnce) ==
  /\ m \in net /\ m.do = "created"
  /\ Handled(JoinRoom([tab EXCEPT !.list = m.of, !.form = FALSE], m.room, atOnce),
             net \ {m})
  /\ UNCHANGED spent

(* The panel asks again at every interval. *)
PollOutside ==
  /\ tab.room = NoRoom /\ Get \notin net
  /\ net' = net \cup {Get}
  /\ UNCHANGED <<server, tab, spent>>
Poll ==
  /\ Get \notin net
  /\ net' = net \cup {Get}
  /\ UNCHANGED <<server, tab, spent>>

(* A search ends, or the request of an invitation: a friend who has joined  *)
(* in the meantime is news for the list.                                    *)
SearchEnds(m, failed) ==
  /\ m \in net /\ m.do = "search"
  /\ Handled([tab EXCEPT !.picker = Found(@, IF failed THEN Failed ELSE m.term, m.latest)],
             net \ {m})
  /\ Count(failed)
InviteEnds(m) ==
  LET t == [tab EXCEPT !.picker = Invited(@)]
  IN /\ m \in net /\ m.do = "invite"
     /\ Handled(IF server.at = [w \in Who |-> m.room] THEN Send(t, Get) ELSE t, net \ {m})
     /\ UNCHANGED spent

-----------------------------------------------------------------------------
(* The server. A request may fail, or its answer be lost. *)
Outcomes == {"heard", "lost", "failed"}

(* Somebody's place changes, which is announced to everybody. *)
Changes(before, after) ==
  {Change(w, before[w], after[w]) : w \in {x \in Who : before[x] # after[x]}}
Become(s, rest) ==
  /\ server' = s
  /\ net' = rest \cup Changes(server.at, s.at)
  /\ UNCHANGED tab

(* Every answer is a copy of the directory. *)
Answered(m, s, how) ==
  LET copies == {x \in net : x.do = "copy"}
      copy == Copy([rooms |-> s.rooms, at |-> s.at])
  IN /\ how = "heard" => Cardinality(copies \cup {copy}) <= MaxCopies
     /\ Become(IF how = "failed" THEN server ELSE s,
               (net \ {m}) \cup (IF how = "heard" THEN {copy} ELSE {}))
     /\ Count(how # "heard")

ServeGet(how) == Get \in net /\ Answered(Get, server, how)

(* Who announces a room that is gone, is told so. *)
ServePresence(m, how) ==
  LET known == m.room \in server.rooms \cup {NoRoom}
  IN /\ m \in net /\ m.do = "presence"
     /\ IF known /\ how # "failed" THEN Answered(m, [server EXCEPT !.at["me"] = m.room], how)
        ELSE /\ how # "lost" /\ Count(known)
             /\ Become([server EXCEPT !.missed = @ \cup ({m.room} \ {NoRoom})], net \ {m})

Without(r) ==
  [server EXCEPT !.rooms = @ \ {r},
     !.at = [w \in Who |-> IF @[w] = r THEN NoRoom ELSE @[w]]]
ServeDeletion(m, how) ==
  m \in net /\ m.do = "delete" /\ Answered(m, Without(m.room), how)

With(r) == [server EXCEPT !.rooms = @ \cup {r}, !.used = @ \cup {r}]
ServeCreation(m, how) ==
  LET s == With(m.room)
  IN /\ m \in net /\ m.do = "create"
     /\ Become(IF how = "failed" THEN server ELSE s,
               (net \ {m}) \cup (IF how # "heard" THEN {}
                 ELSE {Created(m.room, [rooms |-> s.rooms, at |-> s.at])}))
     /\ Count(how # "heard")

(* respond: an invitation that is over is refused, one that is answered     *)
(* takes only the same answer again.                                        *)
Over(i) == Late(i) \/ server.invites[i].room \notin server.rooms
Verdict(i, d) ==
  LET v == server.invites[i]
  IN IF Over(i) THEN "refused"
     ELSE IF v.status # "pending" THEN IF v.status = d THEN "recorded" ELSE "refused"
     ELSE IF server.at["friend"] # v.room \/ server.at["me"] = v.room THEN "refused"
     ELSE "recorded"
ServeAnswer(m, how) ==
  LET verdict == Verdict(m.invite, m.as)
  IN /\ m \in net /\ m.do = "answer" /\ m.how = "sent"
     /\ Become(IF how # "failed" /\ verdict = "recorded"
               THEN [server EXCEPT !.invites[m.invite].status = m.as] ELSE server,
               (net \ {m}) \cup {[m EXCEPT !.how = IF how = "heard" THEN verdict ELSE "lost"]})
     /\ Count(how # "heard")

(* The friend comes and goes, invites, makes and deletes rooms; the time of *)
(* an invitation runs out.                                                  *)
FriendMoves(r) ==
  /\ r \in (server.rooms \cup {NoRoom}) \ {server.at["friend"]}
  /\ Become([server EXCEPT !.at["friend"] = r], net) /\ Count(TRUE)
FriendInvites(i) ==
  LET r == server.at["friend"]
  IN /\ server.invites[i].status = "unsent" /\ r \notin {NoRoom, server.at["me"]}
     /\ Become([server EXCEPT !.invites[i] = [room |-> r, status |-> "pending"]],
               net \cup {Offer(i)})
     /\ Count(TRUE)
FriendCreates(r) ==
  r \in Rooms \ server.used /\ Creation(r) \notin net /\ Become(With(r), net) /\ Count(TRUE)
FriendDeletes(r) == r \in server.rooms /\ Become(Without(r), net) /\ Count(TRUE)
TimeUp(i) ==
  /\ server.invites[i].status # "unsent" /\ ~Late(i)
  /\ Become([server EXCEPT !.late = @ \cup {i}], net) /\ UNCHANGED spent

-----------------------------------------------------------------------------
Click ==
  \/ \E r \in Rooms, atOnce \in BOOLEAN : ClickJoin(r, atOnce) \/ DeleteRoomFromMenu(r, atOnce)
  \/ \E atOnce \in BOOLEAN : ClickLeave(atOnce)
  \/ \E r \in Rooms : ToggleRoomMenu(r) \/ RoomRowLeave(r) \/ CreateChannel(r)
  \/ ToggleCreate \/ ToggleInvitePicker \/ ClickOutside \/ SendVoiceInvite
  \/ \E term \in Terms \cup {NoTerm} : TypeSearch(term)
  \/ \E d \in Decisions : ClickCard(d) \/ \E i \in Invites : ClickPost(i, d)
Arrival ==
  \/ SessionFree \/ CardTimer \/ Poll
  \/ \E i \in Invites : PostTimer(i) \/ PostChanges(i)
  \/ \E m \in net :
       \/ ApplyRooms(m) \/ OfferArrives(m) \/ InviteEnds(m)
       \/ \E atOnce \in BOOLEAN : EventArrives(m, atOnce) \/ AnswerHeard(m, atOnce)
                                 \/ CreationHeard(m, atOnce)
       \/ \E failed \in BOOLEAN : SearchEnds(m, failed)
Outside ==
  \/ \E how \in Outcomes :
       \/ ServeGet(how)
       \/ \E m \in net : ServePresence(m, how) \/ ServeDeletion(m, how)
                        \/ ServeCreation(m, how) \/ ServeAnswer(m, how)
  \/ \E r \in Rooms : FriendMoves(r) \/ FriendCreates(r) \/ FriendDeletes(r)
  \/ FriendMoves(NoRoom)
  \/ \E i \in Invites : FriendInvites(i) \/ TimeUp(i)
Next == Click \/ Arrival \/ Outside
Spec == Init /\ [][Next]_vars

(* The interval of the poll goes on, and the browser gets its answers. *)
FairSpec ==
  /\ Spec
  /\ WF_vars(Poll) /\ WF_vars(ServeGet("heard"))
  /\ WF_vars(\E m \in net : ApplyRooms(m))

-----------------------------------------------------------------------------
(* Every variable keeps to its type; the card is shown as long as its timer *)
(* runs, and the dialog and a menu are never open together.                 *)
TypeOK ==
  /\ server \in Server /\ tab \in Panel /\ net \subseteq Message /\ spent \in 0..MaxEvents
  /\ tab.card.timer = tab.card.shows
  /\ tab.picker.open => tab.picker.menu = NoMenu

(* Nothing waits for what will not come: whatever the panel or a post shows *)
(* as under way (a spinner, a disabled button, a room to be entered) has    *)
(* its request or its session under way, also when other invitations, other *)
(* searches and other rooms came in between (audio_group_call.jsx,          *)
(* voice_invite_post.jsx).                                                  *)
NothingHangs ==
  /\ tab.card.pending =>
       \E m \in net : m.do = "answer" /\ m.from = "card" /\ m.invite = tab.card.shows
  /\ \A i \in Invites : tab.posts[i].submitting =>
       \E m \in net : m.do = "answer" /\ m.from = "post" /\ m.invite = i
  /\ tab.picker.open /\ tab.picker.pending => Search(tab.picker.term, TRUE) \in net
  /\ tab.picker.inviting => \E m \in net : m.do = "invite"
  /\ tab.next # NoRoom \/ tab.deleting # {} => tab.closing

(* An invitation on the card stays until a newer one comes, its time is up, *)
(* it is answered or refused (audio_group_call.jsx). What answers another   *)
(* invitation on its post does not take it away; the refusal of an earlier  *)
(* answer given on the card does.                                           *)
CardEndsForCause ==
  [][LET i == tab.card.shows IN
     i # NoInvite /\ tab'.card.shows # i =>
       \/ tab'.card.shows # NoInvite
       \/ Late(i)
       \/ server.invites[i].status \in Decisions
       \/ \E m \in net \ net' : m.do = "answer" /\ m.from = "card" /\ m.how = "refused"]_vars

(* What a post says was answered, was, and so was what makes the user enter *)
(* a room: whichever of card and post was clicked first, the other does not *)
(* contradict it (voice_invite_post.jsx handleDecision).                    *)
AnswersStand ==
  /\ \A i \in Invites :
       tab.posts[i].local # "none" => server.invites[i].status = tab.posts[i].local
  /\ \A m \in net : m.do = "answer" /\ m.how = "recorded" =>
       server.invites[m.invite].status = m.as

(* The dialog shows the results of the text that is typed, never of an      *)
(* earlier one, however late answers come (handleInviteSearchChange).       *)
SearchShown ==
  tab.picker.open /\ ~tab.picker.pending =>
    tab.picker.results \in
      IF tab.picker.term = NoTerm THEN {NoTerm} ELSE {tab.picker.term, Failed}

(* Who is in a room that somebody deletes is told to leave it               *)
(* (handleExclusivePresenceChange): the panel stays in a room that is gone  *)
(* only while the event is on its way, or if the server never knew.         *)
DeletedRoomLeft ==
  tab.room \in Rooms \ (server.rooms \cup server.missed) =>
    \/ Presence(tab.room) \in net
    \/ \E m \in net : m.do = "event" /\ m.who = "me" /\ m.prev = tab.room

(* The list gets to be the directory and stays so, however copies overtook  *)
(* each other or were lost, once nothing changes (voiceRoomController.js    *)
(* startDirectory).                                                         *)
DirectorySettles == <>[](tab.list = Present)
=============================================================================
