--------------------------- MODULE VoiceLobbyProofs ---------------------------
(***************************************************************************)
(* What holds of the list of rooms, the card, the posts and the dialog of a *)
(* panel for any number of invitations, rooms and searches.  A handler      *)
(* works on a copy of the panel and leaves requests in it, so most lemmas   *)
(* are about panels as values: what the operators of a stay do to one       *)
(* (Stays), and what makes one good beside the messages on their way and    *)
(* the server (Good).                                                       *)
(***************************************************************************)
EXTENDS VoiceLobby, TLAPS

(* A panel in the middle of a handler: it has requests to make. *)
AtWork == [list : Directory, room : Places, next : Places, closing : BOOLEAN,
           deleting : SUBSET Rooms, form : BOOLEAN, card : Card, picker : Picker,
           posts : [Invites -> Post], out : SUBSET Message]

AnswerMsg == [do : {"answer"}, invite : Invites, from : {"card", "post"},
              as : Decisions, how : {"sent", "recorded", "refused", "lost"}]
SearchMsg == [do : {"search"}, term : Terms, latest : BOOLEAN]
EventMsg == [do : {"event"}, who : Who, prev : Places, room : Places]

(* What a message does tells what it carries. *)
LEMMA Kinds ==
  ASSUME NEW m \in Message
  PROVE  /\ m.do = "answer" => m \in AnswerMsg
         /\ m.do = "search" => m \in SearchMsg
         /\ m.do = "event" => m \in EventMsg
         /\ m.do \in {"presence", "invite"} => m.room \in Places
         /\ m.do \in {"delete", "create", "created"} => m.room \in Rooms
         /\ m.do \in {"copy", "created"} => m.of \in Directory
         /\ m.do = "offer" => m.invite \in Invites
BY DEF Message, AnswerMsg, SearchMsg, EventMsg, Places

LEMMA MessagesTyped ==
  /\ Get \in Message
  /\ \A d \in Directory : Copy(d) \in Message
  /\ \A r \in Places : Presence(r) \in Message /\ Invitation(r) \in Message
  /\ \A r \in Rooms : Deletion(r) \in Message /\ Creation(r) \in Message
  /\ \A r \in Rooms, d \in Directory : Created(r, d) \in Message
  /\ \A w \in Who, p, r \in Places : Change(w, p, r) \in Message
  /\ \A i \in Invites : Offer(i) \in Message
  /\ \A i \in Invites, f \in {"card", "post"}, d \in Decisions :
       Answer(i, f, d, "sent") \in Message
  /\ \A x \in Terms, b \in BOOLEAN : Search(x, b) \in Message
BY DEF Message, Get, Copy, Presence, Invitation, Deletion, Creation, Created,
       Change, Offer, Answer, Search, Places

-----------------------------------------------------------------------------
(* The pickers. *)
LEMMA PickersTyped ==
  ASSUME NEW p \in Picker, NEW r \in Rooms
  PROVE  /\ NoPicker \in Picker /\ Reset(p) \in Picker /\ Closed(p) \in Picker
         /\ Toggled(p) \in Picker /\ MenuToggled(p, r) \in Picker
         /\ MenuLeft(p, r) \in Picker /\ Inviting(p) \in Picker /\ Invited(p) \in Picker
         /\ [p EXCEPT !.menu = NoMenu] \in Picker
         /\ \A x \in Terms \cup {NoTerm} : Typed(p, x) \in Picker
         /\ \A x \in Terms \cup {NoTerm, Failed}, b \in BOOLEAN : Found(p, x, b) \in Picker
<1>1. r \in Menus
  BY LobbyAssumption
<1> QED
  BY <1>1 DEF Picker, NoPicker, Reset, Closed, Toggled, MenuToggled, MenuLeft,
              Inviting, Invited, Typed, Found

-----------------------------------------------------------------------------
(* What the operators of a stay may do to a panel: change the room, with an *)
(* announcement; close the dialog; ask for deletions and for the list.      *)
Stays(t, s) ==
  /\ s \in AtWork
  /\ s.list = t.list /\ s.form = t.form /\ s.card = t.card /\ s.posts = t.posts
  /\ s.picker = t.picker \/ (~s.picker.open /\ ~s.picker.inviting)
  /\ t.out \subseteq s.out
  /\ \A m \in s.out \ t.out : m.do \in {"presence", "delete", "get"}
  /\ s.room \in {t.room, NoRoom} \/ Presence(s.room) \in s.out

Waits(t) == t.next # NoRoom \/ t.deleting # {} => t.closing

LEMMA StaysOn ==
  ASSUME NEW t, NEW s, NEW u, Stays(t, s), Stays(s, u)
  PROVE  Stays(t, u)
BY DEF Stays

LEMMA RoomsHere == NoRoom \in Places /\ NoRoom \notin Rooms /\ \A r \in Rooms : r \in Places
BY LobbyAssumption, PickerAssumption DEF Places

LEMMA SendStays ==
  ASSUME NEW t \in AtWork, NEW m \in Message, m.do \in {"presence", "delete", "get"}
  PROVE  /\ Stays(t, Send(t, m)) /\ m \in Send(t, m).out
         /\ Send(t, m).room = t.room /\ (Waits(t) => Waits(Send(t, m)))
BY DEF Stays, Send, AtWork, Waits

LEMMA FreeStays ==
  ASSUME NEW t \in AtWork
  PROVE  Stays(t, Free(t)) /\ Waits(Free(t))
<1> DEFINE dels == {Deletion(r) : r \in t.deleting}
           d == [t EXCEPT !.closing = FALSE, !.deleting = {}, !.next = NoRoom,
                          !.out = @ \cup dels]
           e == [d EXCEPT !.room = t.next, !.picker = Entered]
<1>1. dels \subseteq Message /\ \A m \in dels : m.do = "delete"
  BY MessagesTyped DEF AtWork, Deletion
<1>2. /\ d \in AtWork /\ d.list = t.list /\ d.form = t.form /\ d.card = t.card
      /\ d.posts = t.posts /\ d.picker = t.picker /\ d.room = t.room
      /\ d.out = t.out \cup dels /\ d.next = NoRoom /\ d.deleting = {}
  BY <1>1, RoomsHere DEF AtWork
<1>3. CASE t.next = NoRoom
  <2>1. Free(t) = d
    BY <1>3 DEF Free
  <2> QED
    BY <1>1, <1>2, <2>1 DEF Stays, Waits
<1>4. CASE t.next # NoRoom
  <2> HIDE DEF d
  <2>1. Entered \in Picker /\ ~Entered.open /\ ~Entered.inviting
    BY PickerAssumption DEF Entered, NoPicker, Picker
  <2>2. t.next \in Places /\ Presence(t.next) \in Message
    BY MessagesTyped DEF AtWork
  <2>3. /\ e \in AtWork /\ e.list = t.list /\ e.form = t.form /\ e.card = t.card
        /\ e.posts = t.posts /\ e.picker = Entered /\ e.room = t.next
        /\ e.out = t.out \cup dels /\ e.next = NoRoom /\ e.deleting = {}
    BY <1>2, <2>1, <2>2 DEF AtWork
  <2> HIDE DEF e
  <2>4. Free(t) = Send(e, Presence(t.next))
    BY <1>4 DEF Free, d, e
  <2>5. Presence(t.next).do = "presence"
    BY DEF Presence
  <2>6. PICK x : x = Send(e, Presence(t.next))
    OBVIOUS
  <2>7. /\ x \in AtWork /\ x.list = t.list /\ x.form = t.form /\ x.card = t.card
        /\ x.posts = t.posts /\ x.picker = Entered /\ x.room = t.next
        /\ x.out = (t.out \cup dels) \cup {Presence(t.next)} /\ x.next = NoRoom
        /\ x.deleting = {}
    BY <2>2, <2>3, <2>6 DEF Send, AtWork
  <2> QED
    BY <1>1, <2>1, <2>4, <2>5, <2>6, <2>7 DEF Stays, Waits
<1> QED
  BY <1>3, <1>4

LEMMA CloseStays ==
  ASSUME NEW t \in AtWork, NEW b \in BOOLEAN
  PROVE  Stays(t, Close(t, b)) /\ Waits(Close(t, b))
<1>1. CASE t.closing
  BY <1>1 DEF Close, Stays, Waits
<1>2. CASE ~t.closing /\ (b \/ t.room = NoRoom)
  BY <1>2, FreeStays DEF Close
<1>3. CASE ~t.closing /\ ~(b \/ t.room = NoRoom)
  <2>1. Close(t, b) = [t EXCEPT !.closing = TRUE]
    BY <1>3 DEF Close
  <2> QED
    BY <2>1 DEF Stays, Waits, AtWork
<1> QED
  BY <1>1, <1>2, <1>3 DEF AtWork

LEMMA ResetStays ==
  ASSUME NEW t \in AtWork, Waits(t)
  PROVE  /\ Stays(t, ResetActiveRoom(t)) /\ Waits(ResetActiveRoom(t))
         /\ ResetActiveRoom(t).room = NoRoom
<1>1. Reset(t.picker) \in Picker /\ ~Reset(t.picker).open /\ ~Reset(t.picker).inviting
  BY PickerAssumption DEF AtWork, Reset, NoPicker, Picker
<1>2. PICK x : x = ResetActiveRoom(t)
  OBVIOUS
<1>3. /\ x \in AtWork /\ x.list = t.list /\ x.form = t.form /\ x.card = t.card
      /\ x.posts = t.posts /\ x.picker = Reset(t.picker) /\ x.room = NoRoom
      /\ x.out = t.out /\ x.next = t.next /\ x.deleting = t.deleting
      /\ x.closing = t.closing
  BY <1>1, <1>2, RoomsHere DEF ResetActiveRoom, AtWork
<1> QED
  BY <1>1, <1>2, <1>3 DEF Stays, Waits

LEMMA JoinStays ==
  ASSUME NEW t \in AtWork, NEW r \in Places, NEW b \in BOOLEAN, Waits(t)
  PROVE  Stays(t, JoinRoom(t, r, b)) /\ Waits(JoinRoom(t, r, b))
<1>1. CASE t.room = r
  BY <1>1 DEF JoinRoom, Stays
<1>2. CASE t.room # r
  <2>1. PICK x : x = [t EXCEPT !.next = r]
    OBVIOUS
  <2>2. x \in AtWork /\ Stays(t, x)
    BY <2>1 DEF Stays, AtWork
  <2>3. JoinRoom(t, r, b) = Close(x, b)
    BY <1>2, <2>1 DEF JoinRoom
  <2> QED
    BY <2>2, <2>3, CloseStays, StaysOn
<1> QED
  BY <1>1, <1>2

LEMMA DisconnectStays ==
  ASSUME NEW t \in AtWork, NEW b \in BOOLEAN
  PROVE  /\ Stays(t, DisconnectLocalRoom(t, b)) /\ Waits(DisconnectLocalRoom(t, b))
         /\ DisconnectLocalRoom(t, b).room = NoRoom
<1>1. PICK x : x = [t EXCEPT !.next = NoRoom]
  OBVIOUS
<1>2. x \in AtWork /\ Stays(t, x)
  BY <1>1, RoomsHere DEF Stays, AtWork
<1>3. PICK y : y = Close(x, b)
  OBVIOUS
<1>4. y \in AtWork /\ Stays(x, y) /\ Waits(y)
  BY <1>2, <1>3, CloseStays DEF Stays
<1>5. Stays(y, ResetActiveRoom(y)) /\ Waits(ResetActiveRoom(y))
      /\ ResetActiveRoom(y).room = NoRoom
  BY <1>4, ResetStays DEF Stays
<1> QED
  BY <1>1, <1>2, <1>3, <1>4, <1>5, StaysOn DEF DisconnectLocalRoom

LEMMA LeaveStays ==
  ASSUME NEW t \in AtWork, NEW b \in BOOLEAN
  PROVE  /\ Stays(t, LeaveRoom(t, b)) /\ Waits(LeaveRoom(t, b))
         /\ LeaveRoom(t, b).room = NoRoom
<1>1. PICK x : x = DisconnectLocalRoom(t, b)
  OBVIOUS
<1>2. Stays(t, x) /\ Waits(x) /\ x.room = NoRoom /\ x \in AtWork
  BY <1>1, DisconnectStays DEF Stays
<1>3. Presence(NoRoom) \in Message /\ Presence(NoRoom).do = "presence"
  BY MessagesTyped, RoomsHere DEF Presence
<1>4. Stays(x, Send(x, Presence(NoRoom))) /\ Waits(Send(x, Presence(NoRoom)))
      /\ Send(x, Presence(NoRoom)).room = NoRoom
  BY <1>2, <1>3, SendStays
<1> QED
  BY <1>1, <1>2, <1>4, StaysOn DEF LeaveRoom

LEMMA DeleteStays ==
  ASSUME NEW t \in AtWork, NEW r \in Rooms, NEW b \in BOOLEAN, Waits(t)
  PROVE  Stays(t, DeleteRoom(t, r, b)) /\ Waits(DeleteRoom(t, r, b))
<1>1. CASE t.room = r
  <2>1. PICK x : x = [t EXCEPT !.deleting = @ \cup {r}]
    OBVIOUS
  <2>2. x \in AtWork /\ Stays(t, x)
    BY <2>1, RoomsHere DEF Stays, AtWork
  <2> QED
    BY <1>1, <2>1, <2>2, LeaveStays, StaysOn DEF DeleteRoom
<1>2. CASE t.room # r
  <2>1. Deletion(r) \in Message /\ Deletion(r).do = "delete"
    BY MessagesTyped DEF Deletion
  <2> QED
    BY <1>2, <2>1, SendStays DEF DeleteRoom
<1> QED
  BY <1>1, <1>2

LEMMA ChangedStays ==
  ASSUME NEW t \in AtWork, NEW e \in EventMsg, NEW b \in BOOLEAN, Waits(t)
  PROVE  /\ Stays(t, PresenceChanged(t, e, b)) /\ Waits(PresenceChanged(t, e, b))
         /\ PresenceChanged(t, e, b).room =
              IF MovedFromThisRoom(t, e) THEN NoRoom ELSE t.room
<1>1. Get \in Message /\ Get.do = "get"
  BY MessagesTyped DEF Get
<1>2. PICK x : x = IF MovedFromThisRoom(t, e) THEN DisconnectLocalRoom(t, b) ELSE t
  OBVIOUS
<1>3. /\ Stays(t, x) /\ Waits(x) /\ x \in AtWork
      /\ x.room = IF MovedFromThisRoom(t, e) THEN NoRoom ELSE t.room
  BY <1>2, DisconnectStays DEF Stays
<1>4. Stays(x, Send(x, Get)) /\ Waits(Send(x, Get)) /\ Send(x, Get).room = x.room
  BY <1>1, <1>3, SendStays
<1> QED
  BY <1>2, <1>3, <1>4, StaysOn DEF PresenceChanged

-----------------------------------------------------------------------------
(* What makes a panel t good beside the messages n on their way and the     *)
(* server s.                                                                *)
AnswerOut(n, from, i) == \E m \in n : m.do = "answer" /\ m.from = from /\ m.invite = i

CardGood(c, n) ==
  /\ c.timer = c.shows
  /\ c.pending => AnswerOut(n, "card", c.shows)

(* Of the searches under way only that of the text typed is the latest.     *)
LatestOf(p, n) ==
  p.open => \A m \in n : m.do = "search" /\ m.latest => m.term = p.term /\ p.pending
Shown(p) ==
  p.open /\ ~p.pending =>
    p.results \in IF p.term = NoTerm THEN {NoTerm} ELSE {p.term, Failed}
PickerGood(p, n) ==
  /\ p.open => p.menu = NoMenu
  /\ p.open /\ p.pending => Search(p.term, TRUE) \in n
  /\ p.inviting => \E m \in n : m.do = "invite"
  /\ LatestOf(p, n) /\ Shown(p)

PostsGood(ps, n, s) ==
  \A i \in Invites :
    /\ ps[i].submitting => AnswerOut(n, "post", i)
    /\ ps[i].local # "none" => s.invites[i].status = ps[i].local

AnswersGood(n, s) ==
  \A m \in n : m.do = "answer" /\ m.how = "recorded" => s.invites[m.invite].status = m.as

Good(t, n, s) ==
  /\ t \in AtWork /\ n \subseteq Message /\ s \in Server
  /\ CardGood(t.card, n) /\ PickerGood(t.picker, n) /\ PostsGood(t.posts, n, s) /\ Waits(t)
  /\ AnswersGood(n, s)

(* The server knows where the user is, or will, or the user will learn      *)
(* better; and it knows everybody in a room there is.                       *)
EventOut(n, r) == \E m \in n : m.do = "event" /\ m.who = "me" /\ m.prev = r
Told(r, n, s) ==
  r \in Rooms => \/ Presence(r) \in n \/ s.at["me"] = r
                 \/ r \in s.missed \/ EventOut(n, r)
Placed(n, s) ==
  /\ \A w \in Who : s.at[w] \in s.rooms \cup {NoRoom}
  /\ \A m \in n : m.do = "event" => m.prev # m.room

LInv ==
  /\ tab \in Panel /\ spent \in 0..MaxEvents
  /\ Good(tab, net, server) /\ Told(tab.room, net, server) /\ Placed(net, server)

LEMMA PanelAtWork == \A t \in Panel : t \in AtWork /\ t.out = {}
BY DEF Panel, AtWork

LEMMA RestAtWork ==
  ASSUME NEW t \in AtWork
  PROVE  /\ [t EXCEPT !.out = {}] \in Panel
         /\ [t EXCEPT !.out = {}].card = t.card /\ [t EXCEPT !.out = {}].picker = t.picker
         /\ [t EXCEPT !.out = {}].posts = t.posts /\ [t EXCEPT !.out = {}].room = t.room
         /\ [t EXCEPT !.out = {}].next = t.next
         /\ [t EXCEPT !.out = {}].deleting = t.deleting
         /\ [t EXCEPT !.out = {}].closing = t.closing
BY DEF Panel, AtWork

(* A handler that leaves a good panel keeps the invariant. *)
LEMMA HandledKeeps ==
  ASSUME LInv, NEW t \in AtWork, NEW rest, Handled(t, rest), spent' \in 0..MaxEvents,
         Good(t, rest \cup t.out, server), Told(t.room, rest \cup t.out, server),
         Placed(rest \cup t.out, server)
  PROVE  LInv' /\ tab'.card = t.card
<1>1. tab' = [t EXCEPT !.out = {}] /\ net' = rest \cup t.out /\ server' = server
  BY DEF Handled
<1>2. PICK u : u = [t EXCEPT !.out = {}]
  OBVIOUS
<1>3. /\ u \in Panel /\ u \in AtWork /\ u.card = t.card /\ u.picker = t.picker
      /\ u.posts = t.posts /\ u.room = t.room /\ u.next = t.next
      /\ u.deleting = t.deleting /\ u.closing = t.closing
  BY <1>2, RestAtWork, PanelAtWork
<1>4. Good(u, rest \cup t.out, server)
  BY <1>3 DEF Good, Waits
<1> QED
  BY <1>1, <1>2, <1>3, <1>4 DEF LInv

(* Messages that come and go without being looked for. *)
Plain == {"get", "copy", "presence", "delete", "create", "created", "event", "offer"}

(* What each part looks for among the messages. *)
LEMMA CardMore ==
  ASSUME NEW c, NEW n, NEW k, CardGood(c, n), \A m \in n : m.do = "answer" => m \in k
  PROVE  CardGood(c, k)
BY DEF CardGood, AnswerOut

LEMMA PickerMore ==
  ASSUME NEW p, NEW n, NEW k, PickerGood(p, n),
         \A m : m.do = "search" => (m \in n <=> m \in k),
         \A m \in n : m.do = "invite" => m \in k
  PROVE  PickerGood(p, k)
<1>1. Search(p.term, TRUE).do = "search"
  BY DEF Search
<1> QED
  BY <1>1 DEF PickerGood, LatestOf

LEMMA PostsMore ==
  ASSUME NEW ps, NEW n, NEW k, NEW s, PostsGood(ps, n, s),
         \A m \in n : m.do = "answer" => m \in k
  PROVE  PostsGood(ps, k, s)
BY DEF PostsGood, AnswerOut

LEMMA AnswersLess ==
  ASSUME NEW n, NEW k, NEW s, AnswersGood(n, s),
         \A m \in k : m.do = "answer" /\ m.how = "recorded" => m \in n
  PROVE  AnswersGood(k, s)
BY DEF AnswersGood

LEMMA GoodAlike ==
  ASSUME NEW t, NEW n, NEW k \in SUBSET Message, NEW s, Good(t, n, s),
         \A m : m.do \in {"answer", "search", "invite"} => (m \in n <=> m \in k)
  PROVE  Good(t, k, s)
BY CardMore, PickerMore, PostsMore, AnswersLess DEF Good

LEMMA GoodMore ==
  ASSUME NEW t, NEW n, NEW s, NEW k \in SUBSET Message, Good(t, n, s),
         \A m \in k : m.do \in Plain
  PROVE  Good(t, n \cup k, s)
BY GoodAlike DEF Good, Plain

LEMMA GoodLess ==
  ASSUME NEW t, NEW n, NEW s, NEW m, m.do \in Plain, Good(t, n, s)
  PROVE  Good(t, n \ {m}, s)
BY GoodAlike DEF Good, Plain

LEMMA ToldMore ==
  ASSUME NEW r, NEW n, NEW s, NEW k, Told(r, n, s)
  PROVE  Told(r, n \cup k, s)
BY DEF Told, EventOut

LEMMA ToldLess ==
  ASSUME NEW r, NEW n, NEW s, NEW m, Told(r, n, s), m.do \notin {"presence", "event"}
  PROVE  Told(r, n \ {m}, s)
BY DEF Told, EventOut, Presence

(* A good panel after the operators of a stay. *)
LEMMA GoodStays ==
  ASSUME NEW t \in AtWork, NEW u, NEW n, NEW s, t.out = {}, Good(t, n, s),
         Stays(t, u), Waits(u)
  PROVE  Good(u, n \cup u.out, s)
<1>1. u.out \subseteq Message /\ \A m \in u.out : m.do \in Plain
  BY DEF Stays, AtWork, Plain
<1>2. Good(t, n \cup u.out, s)
  BY <1>1, GoodMore
<1>3. PickerGood(u.picker, n \cup u.out)
  BY <1>2 DEF Good, Stays, PickerGood, LatestOf, Shown
<1> QED
  BY <1>2, <1>3 DEF Good, Stays

LEMMA ToldStays ==
  ASSUME NEW t, NEW u, NEW n, NEW s, Told(t.room, n, s), Stays(t, u)
  PROVE  Told(u.room, n \cup u.out, s)
BY RoomsHere DEF Told, Stays, EventOut

(* The requests of a handler are no events. *)
LEMMA PlacedMore ==
  ASSUME NEW n, NEW k, NEW s, Placed(n, s), \A m \in k : m.do # "event"
  PROVE  Placed(n \cup k, s)
BY DEF Placed

(* Most handlers also leave the card as it is. *)
Kept == LInv' /\ tab'.card = tab.card

LEMMA StayKeeps ==
  ASSUME LInv, NEW t \in AtWork, NEW u, NEW rest, t.out = {}, Handled(u, rest),
         spent' \in 0..MaxEvents, Stays(t, u), Waits(u),
         Good(t, rest, server), Told(t.room, rest, server), Placed(rest, server)
  PROVE  LInv' /\ tab'.card = t.card
<1>1. Good(u, rest \cup u.out, server) /\ Told(u.room, rest \cup u.out, server)
  BY GoodStays, ToldStays
<1>2. Placed(rest \cup u.out, server)
  BY PlacedMore DEF Stays
<1> QED
  BY <1>1, <1>2, HandledKeeps DEF Stays

(* The parts of the invariant, of the panel as a value. *)
LEMMA Here ==
  ASSUME LInv
  PROVE  /\ tab \in AtWork /\ tab.out = {} /\ Waits(tab)
         /\ server \in Server /\ net \subseteq Message
         /\ CardGood(tab.card, net) /\ PickerGood(tab.picker, net)
         /\ PostsGood(tab.posts, net, server) /\ AnswersGood(net, server)
BY PanelAtWork DEF LInv, Good

LEMMA Counted ==
  ASSUME LInv, NEW odd, Count(odd) \/ UNCHANGED spent
  PROVE  spent' \in 0..MaxEvents
BY LobbyAssumption DEF LInv, Count

(* A handler that leaves the stay alone. *)
Beside(t, u) ==
  /\ u \in AtWork /\ u.room = t.room /\ u.next = t.next /\ u.closing = t.closing
  /\ u.deleting = t.deleting

LEMMA QuietKeeps ==
  ASSUME LInv, NEW t, NEW rest, NEW n, n = rest \cup t.out, n \subseteq Message,
         Handled(t, rest), spent' \in 0..MaxEvents, Beside(tab, t),
         CardGood(t.card, n), PickerGood(t.picker, n), PostsGood(t.posts, n, server),
         AnswersGood(n, server), Told(tab.room, n, server), Placed(n, server)
  PROVE  LInv' /\ tab'.card = t.card
<1>1. Waits(t) /\ t \in AtWork /\ t.room = tab.room
  BY Here DEF Beside, Waits
<1>2. Good(t, n, server)
  BY <1>1, Here DEF Good
<1> QED
  BY <1>1, <1>2, HandledKeeps

LEMMA WithCard ==
  ASSUME NEW t \in AtWork, NEW c \in Card
  PROVE  LET u == [t EXCEPT !.card = c]
         IN Beside(t, u) /\ u.card = c /\ u.picker = t.picker /\ u.posts = t.posts /\ u.out = t.out
BY DEF AtWork, Beside

LEMMA WithPicker ==
  ASSUME NEW t \in AtWork, NEW p \in Picker
  PROVE  LET u == [t EXCEPT !.picker = p]
         IN Beside(t, u) /\ u.card = t.card /\ u.picker = p /\ u.posts = t.posts /\ u.out = t.out
BY DEF AtWork, Beside

LEMMA WithPosts ==
  ASSUME NEW t \in AtWork, NEW ps \in [Invites -> Post]
  PROVE  LET u == [t EXCEPT !.posts = ps]
         IN Beside(t, u) /\ u.card = t.card /\ u.picker = t.picker /\ u.posts = ps /\ u.out = t.out
BY DEF AtWork, Beside

LEMMA WithList ==
  ASSUME NEW t \in AtWork, NEW d \in Directory, NEW b \in BOOLEAN
  PROVE  /\ LET u == [t EXCEPT !.list = d, !.form = b]
            IN Beside(t, u) /\ u.card = t.card /\ u.picker = t.picker /\ u.posts = t.posts /\ u.out = t.out
         /\ LET u == [t EXCEPT !.list = d]
            IN Beside(t, u) /\ u.card = t.card /\ u.picker = t.picker /\ u.posts = t.posts /\ u.out = t.out
         /\ LET u == [t EXCEPT !.form = b]
            IN Beside(t, u) /\ u.card = t.card /\ u.picker = t.picker /\ u.posts = t.posts /\ u.out = t.out
BY DEF AtWork, Beside

LEMMA WithSend ==
  ASSUME NEW t \in AtWork, NEW m \in Message
  PROVE  LET u == Send(t, m)
         IN Beside(t, u) /\ u.card = t.card /\ u.picker = t.picker /\ u.posts = t.posts
            /\ u.out = t.out \cup {m}
BY DEF AtWork, Beside, Send

-----------------------------------------------------------------------------
(* The clicks that change the stay. *)
LEMMA StayClicks ==
  ASSUME LInv, NEW r \in Rooms, NEW b \in BOOLEAN,
         ClickJoin(r, b) \/ ClickLeave(b) \/ DeleteRoomFromMenu(r, b)
  PROVE  Kept
<1>1. PICK t, n : t = tab /\ n = net
  OBVIOUS
<1>2. /\ t \in AtWork /\ t.out = {} /\ Waits(t) /\ Good(t, n, server)
      /\ Told(t.room, n, server) /\ Placed(n, server)
  BY <1>1, Here DEF LInv
<1>3. CASE ClickJoin(r, b)
  <2>1. PICK u : u = JoinRoom(t, r, b)
    OBVIOUS
  <2>2. Handled(u, n) /\ spent' \in 0..MaxEvents
    BY <1>1, <1>3, <2>1, Counted DEF ClickJoin, Clicked, Handled
  <2> QED
    BY <1>1, <1>2, <2>1, <2>2, JoinStays, StayKeeps, RoomsHere DEF Kept
<1>4. CASE ClickLeave(b)
  <2>1. PICK u : u = LeaveRoom(t, b)
    OBVIOUS
  <2>2. Handled(u, n) /\ spent' \in 0..MaxEvents
    BY <1>1, <1>4, <2>1, Counted DEF ClickLeave, Clicked, Handled
  <2> QED
    BY <1>1, <1>2, <2>1, <2>2, LeaveStays, StayKeeps DEF Kept
<1>5. CASE DeleteRoomFromMenu(r, b)
  <2>1. PICK p : p = [t.picker EXCEPT !.menu = NoMenu]
    OBVIOUS
  <2>2. /\ p \in Picker /\ p.open = t.picker.open /\ p.term = t.picker.term
        /\ p.results = t.picker.results /\ p.pending = t.picker.pending
        /\ p.inviting = t.picker.inviting /\ p.menu = NoMenu
    BY <1>2, <2>1 DEF AtWork, Picker
  <2>3. PICK w : w = [t EXCEPT !.picker = p]
    OBVIOUS
  <2>4. Beside(t, w) /\ w.card = t.card /\ w.picker = p /\ w.posts = t.posts /\ w.out = {}
    BY <1>2, <2>2, <2>3, WithPicker
  <2>5. PickerGood(p, n)
    BY <1>2, <2>2 DEF Good, PickerGood, LatestOf, Shown
  <2>6. w \in AtWork /\ Waits(w) /\ w.room = t.room /\ Good(w, n, server)
    BY <1>2, <2>4, <2>5 DEF Good, Beside, Waits
  <2>7. PICK u : u = DeleteRoom(w, r, b)
    OBVIOUS
  <2>8. [tab EXCEPT !.picker.menu = NoMenu] = w
    BY <1>1, <2>1, <2>3
  <2>9. Handled(u, n) /\ spent' \in 0..MaxEvents
    BY <1>1, <1>5, <2>7, <2>8, Counted DEF DeleteRoomFromMenu, Clicked, Handled
  <2> QED
    BY <1>1, <1>2, <2>4, <2>6, <2>7, <2>9, DeleteStays, StayKeeps DEF Kept
<1> QED
  BY <1>3, <1>4, <1>5

LEMMA SessionFreeKeeps ==
  ASSUME LInv, SessionFree
  PROVE  Kept
<1>1. PICK t, n, u : t = tab /\ n = net /\ u = Free(t)
  OBVIOUS
<1>2. /\ t \in AtWork /\ t.out = {} /\ Good(t, n, server)
      /\ Told(t.room, n, server) /\ Placed(n, server)
  BY <1>1, Here DEF LInv
<1>3. Handled(u, n) /\ spent' \in 0..MaxEvents
  BY <1>1, Counted DEF SessionFree, Handled
<1> QED
  BY <1>1, <1>2, <1>3, FreeStays, StayKeeps DEF Kept

(* The list and the form. *)
LEMMA ListKeeps ==
  ASSUME LInv,
         \/ ToggleCreate \/ (\E r \in Rooms : CreateChannel(r))
         \/ Poll \/ (\E m \in net : ApplyRooms(m))
  PROVE  Kept
<1>1. PICK t, n : t = tab /\ n = net
  OBVIOUS
<1>2. /\ t \in AtWork /\ t.out = {} /\ n \subseteq Message /\ Good(t, n, server)
      /\ Told(t.room, n, server) /\ Placed(n, server) /\ t.form \in BOOLEAN /\ t.list \in Directory
  BY <1>1, Here DEF LInv, AtWork
<1>3. CASE ToggleCreate
  <2>1. PICK u : u = [t EXCEPT !.form = ~@]
    OBVIOUS
  <2>2. /\ Beside(t, u) /\ u.card = t.card /\ u.picker = t.picker /\ u.posts = t.posts
        /\ u.out = {}
    BY <1>2, <2>1, WithList
  <2>3. Handled(u, n) /\ spent' \in 0..MaxEvents
    BY <1>1, <1>3, <2>1, Counted DEF ToggleCreate, Clicked, Handled
  <2> QED
    BY <1>1, <1>2, <2>2, <2>3, QuietKeeps DEF Good, Kept
<1>4. ASSUME NEW r \in Rooms, CreateChannel(r) PROVE Kept
  <2>1. PICK u : u = Send(t, Creation(r))
    OBVIOUS
  <2>2. Creation(r) \in Message /\ Creation(r).do = "create"
    BY MessagesTyped DEF Creation
  <2>3. /\ Beside(t, u) /\ u.card = t.card /\ u.picker = t.picker /\ u.posts = t.posts
        /\ u.out = {Creation(r)}
    BY <1>2, <2>1, <2>2, WithSend
  <2>4. Handled(u, n) /\ spent' \in 0..MaxEvents
    BY <1>1, <1>4, <2>1, Counted DEF CreateChannel, Clicked, Handled
  <2>5. /\ Good(t, n \cup {Creation(r)}, server) /\ Told(t.room, n \cup {Creation(r)}, server)
        /\ Placed(n \cup {Creation(r)}, server)
    BY <1>2, <2>2, GoodMore, ToldMore, PlacedMore DEF Plain
  <2> QED
    BY <1>1, <1>2, <2>2, <2>3, <2>4, <2>5, QuietKeeps DEF Good, Kept
<1>5. CASE Poll
  <2>1. Get \in Message /\ Get.do = "get"
    BY MessagesTyped DEF Get
  <2>2. /\ Good(t, n \cup {Get}, server) /\ Told(t.room, n \cup {Get}, server)
        /\ Placed(n \cup {Get}, server)
    BY <1>2, <2>1, GoodMore, ToldMore, PlacedMore DEF Plain
  <2> QED
    BY <1>1, <1>5, <2>2 DEF Poll, LInv, Kept
<1>6. ASSUME NEW m \in net, ApplyRooms(m) PROVE Kept
  <2>1. m.do = "copy" /\ m.of \in Directory
    BY <1>6, <1>1, <1>2, Kinds DEF ApplyRooms
  <2>2. PICK u : u = [t EXCEPT !.list = m.of]
    OBVIOUS
  <2>3. /\ Beside(t, u) /\ u.card = t.card /\ u.picker = t.picker /\ u.posts = t.posts
        /\ u.out = {}
    BY <1>2, <2>1, <2>2, WithList
  <2>4. PICK k : k = n \ {m}
    OBVIOUS
  <2>5. Handled(u, k) /\ spent' \in 0..MaxEvents
    BY <1>1, <1>6, <2>2, <2>4, Counted DEF ApplyRooms, Handled
  <2>6. Good(t, k, server) /\ Told(t.room, k, server) /\ Placed(k, server)
    BY <1>2, <2>1, <2>4, GoodLess, ToldLess DEF Plain, Placed
  <2> QED
    BY <1>1, <1>2, <2>3, <2>4, <2>5, <2>6, QuietKeeps DEF Good, Kept
<1> QED
  BY <1>3, <1>4, <1>5, <1>6

-----------------------------------------------------------------------------
(* The dialog and the menus. *)
LEMMA PickerKeeps ==
  ASSUME LInv, NEW t, NEW n, NEW p \in Picker, t = [tab EXCEPT !.picker = p],
         Handled(t, n), spent' \in 0..MaxEvents, n \subseteq Message, PickerGood(p, n),
         \A m : m.do # "search" /\ m.do # "invite" => (m \in n <=> m \in net)
  PROVE  Kept
<1>1. /\ Beside(tab, t) /\ t.card = tab.card /\ t.picker = p /\ t.posts = tab.posts
      /\ t.out = {}
  BY Here, WithPicker
<1>2. /\ CardGood(t.card, n) /\ PostsGood(t.posts, n, server) /\ AnswersGood(n, server)
  BY <1>1, Here, CardMore, PostsMore, AnswersLess
<1>3. Told(tab.room, n, server) /\ Placed(n, server)
  <2>1. \A r : Presence(r).do = "presence"
    BY DEF Presence
  <2> QED
    BY <2>1 DEF LInv, Told, Placed, EventOut
<1> QED
  BY <1>1, <1>2, <1>3, QuietKeeps DEF Kept

LEMMA SupersededLike ==
  ASSUME LInv
  PROVE  /\ Superseded \subseteq Message
         /\ \A m : m.do # "search" => (m \in Superseded <=> m \in net)
         /\ \A m \in Superseded : m.do = "search" => ~m.latest
<1>1. \A m \in net : m \in Message
  BY Here
<1>2. ASSUME NEW m \in net, m.do = "search"
      PROVE  Outdated(m) \in Message /\ Outdated(m).do = "search" /\ ~Outdated(m).latest
  BY <1>1, <1>2, Kinds, MessagesTyped DEF Outdated, Search, SearchMsg
<1>3. \A m \in net : m.do # "search" => Outdated(m) = m
  BY DEF Outdated
<1> QED
  BY <1>1, <1>2, <1>3 DEF Superseded

LEMMA MenusKeep ==
  ASSUME LInv, NEW r \in Rooms, ToggleRoomMenu(r) \/ RoomRowLeave(r)
  PROVE  Kept
<1>1. PICK q, n : q = tab.picker /\ n = net
  OBVIOUS
<1>2. q \in Picker /\ PickerGood(q, n) /\ n \subseteq Message
  BY <1>1, Here DEF AtWork
<1>3. CASE ToggleRoomMenu(r)
  <2>1. PICK p, t : p = MenuToggled(q, r) /\ t = [tab EXCEPT !.picker = p]
    OBVIOUS
  <2>2. p \in Picker /\ ~p.open /\ p.inviting = q.inviting
    BY <1>2, <2>1, PickersTyped DEF MenuToggled, Picker
  <2>3. PickerGood(p, n)
    BY <1>2, <2>2 DEF PickerGood, LatestOf, Shown
  <2>4. Handled(t, n) /\ spent' \in 0..MaxEvents
    BY <1>1, <1>3, <2>1, Counted DEF ToggleRoomMenu, Clicked, Handled
  <2> QED
    BY <1>1, <1>2, <2>1, <2>2, <2>3, <2>4, PickerKeeps
<1>4. CASE RoomRowLeave(r)
  <2>1. PICK p, t : p = MenuLeft(q, r) /\ t = [tab EXCEPT !.picker = p]
    OBVIOUS
  <2>2. /\ p \in Picker /\ p.open = q.open /\ p.term = q.term /\ p.results = q.results
        /\ p.pending = q.pending /\ p.inviting = q.inviting
        /\ (q.menu = NoMenu => p.menu = NoMenu)
    BY <1>2, <2>1, PickersTyped DEF MenuLeft, Picker
  <2>3. PickerGood(p, n)
    BY <1>2, <2>2 DEF PickerGood, LatestOf, Shown
  <2>4. Handled(t, n) /\ spent' \in 0..MaxEvents
    BY <1>1, <1>4, <2>1, Counted DEF RoomRowLeave, Handled
  <2> QED
    BY <1>1, <1>2, <2>1, <2>2, <2>3, <2>4, PickerKeeps
<1> QED
  BY <1>3, <1>4

(* Opened, closed or typed into, the dialog has outdated every search. *)
LEMMA DialogKeeps ==
  ASSUME LInv, ToggleInvitePicker \/ ClickOutside
  PROVE  Kept
<1>1. PICK q, n : q = tab.picker /\ n = Superseded
  OBVIOUS
<1>2. q \in Picker /\ PickerGood(q, net)
  BY <1>1, Here DEF AtWork
<1>3. /\ n \subseteq Message /\ \A m \in n : m.do = "search" => ~m.latest
      /\ \A m : m.do # "search" => (m \in n <=> m \in net)
  BY <1>1, SupersededLike
<1>4. PICK p : p = IF ToggleInvitePicker THEN Toggled(q) ELSE Closed(q)
  OBVIOUS
<1>5. /\ p \in Picker /\ ~p.pending /\ p.results = NoTerm /\ p.term = NoTerm
      /\ (p.inviting => q.inviting) /\ (p.open => p.menu = NoMenu)
  BY <1>2, <1>4, PickerAssumption DEF Toggled, Closed, NoPicker, Picker
<1>6. PickerGood(p, n)
  BY <1>2, <1>3, <1>5 DEF PickerGood, LatestOf, Shown
<1>7. PICK t : t = [tab EXCEPT !.picker = p]
  OBVIOUS
<1>8. Handled(t, n) /\ spent' \in 0..MaxEvents
  <2>1. CASE ToggleInvitePicker
    BY <1>1, <1>4, <1>7, <2>1, Counted DEF ToggleInvitePicker, Handled
  <2>2. CASE ~ToggleInvitePicker
    BY <1>1, <1>4, <1>7, <2>2, Counted DEF ClickOutside, Handled
  <2> QED
    BY <2>1, <2>2
<1> QED
  BY <1>3, <1>5, <1>6, <1>7, <1>8, PickerKeeps

LEMMA TypeSearchKeeps ==
  ASSUME LInv, NEW x \in Terms \cup {NoTerm}, TypeSearch(x)
  PROVE  Kept
<1>1. PICK q, n, u : q = tab.picker /\ n = Superseded /\ u = tab
  OBVIOUS
<1>2. q \in Picker /\ PickerGood(q, net) /\ q.open /\ u \in AtWork /\ u.out = {}
  BY <1>1, Here DEF AtWork, TypeSearch
<1>3. /\ n \subseteq Message /\ \A m \in n : m.do = "search" => ~m.latest
      /\ \A m : m.do # "search" => (m \in n <=> m \in net)
  BY <1>1, SupersededLike
<1>4. PICK p : p = Typed(q, x)
  OBVIOUS
<1>5. /\ p \in Picker /\ p.open /\ p.term = x /\ p.results = NoTerm
      /\ p.pending = (x # NoTerm) /\ p.inviting = q.inviting /\ p.menu = q.menu
  BY <1>2, <1>4, PickerAssumption DEF Typed, Picker
<1>6. PICK w : w = [u EXCEPT !.picker = p]
  OBVIOUS
<1>7. /\ Beside(u, w) /\ w.card = u.card /\ w.picker = p /\ w.posts = u.posts
      /\ w.out = {} /\ [tab EXCEPT !.picker = Typed(@, x)] = w
  BY <1>1, <1>2, <1>4, <1>5, <1>6, WithPicker
<1>8. spent' \in 0..MaxEvents
  BY Counted DEF TypeSearch
<1>9. CASE x = NoTerm
  <2>1. PickerGood(p, n)
    BY <1>2, <1>3, <1>5, <1>9 DEF PickerGood, LatestOf, Shown
  <2>2. Handled(w, n)
    BY <1>1, <1>7, <1>9 DEF TypeSearch, Handled
  <2> QED
    BY <1>1, <1>3, <1>5, <1>6, <1>8, <2>1, <2>2, PickerKeeps
<1>10. CASE x # NoTerm
  <2>1. PICK k, t, m : m = Search(x, TRUE) /\ k = n \cup {m} /\ t = Send(w, m)
    OBVIOUS
  <2>2. m \in Message /\ m.do = "search" /\ m.term = x /\ k \subseteq Message
    BY <1>3, <1>10, <2>1, MessagesTyped DEF Search
  <2>3. /\ Beside(w, t) /\ t.card = w.card /\ t.picker = w.picker /\ t.posts = w.posts
        /\ t.out = {m}
    <3>1. w \in AtWork /\ w.out = {}
      BY <1>7 DEF Beside
    <3>2. /\ Beside(w, t) /\ t.card = w.card /\ t.picker = w.picker /\ t.posts = w.posts
          /\ t.out = w.out \cup {m}
      BY <2>1, <2>2, <3>1, WithSend, Zenon
    <3> QED
      BY <3>1, <3>2
  <2>4. Handled(t, n)
    BY <1>1, <1>7, <1>10, <2>1 DEF TypeSearch, Handled
  <2>5. PickerGood(p, k)
    BY <1>2, <1>3, <1>5, <1>10, <2>1, <2>2 DEF PickerGood, LatestOf, Shown
  <2>6. /\ CardGood(t.card, k) /\ PostsGood(t.posts, k, server) /\ AnswersGood(k, server)
    <3>1. \A y : y.do = "answer" => (y \in k <=> y \in net)
      BY <1>3, <2>1, <2>2
    <3>2. t.card = tab.card /\ t.posts = tab.posts
      BY <1>1, <1>7, <2>3
    <3> QED
      BY <3>1, <3>2, Here, CardMore, PostsMore, AnswersLess
  <2>7. Told(tab.room, k, server) /\ Placed(k, server)
    <3>1. \A r : Presence(r).do = "presence"
      BY DEF Presence
    <3> QED
      BY <1>3, <2>1, <2>2, <3>1 DEF LInv, Told, Placed, EventOut
  <2>8. Beside(tab, t)
    BY <1>1, <1>7, <2>3 DEF Beside
  <2> QED
    BY <1>1, <1>7, <1>8, <2>1, <2>2, <2>3, <2>4, <2>5, <2>6, <2>7, <2>8, QuietKeeps DEF Kept
<1> QED
  BY <1>9, <1>10

LEMMA SendVoiceInviteKeeps ==
  ASSUME LInv, SendVoiceInvite
  PROVE  Kept
<1>1. PICK u, q, n : u = tab /\ q = tab.picker /\ n = net
  OBVIOUS
<1>2. /\ q \in Picker /\ PickerGood(q, n) /\ u \in AtWork /\ u.out = {} /\ u.room \in Places
      /\ n \subseteq Message
  BY <1>1, Here DEF AtWork
<1>3. PICK p, w : p = Inviting(q) /\ w = [u EXCEPT !.picker = p]
  OBVIOUS
<1>4. /\ p \in Picker /\ p.open = q.open /\ p.term = q.term /\ p.results = q.results
      /\ p.pending = q.pending /\ p.menu = q.menu
  BY <1>2, <1>3 DEF Inviting, Picker
<1>5. /\ Beside(u, w) /\ w.card = u.card /\ w.picker = p /\ w.posts = u.posts /\ w.out = {}
      /\ [tab EXCEPT !.picker = Inviting(@)] = w
  BY <1>1, <1>2, <1>3, <1>4, WithPicker
<1>6. PICK m, k, t : m = Invitation(u.room) /\ k = n \cup {m} /\ t = Send(w, m)
  OBVIOUS
<1>7. m \in Message /\ m.do = "invite" /\ k \subseteq Message
  BY <1>2, <1>6, MessagesTyped DEF Invitation
<1>8. /\ Beside(w, t) /\ t.card = w.card /\ t.picker = w.picker /\ t.posts = w.posts
      /\ t.out = {m}
  BY <1>5, <1>6, <1>7, WithSend DEF Beside
<1>9. Handled(t, n) /\ spent' \in 0..MaxEvents
  BY <1>1, <1>5, <1>6, Counted DEF SendVoiceInvite, Clicked, Handled
<1>10. PickerGood(p, k)
  BY <1>2, <1>4, <1>6, <1>7 DEF PickerGood, LatestOf, Shown
<1>11. /\ CardGood(t.card, k) /\ PostsGood(t.posts, k, server) /\ AnswersGood(k, server)
  BY <1>1, <1>5, <1>6, <1>7, <1>8, Here, CardMore, PostsMore, AnswersLess
<1>12. Told(tab.room, k, server) /\ Placed(k, server)
  BY <1>1, <1>6, <1>7, ToldMore, PlacedMore DEF LInv
<1>13. Beside(tab, t)
  BY <1>1, <1>5, <1>8 DEF Beside
<1> QED
  BY <1>1, <1>5, <1>6, <1>7, <1>8, <1>9, <1>10, <1>11, <1>12, <1>13, QuietKeeps DEF Kept

LEMMA SearchEndsKeeps ==
  ASSUME LInv, NEW m \in net, NEW failed \in BOOLEAN, SearchEnds(m, failed)
  PROVE  Kept
<1>1. PICK q, n : q = tab.picker /\ n = net \ {m}
  OBVIOUS
<1>2. q \in Picker /\ PickerGood(q, net) /\ n \subseteq Message /\ net \subseteq Message
  BY <1>1, Here DEF AtWork
<1>3. m.do = "search" /\ m \in SearchMsg
  BY <1>2, Kinds DEF SearchEnds
<1>4. PICK x : x = IF failed THEN Failed ELSE m.term
  OBVIOUS
<1>5. PICK p, t : p = Found(q, x, m.latest) /\ t = [tab EXCEPT !.picker = p]
  OBVIOUS
<1>6. /\ p \in Picker /\ p.open = q.open /\ p.term = q.term /\ p.menu = q.menu
      /\ p.inviting = q.inviting
      /\ (m.latest => p.results = x /\ ~p.pending) /\ (~m.latest => p = q)
  BY <1>2, <1>3, <1>4, <1>5 DEF Found, Picker, SearchMsg
<1>7. PickerGood(p, n)
  <2>1. CASE m.latest /\ p.open
    <3>1. m.term = p.term /\ p.term \in Terms /\ p.term # NoTerm
      BY <1>2, <1>3, <1>6, <2>1, PickerAssumption DEF PickerGood, LatestOf, SearchMsg
    <3>2. \A y \in net : y.do = "search" /\ y.latest => y = m
      <4> SUFFICES ASSUME NEW y \in net, y.do = "search", y.latest PROVE y = m
        OBVIOUS
      <4>1. y \in SearchMsg /\ y.term = p.term
        BY <1>2, <1>6, <2>1, Kinds DEF PickerGood, LatestOf
      <4> QED
        BY <1>3, <2>1, <3>1, <4>1 DEF SearchMsg
    <3> QED
      BY <1>1, <1>2, <1>3, <1>4, <1>6, <2>1, <3>1, <3>2 DEF PickerGood, LatestOf, Shown
  <2>2. CASE m.latest /\ ~p.open
    BY <1>1, <1>2, <1>3, <1>6, <2>2 DEF PickerGood, LatestOf, Shown
  <2>3. CASE ~m.latest
    BY <1>1, <1>2, <1>3, <1>6, <2>3 DEF PickerGood, LatestOf, Shown, Search
  <2> QED
    BY <2>1, <2>2, <2>3
<1>8. Handled(t, n) /\ spent' \in 0..MaxEvents
  BY <1>1, <1>4, <1>5, Counted DEF SearchEnds, Handled
<1> QED
  BY <1>1, <1>2, <1>3, <1>5, <1>6, <1>7, <1>8, PickerKeeps

LEMMA InviteEndsKeeps ==
  ASSUME LInv, NEW m \in net, InviteEnds(m)
  PROVE  Kept
<1>1. PICK u, q, n : u = tab /\ q = tab.picker /\ n = net \ {m}
  OBVIOUS
<1>2. /\ q \in Picker /\ PickerGood(q, net) /\ n \subseteq Message /\ m.do = "invite"
      /\ u \in AtWork /\ u.out = {}
  BY <1>1, Here DEF AtWork, InviteEnds
<1>3. PICK p, w : p = Invited(q) /\ w = [u EXCEPT !.picker = p]
  OBVIOUS
<1>4. /\ p \in Picker /\ p.open = q.open /\ p.term = q.term /\ p.results = q.results
      /\ p.pending = q.pending /\ p.menu = q.menu /\ ~p.inviting
  BY <1>2, <1>3 DEF Invited, Picker
<1>5. /\ Beside(u, w) /\ w.card = u.card /\ w.picker = p /\ w.posts = u.posts /\ w.out = {}
      /\ [tab EXCEPT !.picker = Invited(@)] = w
  BY <1>1, <1>2, <1>3, <1>4, WithPicker
<1>6. PickerGood(p, n)
  BY <1>1, <1>2, <1>4 DEF PickerGood, LatestOf, Shown, Search
<1>7. spent' \in 0..MaxEvents
  BY Counted DEF InviteEnds
<1>8. CASE Handled(w, n)
  BY <1>1, <1>2, <1>3, <1>4, <1>6, <1>7, <1>8, PickerKeeps
<1>9. CASE Handled(Send(w, Get), n)
  <2>1. PICK t, k : t = Send(w, Get) /\ k = n \cup {Get}
    OBVIOUS
  <2>2. Get \in Message /\ Get.do = "get"
    BY MessagesTyped DEF Get
  <2>3. /\ Beside(w, t) /\ t.card = w.card /\ t.picker = w.picker /\ t.posts = w.posts
        /\ t.out = {Get}
    BY <1>5, <2>1, <2>2, WithSend DEF Beside
  <2>4. PickerGood(p, k)
    BY <1>6, <2>1, <2>2, PickerMore
  <2>5. /\ CardGood(t.card, k) /\ PostsGood(t.posts, k, server) /\ AnswersGood(k, server)
    BY <1>1, <1>2, <1>5, <2>1, <2>2, <2>3, Here, CardMore, PostsMore, AnswersLess
  <2>6. Told(tab.room, k, server) /\ Placed(k, server)
    <3>1. Told(tab.room, n, server) /\ Placed(n, server)
      BY <1>1, <1>2, ToldLess DEF LInv, Placed
    <3> QED
      BY <2>1, <2>2, <3>1, ToldMore, PlacedMore
  <2>7. Beside(tab, t) /\ Handled(t, n)
    BY <1>1, <1>5, <1>9, <2>1, <2>3 DEF Beside, Handled
  <2> QED
    BY <1>1, <1>2, <1>5, <1>7, <2>1, <2>2, <2>3, <2>4, <2>5, <2>6, <2>7, QuietKeeps DEF Kept
<1> QED
  BY <1>1, <1>5, <1>8, <1>9 DEF InviteEnds, Handled

-----------------------------------------------------------------------------
(* The card and the posts. *)
LEMMA CardKeeps ==
  ASSUME LInv, NEW t, NEW n, NEW c \in Card, t = [tab EXCEPT !.card = c],
         Handled(t, n), spent' \in 0..MaxEvents, n \subseteq Message, CardGood(c, n),
         \A m : m.do # "offer" => (m \in n <=> m \in net), n \subseteq net
  PROVE  LInv'
<1>1. /\ Beside(tab, t) /\ t.card = c /\ t.picker = tab.picker /\ t.posts = tab.posts
      /\ t.out = {}
  BY Here, WithCard
<1>2. PickerGood(t.picker, n) /\ PostsGood(t.posts, n, server) /\ AnswersGood(n, server)
  BY <1>1, Here, PickerMore, PostsMore, AnswersLess
<1>3. Told(tab.room, n, server) /\ Placed(n, server)
  <2>1. \A r : Presence(r).do = "presence"
    BY DEF Presence
  <2> QED
    BY <2>1 DEF LInv, Told, Placed, EventOut
<1> QED
  BY <1>1, <1>2, <1>3, QuietKeeps

LEMMA CardTimerKeeps ==
  ASSUME LInv, CardTimer
  PROVE  LInv'
<1>1. PICK c, n, d, t : /\ c = tab.card /\ n = net /\ d = CardExpires(c)
                        /\ t = [tab EXCEPT !.card = d]
  OBVIOUS
<1>2. c \in Card /\ CardGood(c, n) /\ n \subseteq Message
  BY <1>1, Here DEF AtWork
<1>3. d \in Card /\ d.timer = d.shows /\ ~d.pending
  BY <1>1, <1>2 DEF CardExpires, Card, CardGood
<1>4. CardGood(d, n)
  BY <1>3 DEF CardGood
<1>5. Handled(t, n) /\ spent' \in 0..MaxEvents
  BY <1>1, Counted DEF CardTimer, Handled
<1> QED
  BY <1>1, <1>2, <1>3, <1>4, <1>5, CardKeeps

LEMMA OfferArrivesKeeps ==
  ASSUME LInv, NEW m \in net, OfferArrives(m)
  PROVE  LInv'
<1>1. PICK c, n, d, t : /\ c = tab.card /\ n = net \ {m}
                        /\ d = Offered(c, m.invite, Late(m.invite))
                        /\ t = [tab EXCEPT !.card = d]
  OBVIOUS
<1>2. /\ c \in Card /\ CardGood(c, net) /\ n \subseteq Message
      /\ m.do = "offer" /\ m.invite \in Invites
  BY <1>1, Here, Kinds DEF AtWork, OfferArrives
<1>3. d \in Card /\ CardGood(d, n)
  <2>1. CASE Late(m.invite)
    BY <1>1, <1>2, <2>1, CardMore DEF Offered
  <2>2. CASE ~Late(m.invite)
    BY <1>1, <1>2, <2>2 DEF Offered, Card, CardGood
  <2> QED
    BY <2>1, <2>2
<1>4. Handled(t, n) /\ spent' \in 0..MaxEvents
  BY <1>1, Counted DEF OfferArrives, Handled
<1> QED
  BY <1>1, <1>2, <1>3, <1>4, CardKeeps

(* An answer is on its way from where it was given. *)
LEMMA AnswerAdded ==
  ASSUME NEW i \in Invites, NEW from \in {"card", "post"}, NEW d \in Decisions, NEW n
  PROVE  LET m == Answer(i, from, d, "sent")
         IN m \in Message /\ m.do = "answer" /\ m.how = "sent" /\ AnswerOut(n \cup {m}, from, i)
BY MessagesTyped DEF Answer, AnswerOut

LEMMA ClickCardKeeps ==
  ASSUME LInv, NEW d \in Decisions, ClickCard(d)
  PROVE  LInv'
<1>1. PICK u, c, n, i, e, w : /\ u = tab /\ c = tab.card /\ n = net /\ i = c.shows
                              /\ e = CardClicked(c, Late(i)) /\ w = [u EXCEPT !.card = e]
  OBVIOUS
<1>2. /\ u \in AtWork /\ u.out = {} /\ c \in Card /\ CardGood(c, n) /\ n \subseteq Message
      /\ i \in Invites /\ ~c.pending /\ spent' \in 0..MaxEvents
  BY <1>1, Here, Counted DEF AtWork, ClickCard, Clicked, Card
<1>3. [tab EXCEPT !.card = CardClicked(@, Late(i))] = w
  BY <1>1
<1>4. CASE Late(i)
  <2>1. e \in Card /\ e.timer = e.shows /\ ~e.pending
    BY <1>1, <1>2, <1>4 DEF CardClicked, Card
  <2>2. Handled(w, n)
    BY <1>1, <1>3, <1>4 DEF ClickCard, Clicked, Handled
  <2>3. CardGood(e, n)
    BY <2>1 DEF CardGood
  <2> QED
    BY <1>1, <1>2, <2>1, <2>2, <2>3, CardKeeps
<1>5. CASE ~Late(i)
  <2>1. e \in Card /\ e.timer = e.shows /\ e.shows = i
    BY <1>1, <1>2, <1>5 DEF CardClicked, Card, CardGood
  <2>2. /\ Beside(u, w) /\ w.card = e /\ w.picker = u.picker /\ w.posts = u.posts /\ w.out = {}
    BY <1>1, <1>2, <2>1, WithCard
  <2>3. PICK m, k, t : m = Answer(i, "card", d, "sent") /\ k = n \cup {m} /\ t = Send(w, m)
    OBVIOUS
  <2>4. m \in Message /\ m.do = "answer" /\ m.how = "sent" /\ AnswerOut(k, "card", i)
    BY <1>2, <2>3, AnswerAdded
  <2>5. w \in AtWork
    BY <2>2 DEF Beside
  <2>6. /\ Beside(w, t) /\ t.card = w.card /\ t.picker = w.picker /\ t.posts = w.posts
        /\ t.out = {m}
    BY <2>2, <2>3, <2>4, <2>5, WithSend
  <2>7. Handled(t, n)
    BY <1>1, <1>3, <1>5, <2>3 DEF ClickCard, Clicked, Handled
  <2>8. CardGood(e, k)
    BY <2>1, <2>4 DEF CardGood
  <2>9. PickerGood(u.picker, k) /\ PostsGood(u.posts, k, server) /\ AnswersGood(k, server)
    BY <1>1, <2>3, <2>4, Here, PickerMore, PostsMore, AnswersLess
  <2>10. Told(tab.room, k, server) /\ Placed(k, server)
    BY <1>1, <2>3, <2>4, ToldMore, PlacedMore DEF LInv
  <2>11. Beside(tab, t) /\ k = n \cup t.out /\ k \subseteq Message
    BY <1>1, <1>2, <2>2, <2>3, <2>4, <2>6 DEF Beside
  <2> QED
    BY <1>2, <2>2, <2>6, <2>7, <2>8, <2>9, <2>10, <2>11, QuietKeeps
<1> QED
  BY <1>4, <1>5

(* One post changes: its buttons are off only with an answer on its way. *)
LEMMA PostKeeps ==
  ASSUME LInv, NEW i \in Invites, NEW q \in Post, NEW t, NEW n, n = net,
         t = [tab EXCEPT !.posts = [tab.posts EXCEPT ![i] = q]],
         Handled(t, n), spent' \in 0..MaxEvents,
         q.submitting => tab.posts[i].submitting, q.local = tab.posts[i].local
  PROVE  Kept
<1>1. PICK ps : ps = [tab.posts EXCEPT ![i] = q]
  OBVIOUS
<1>2. tab.posts \in [Invites -> Post]
  BY Here DEF AtWork
<1>3. ps \in [Invites -> Post] /\ ps[i] = q /\ \A j \in Invites : j # i => ps[j] = tab.posts[j]
  BY <1>1, <1>2
<1>4. /\ Beside(tab, t) /\ t.card = tab.card /\ t.picker = tab.picker /\ t.posts = ps
      /\ t.out = {}
  BY <1>1, <1>3, Here, WithPosts
<1>5. PostsGood(ps, n, server)
  BY <1>3, Here DEF PostsGood
<1> QED
  BY <1>4, <1>5, Here, QuietKeeps DEF LInv, Kept

LEMMA PostsKeep ==
  ASSUME LInv, NEW i \in Invites, PostTimer(i) \/ PostChanges(i)
  PROVE  Kept
<1>1. PICK p, n, ps : p = tab.posts[i] /\ n = net /\ ps = tab.posts
  OBVIOUS
<1>2. p \in Post /\ ps \in [Invites -> Post] /\ server.invites[i].status \in Decisions \cup {"unsent", "pending"}
  BY <1>1, Here DEF AtWork, Server
<1>3. spent' \in 0..MaxEvents
  BY Counted DEF PostTimer, PostChanges
<1>4. CASE PostTimer(i)
  <2>1. PICK q, t : q = PostExpires(p) /\ t = [tab EXCEPT !.posts = [ps EXCEPT ![i] = q]]
    OBVIOUS
  <2>2. q \in Post /\ q.submitting = p.submitting /\ q.local = p.local
    BY <1>2, <2>1 DEF PostExpires, Post
  <2>3. Handled(t, n)
    BY <1>1, <1>4, <2>1 DEF PostTimer, Handled
  <2> QED
    BY <1>1, <1>3, <2>1, <2>2, <2>3, PostKeeps
<1>5. CASE PostChanges(i)
  <2>1. PICK q, t : /\ q = PostEdited(p, server.invites[i].status)
                    /\ t = [tab EXCEPT !.posts = [ps EXCEPT ![i] = q]]
    OBVIOUS
  <2>2. q \in Post /\ q.submitting = p.submitting /\ q.local = p.local
    BY <1>2, <1>5, <2>1 DEF PostEdited, Post, PostChanges
  <2>3. Handled(t, n)
    BY <1>1, <1>5, <2>1 DEF PostChanges, Handled
  <2> QED
    BY <1>1, <1>3, <2>1, <2>2, <2>3, PostKeeps
<1> QED
  BY <1>4, <1>5

LEMMA ClickPostKeeps ==
  ASSUME LInv, NEW i \in Invites, NEW d \in Decisions, ClickPost(i, d)
  PROVE  Kept
<1>1. PICK u, p, n, ps, q, w :
        /\ u = tab /\ p = tab.posts[i] /\ n = net /\ ps = tab.posts
        /\ q = PostClicked(p, Late(i)) /\ w = [u EXCEPT !.posts = [ps EXCEPT ![i] = q]]
  OBVIOUS
<1>2. /\ u \in AtWork /\ u.out = {} /\ ps \in [Invites -> Post] /\ p \in Post
      /\ n \subseteq Message /\ spent' \in 0..MaxEvents
  BY <1>1, Here, Counted DEF AtWork, ClickPost, Clicked
<1>3. [tab EXCEPT !.posts[i] = PostClicked(@, Late(i))] = w
  BY <1>1
<1>4. q \in Post /\ q.local = p.local /\ (Late(i) => q.submitting = p.submitting)
  BY <1>1, <1>2 DEF PostClicked, Post
<1>5. CASE Late(i)
  <2>1. Handled(w, n)
    BY <1>1, <1>3, <1>5 DEF ClickPost, Clicked, Handled
  <2> QED
    BY <1>1, <1>2, <1>4, <1>5, <2>1, PostKeeps
<1>6. CASE ~Late(i)
  <2>1. PICK os : os = [ps EXCEPT ![i] = q]
    OBVIOUS
  <2>2. os \in [Invites -> Post] /\ os[i] = q /\ \A j \in Invites : j # i => os[j] = ps[j]
    BY <1>2, <1>4, <2>1
  <2>3. /\ Beside(u, w) /\ w.card = u.card /\ w.picker = u.picker /\ w.posts = os /\ w.out = {}
    BY <1>1, <1>2, <2>1, <2>2, WithPosts
  <2>4. PICK m, k, t : m = Answer(i, "post", d, "sent") /\ k = n \cup {m} /\ t = Send(w, m)
    OBVIOUS
  <2>5. m \in Message /\ m.do = "answer" /\ m.how = "sent" /\ AnswerOut(k, "post", i)
    BY <2>4, AnswerAdded
  <2>6. w \in AtWork
    BY <2>3 DEF Beside
  <2>7. /\ Beside(w, t) /\ t.card = w.card /\ t.picker = w.picker /\ t.posts = w.posts
        /\ t.out = {m}
    BY <2>3, <2>4, <2>5, <2>6, WithSend
  <2>8. Handled(t, n)
    BY <1>1, <1>3, <1>6, <2>4 DEF ClickPost, Clicked, Handled
  <2>9. PostsGood(ps, k, server)
    BY <1>1, <2>4, Here, PostsMore
  <2>10. PostsGood(os, k, server)
    BY <1>1, <1>4, <2>2, <2>5, <2>9 DEF PostsGood
  <2>11. CardGood(u.card, k) /\ PickerGood(u.picker, k) /\ AnswersGood(k, server)
    BY <1>1, <2>4, <2>5, Here, CardMore, PickerMore, AnswersLess
  <2>12. Told(tab.room, k, server) /\ Placed(k, server)
    BY <1>1, <2>4, <2>5, ToldMore, PlacedMore DEF LInv
  <2>13. Beside(tab, t) /\ k = n \cup t.out /\ k \subseteq Message
    BY <1>1, <1>2, <2>3, <2>4, <2>5, <2>7 DEF Beside
  <2> QED
    BY <1>1, <1>2, <2>3, <2>7, <2>8, <2>10, <2>11, <2>12, <2>13, QuietKeeps DEF Kept
<1> QED
  BY <1>5, <1>6

-----------------------------------------------------------------------------
(* What arrives and may change the stay. *)
LEMMA EventArrivesKeeps ==
  ASSUME LInv, NEW m \in net, NEW b \in BOOLEAN, EventArrives(m, b)
  PROVE  Kept
<1>1. PICK t, n, u : t = tab /\ n = net \ {m} /\ u = PresenceChanged(t, m, b)
  OBVIOUS
<1>2. /\ t \in AtWork /\ t.out = {} /\ Waits(t) /\ m \in EventMsg /\ m.do = "event"
      /\ spent' \in 0..MaxEvents
  BY <1>1, Here, Kinds, Counted DEF EventArrives
<1>3. /\ Stays(t, u) /\ Waits(u)
      /\ u.room = IF MovedFromThisRoom(t, m) THEN NoRoom ELSE t.room
  BY <1>1, <1>2, ChangedStays
<1>4. Handled(u, n)
  BY <1>1 DEF EventArrives, Handled
<1>5. Good(t, n, server)
  BY <1>1, <1>2, GoodLess DEF LInv, Plain
<1>6. Good(u, n \cup u.out, server)
  BY <1>2, <1>3, <1>5, GoodStays
<1>7. Placed(n, server) /\ Placed(n \cup u.out, server)
  BY <1>1, <1>2, <1>3, PlacedMore DEF LInv, Placed, Stays
<1>8. Told(u.room, n \cup u.out, server)
  <2>1. CASE MovedFromThisRoom(t, m)
    BY <1>3, <2>1, RoomsHere DEF Told
  <2>2. CASE ~MovedFromThisRoom(t, m)
    <3>1. Told(t.room, n, server)
      <4>1. t.room \in Rooms => ~(m.who = "me" /\ m.prev = t.room)
        BY <1>1, <1>2, <2>2, RoomsHere DEF MovedFromThisRoom, LInv, Placed
      <4> QED
        BY <1>1, <1>2, <4>1 DEF LInv, Told, EventOut, Presence
    <3> QED
      BY <1>3, <2>2, <3>1, ToldMore
  <2> QED
    BY <2>1, <2>2
<1> QED
  BY <1>1, <1>2, <1>3, <1>4, <1>6, <1>7, <1>8, HandledKeeps DEF Stays, Kept

LEMMA CreationHeardKeeps ==
  ASSUME LInv, NEW m \in net, NEW b \in BOOLEAN, CreationHeard(m, b)
  PROVE  Kept
<1>1. PICK v, n, t, u : /\ v = tab /\ n = net \ {m}
                        /\ t = [v EXCEPT !.list = m.of, !.form = FALSE]
                        /\ u = JoinRoom(t, m.room, b)
  OBVIOUS
<1>2. /\ v \in AtWork /\ v.out = {} /\ Waits(v) /\ m.do = "created" /\ m.room \in Places
      /\ m.of \in Directory /\ spent' \in 0..MaxEvents
  BY <1>1, Here, Kinds, Counted, RoomsHere DEF CreationHeard
<1>3. /\ Beside(v, t) /\ t.card = v.card /\ t.picker = v.picker /\ t.posts = v.posts
      /\ t.out = {}
  BY <1>1, <1>2, WithList
<1>4. t \in AtWork /\ Waits(t) /\ t.room = v.room
  BY <1>2, <1>3 DEF Beside, Waits
<1>5. Stays(t, u) /\ Waits(u)
  BY <1>1, <1>2, <1>4, JoinStays
<1>6. Handled(u, n)
  BY <1>1 DEF CreationHeard, Handled
<1>7. Good(v, n, server) /\ Told(v.room, n, server) /\ Placed(n, server)
  BY <1>1, <1>2, GoodLess, ToldLess DEF LInv, Plain, Placed
<1>8. Good(t, n, server)
  BY <1>3, <1>4, <1>7 DEF Good
<1> QED
  BY <1>1, <1>2, <1>3, <1>4, <1>5, <1>6, <1>7, <1>8, StayKeeps DEF Kept

(* The answer m has been heard: what shows it as under way no longer does,  *)
(* and what else waits, waits for another message.                          *)
HeardCard(c, m) ==
  IF m.from = "post" THEN c
  ELSE CASE m.how = "recorded" -> c
         [] m.how = "refused" -> Refused(c)
         [] OTHER -> TryAgain(c)
HeardPosts(ps, m) ==
  IF m.from = "post"
  THEN [ps EXCEPT ![m.invite] = PostAnswered(@, m.as, m.how = "recorded")]
  ELSE ps
LastCard(c, m) ==
  IF m.how = "recorded" THEN Settled(HeardCard(c, m), m.invite) ELSE HeardCard(c, m)

LEMMA HeardCardGood ==
  ASSUME NEW c \in Card, NEW n, NEW m \in AnswerMsg, CardGood(c, n)
  PROVE  LastCard(c, m) \in Card /\ CardGood(LastCard(c, m), n \ {m})
<1>1. PICK k : k = n \ {m}
  OBVIOUS
<1>2. NoCard \in Card /\ CardGood(NoCard, k) /\ ~NoCard.pending
  BY DEF NoCard, Card, CardGood
<1>3. CASE m.how = "recorded"
  <2>1. LastCard(c, m) = IF c.shows = m.invite THEN NoCard ELSE c
    BY <1>3 DEF LastCard, HeardCard, Settled
  <2>2. c.shows # m.invite => CardGood(c, k)
    BY <1>1 DEF CardGood, AnswerOut
  <2> QED
    BY <1>1, <1>2, <2>1, <2>2
<1>4. CASE m.how # "recorded" /\ m.from = "post"
  <2>1. LastCard(c, m) = c
    BY <1>4 DEF LastCard, HeardCard
  <2>2. CardGood(c, k)
    BY <1>1, <1>4 DEF CardGood, AnswerOut
  <2> QED
    BY <1>1, <2>1, <2>2
<1>5. CASE m.how = "refused" /\ m.from # "post"
  BY <1>1, <1>2, <1>5 DEF LastCard, HeardCard, Refused
<1>6. CASE m.how \notin {"recorded", "refused"} /\ m.from # "post"
  <2>1. PICK d : d = TryAgain(c)
    OBVIOUS
  <2>2. d \in Card /\ d.timer = d.shows /\ ~d.pending
    BY <2>1 DEF TryAgain, Card, CardGood
  <2>3. LastCard(c, m) = d
    BY <1>6, <2>1 DEF LastCard, HeardCard
  <2> QED
    BY <1>1, <2>2, <2>3 DEF CardGood
<1> QED
  BY <1>3, <1>4, <1>5, <1>6

LEMMA HeardPostsGood ==
  ASSUME NEW ps \in [Invites -> Post], NEW n, NEW m \in AnswerMsg, NEW s, m \in n,
         PostsGood(ps, n, s), AnswersGood(n, s)
  PROVE  HeardPosts(ps, m) \in [Invites -> Post] /\ PostsGood(HeardPosts(ps, m), n \ {m}, s)
<1>1. PICK k : k = n \ {m}
  OBVIOUS
<1>2. m.invite \in Invites /\ m.as \in Decisions /\ m.do = "answer" /\ m.how # "none"
  BY DEF AnswerMsg
<1>3. CASE m.from # "post"
  <2>1. \A i \in Invites : AnswerOut(n, "post", i) => AnswerOut(k, "post", i)
    BY <1>1, <1>3 DEF AnswerOut
  <2> QED
    BY <1>1, <1>3, <2>1 DEF HeardPosts, PostsGood
<1>4. CASE m.from = "post"
  <2>1. PICK q, os : /\ q = PostAnswered(ps[m.invite], m.as, m.how = "recorded")
                     /\ os = HeardPosts(ps, m)
    OBVIOUS
  <2>2. ps[m.invite] \in Post
    BY <1>2
  <2>3. /\ q \in Post /\ ~q.submitting
        /\ q.local = IF m.how = "recorded" THEN m.as ELSE ps[m.invite].local
    BY <1>2, <2>1, <2>2 DEF PostAnswered, Post
  <2>4. os = [ps EXCEPT ![m.invite] = q]
    BY <1>4, <2>1 DEF HeardPosts
  <2>5. /\ os \in [Invites -> Post] /\ os[m.invite] = q
        /\ \A j \in Invites : j # m.invite => os[j] = ps[j]
    BY <1>2, <2>3, <2>4
  <2>6. \A j \in Invites : j # m.invite /\ AnswerOut(n, "post", j) => AnswerOut(k, "post", j)
    BY <1>1 DEF AnswerOut
  <2>7. m.how = "recorded" => s.invites[m.invite].status = m.as
    BY <1>2 DEF AnswersGood
  <2> QED
    BY <1>1, <1>2, <2>1, <2>3, <2>5, <2>6, <2>7 DEF PostsGood
<1> QED
  BY <1>3, <1>4

LEMMA AnswerHeardKeeps ==
  ASSUME LInv, NEW m \in net, NEW b \in BOOLEAN, AnswerHeard(m, b)
  PROVE  /\ LInv' /\ tab'.card = LastCard(tab.card, m)
         /\ m.how # "recorded" => m \notin net'
<1>1. PICK v, n, c, ps, w, t :
        /\ v = tab /\ n = net \ {m} /\ c = LastCard(v.card, m) /\ ps = HeardPosts(v.posts, m)
        /\ w = [v EXCEPT !.posts = ps] /\ t = [w EXCEPT !.card = c]
  OBVIOUS
<1>2. /\ v \in AtWork /\ v.out = {} /\ Waits(v) /\ m \in AnswerMsg /\ m.do = "answer"
      /\ n \subseteq Message /\ spent' \in 0..MaxEvents
  BY <1>1, Here, Kinds, Counted DEF AnswerHeard
<1>3. v.card \in Card /\ v.posts \in [Invites -> Post]
  BY <1>2 DEF AtWork
<1>4. c \in Card /\ CardGood(c, n)
  BY <1>1, <1>2, <1>3, Here, HeardCardGood
<1>5. ps \in [Invites -> Post] /\ PostsGood(ps, n, server)
  BY <1>1, <1>2, <1>3, Here, HeardPostsGood
<1>6. /\ Beside(v, w) /\ w.card = v.card /\ w.picker = v.picker /\ w.posts = ps /\ w.out = {}
  BY <1>1, <1>2, <1>5, WithPosts
<1>7. w \in AtWork
  BY <1>6 DEF Beside
<1>8. /\ Beside(w, t) /\ t.card = c /\ t.picker = v.picker /\ t.posts = ps /\ t.out = {}
  <2>1. /\ Beside(w, t) /\ t.card = c /\ t.picker = w.picker /\ t.posts = w.posts
        /\ t.out = w.out
    <3>1. t = [w EXCEPT !.card = c] /\ c \in Card
      BY <1>1, <1>4
    <3> QED
      BY <1>7, <3>1, WithCard
  <2> QED
    BY <1>6, <2>1
<1>9. t \in AtWork /\ t.room = v.room /\ Waits(t)
  BY <1>2, <1>6, <1>8 DEF Beside, Waits
<1>10. PickerGood(v.picker, n) /\ AnswersGood(n, server)
  BY <1>1, <1>2, Here, PickerMore, AnswersLess
<1>11. Good(t, n, server)
  BY <1>2, <1>4, <1>5, <1>8, <1>9, <1>10, Here DEF Good
<1>12. Told(t.room, n, server) /\ Placed(n, server)
  BY <1>1, <1>2, <1>9, ToldLess DEF LInv, Placed
<1>13. PICK u : u = IF m.how = "recorded" /\ m.as = "accepted"
                    THEN JoinRoom(t, server.invites[m.invite].room, b) ELSE t
  OBVIOUS
<1>14. server.invites[m.invite].room \in Places
  BY <1>2, Here DEF Server, AnswerMsg
<1>15. Stays(t, u) /\ Waits(u)
  BY <1>9, <1>13, <1>14, JoinStays DEF Stays
<1>16. Handled(u, n)
  <2>1. CASE m.from = "post"
    <3>1. w = [v EXCEPT !.posts[m.invite] = PostAnswered(@, m.as, m.how = "recorded")]
      BY <1>1, <2>1 DEF HeardPosts
    <3>2. CASE m.how = "recorded"
      <4>1. t = [w EXCEPT !.card = Settled(@, m.invite)]
        BY <1>1, <1>6, <2>1, <3>2 DEF LastCard, HeardCard
      <4>2. ApplyDecision(w, m.invite, m.as, b) = u
        BY <1>13, <3>2, <4>1 DEF ApplyDecision
      <4>3. w = [tab EXCEPT !.posts[m.invite] = PostAnswered(@, m.as, TRUE)]
        BY <1>1, <3>1, <3>2
      <4>4. n = net \ {m}
        BY <1>1
      <4> QED
        BY <2>1, <3>2, <4>2, <4>3, <4>4 DEF AnswerHeard, Handled
    <3>3. CASE m.how # "recorded"
      <4>1. t = w
        BY <1>1, <1>6, <1>7, <2>1, <3>3 DEF LastCard, HeardCard, AtWork
      <4> QED
        BY <1>1, <1>13, <2>1, <3>1, <3>3, <4>1 DEF AnswerHeard, Handled
    <3> QED
      BY <3>2, <3>3
  <2>2. CASE m.from # "post"
    <3>1. w = v
      BY <1>1, <1>2, <2>2 DEF HeardPosts, AtWork
    <3>2. PICK d, x : d = HeardCard(v.card, m) /\ x = [v EXCEPT !.card = d]
      OBVIOUS
    <3>3. x = [tab EXCEPT !.card = CASE m.how = "recorded" -> @
                                     [] m.how = "refused" -> Refused(@)
                                     [] OTHER -> TryAgain(@)]
      BY <1>1, <2>2, <3>2 DEF HeardCard
    <3>4. CASE m.how = "recorded"
      <4>1. d = v.card /\ x = v
        BY <1>2, <2>2, <3>2, <3>4 DEF HeardCard, AtWork
      <4>2. t = [x EXCEPT !.card = Settled(@, m.invite)]
        BY <1>1, <3>1, <3>2, <3>4, <4>1 DEF LastCard
      <4>3. ApplyDecision(x, m.invite, m.as, b) = u
        BY <1>13, <3>4, <4>2 DEF ApplyDecision
      <4>4. x = [tab EXCEPT !.card = CASE TRUE -> @ [] m.how = "refused" -> Refused(@)
                                       [] OTHER -> TryAgain(@)]
        BY <3>3, <3>4
      <4>5. n = net \ {m}
        BY <1>1
      <4> QED
        BY <2>2, <3>4, <4>3, <4>4, <4>5 DEF AnswerHeard, Handled
    <3>5. CASE m.how # "recorded"
      <4>1. t = x
        BY <1>1, <3>1, <3>2, <3>5 DEF LastCard
      <4> QED
        BY <1>1, <1>13, <2>2, <3>3, <3>5, <4>1 DEF AnswerHeard, Handled
    <3> QED
      BY <3>4, <3>5
  <2> QED
    BY <2>1, <2>2
<1>17. LInv' /\ tab'.card = t.card
  BY <1>2, <1>8, <1>9, <1>11, <1>12, <1>15, <1>16, StayKeeps
<1>18. m.how # "recorded" => m \notin net'
  BY <1>1, <1>8, <1>13, <1>16 DEF Handled
<1> QED
  BY <1>1, <1>8, <1>17, <1>18

-----------------------------------------------------------------------------
(* The server and the friend. *)
LEMMA ServerTyped ==
  ASSUME NEW s \in Server
  PROVE  /\ s.rooms \subseteq Rooms /\ s.used \subseteq Rooms /\ s.missed \subseteq Rooms
         /\ s.late \subseteq Invites /\ s.at \in [Who -> Places]
         /\ s.invites \in [Invites -> [room : Places,
                                       status : Decisions \cup {"unsent", "pending"}]]
         /\ [rooms |-> s.rooms, at |-> s.at] \in Directory
BY DEF Server, Directory

(* Whose place changes is told so. *)
LEMMA ChangesTell ==
  ASSUME NEW before \in [Who -> Places], NEW after \in [Who -> Places]
  PROVE  /\ Changes(before, after) \subseteq Message
         /\ \A m \in Changes(before, after) : m.do = "event" /\ m.prev # m.room
         /\ before["me"] # after["me"] => EventOut(Changes(before, after), before["me"])
<1>1. \A w \in Who : Change(w, before[w], after[w]) \in Message
  BY MessagesTyped
<1>2. Changes(before, after) \subseteq Message
  BY <1>1 DEF Changes
<1>3. \A m \in Changes(before, after) : m.do = "event" /\ m.prev # m.room
  BY DEF Changes, Change
<1>4. ASSUME before["me"] # after["me"]
      PROVE  EventOut(Changes(before, after), before["me"])
  <2>1. Change("me", before["me"], after["me"]) \in Changes(before, after)
    BY <1>4 DEF Changes, Who
  <2> QED
    BY <2>1 DEF EventOut, Change
<1> QED
  BY <1>2, <1>3, <1>4

PlacesOf(s) == \A w \in Who : s.at[w] \in s.rooms \cup {NoRoom}

LEMMA BecomeTold ==
  ASSUME LInv, NEW s \in Server, NEW rest \in SUBSET Message, NEW n,
         n = rest \cup Changes(server.at, s.at), PlacesOf(s),
         server.missed \subseteq s.missed,
         \A m : m.do = "event" => (m \in rest <=> m \in net),
         tab.room \in Rooms /\ Presence(tab.room) \in net =>
           Presence(tab.room) \in rest \/ s.at["me"] = tab.room \/ tab.room \in s.missed
  PROVE  n \subseteq Message /\ Told(tab.room, n, s) /\ Placed(n, s)
<1>1. server.at \in [Who -> Places] /\ s.at \in [Who -> Places]
  BY Here, ServerTyped
<1>2. n \subseteq Message
  BY <1>1, ChangesTell
<1>3. Placed(n, s)
  BY <1>1, ChangesTell DEF Placed, PlacesOf, LInv
<1>4. ASSUME tab.room \in Rooms, server.at["me"] = tab.room, s.at["me"] # tab.room
      PROVE  EventOut(n, tab.room)
  <2>1. EventOut(Changes(server.at, s.at), tab.room)
    BY <1>1, <1>4, ChangesTell
  <2> QED
    BY <2>1 DEF EventOut
<1>5. Told(tab.room, n, s)
  BY <1>4 DEF LInv, Told, EventOut
<1> QED
  BY <1>2, <1>3, <1>5

LEMMA BecomeKeeps ==
  ASSUME LInv, NEW s \in Server, NEW rest \in SUBSET Message, Become(s, rest),
         spent' \in 0..MaxEvents, PlacesOf(s), server.missed \subseteq s.missed,
         \A m : m.do \in {"answer", "search", "invite", "event"} => (m \in rest <=> m \in net),
         \A i \in Invites : server.invites[i].status \in Decisions =>
                              s.invites[i].status = server.invites[i].status,
         tab.room \in Rooms /\ Presence(tab.room) \in net =>
           Presence(tab.room) \in rest \/ s.at["me"] = tab.room \/ tab.room \in s.missed
  PROVE  LInv'
<1>1. PICK n : n = rest \cup Changes(server.at, s.at)
  OBVIOUS
<1>2. server' = s /\ net' = n /\ tab' = tab
  BY <1>1 DEF Become
<1>3. n \subseteq Message /\ Told(tab.room, n, s) /\ Placed(n, s)
  <2>1. \A m : m.do = "event" => (m \in rest <=> m \in net)
    OBVIOUS
  <2> QED
    BY <1>1, <2>1, BecomeTold
<1>4. \A m \in Changes(server.at, s.at) : m.do = "event"
  BY Here, ServerTyped, ChangesTell
<1>5. \A m : m.do \in {"answer", "search", "invite"} => (m \in n <=> m \in net)
  BY <1>1, <1>4
<1>6. CardGood(tab.card, n) /\ PickerGood(tab.picker, n) /\ PostsGood(tab.posts, n, server)
      /\ AnswersGood(n, server)
  BY <1>5, Here, CardMore, PickerMore, PostsMore, AnswersLess
<1>7. PostsGood(tab.posts, n, s)
  <2>1. \A i \in Invites : tab.posts[i].local \in Decisions \cup {"none"}
    BY Here DEF AtWork, Post
  <2> QED
    BY <1>6, <2>1 DEF PostsGood
<1>8. AnswersGood(n, s)
  <2>1. \A m \in n : m.do = "answer" => m.invite \in Invites /\ m.as \in Decisions
    BY <1>3, Kinds DEF AnswerMsg
  <2> QED
    BY <1>6, <2>1 DEF AnswersGood
<1>9. Good(tab, n, s)
  BY <1>3, <1>6, <1>7, <1>8, Here DEF Good
<1> QED
  BY <1>2, <1>3, <1>9 DEF LInv

(* A request is answered with a copy of the directory, or not. *)
LEMMA AnsweredKeeps ==
  ASSUME LInv, NEW m, m.do \in {"get", "presence", "delete"}, NEW s \in Server,
         NEW how \in Outcomes, Answered(m, s, how), PlacesOf(s),
         s.missed = server.missed, s.invites = server.invites,
         m.do # "presence" \/ how # "failed", m.do # "presence" \/ s.at["me"] = m.room
  PROVE  LInv'
<1>1. PICK x, k, rest :
        /\ x = IF how = "failed" THEN server ELSE s
        /\ k = Copy([rooms |-> s.rooms, at |-> s.at])
        /\ rest = (net \ {m}) \cup (IF how = "heard" THEN {k} ELSE {})
  OBVIOUS
<1>2. k \in Message /\ k.do = "copy"
  BY <1>1, ServerTyped, MessagesTyped DEF Copy
<1>3. x \in Server /\ PlacesOf(x) /\ x.missed = server.missed /\ x.invites = server.invites
  BY <1>1, Here DEF PlacesOf, LInv, Placed
<1>4. Become(x, rest) /\ spent' \in 0..MaxEvents
  BY <1>1, Counted DEF Answered, Become
<1>5. rest \in SUBSET Message
  BY <1>1, <1>2, Here
<1>6. \A y : y.do \in {"answer", "search", "invite", "event"} => (y \in rest <=> y \in net)
  BY <1>1, <1>2
<1>7. tab.room \in Rooms /\ Presence(tab.room) \in net =>
        Presence(tab.room) \in rest \/ x.at["me"] = tab.room \/ tab.room \in x.missed
  BY <1>1 DEF Presence
<1> QED
  BY <1>3, <1>4, <1>5, <1>6, <1>7, BecomeKeeps

LEMMA ServeGetKeeps ==
  ASSUME LInv, NEW how \in Outcomes, ServeGet(how)
  PROVE  LInv'
<1>1. Get.do = "get"
  BY DEF Get
<1>2. server \in Server /\ PlacesOf(server)
  BY Here DEF PlacesOf, LInv, Placed
<1>3. PICK m, s : m = Get /\ s = server
  OBVIOUS
<1>4. Answered(m, s, how)
  BY <1>3 DEF ServeGet, Answered, Become
<1> QED
  BY <1>1, <1>2, <1>3, <1>4, AnsweredKeeps

LEMMA ServePresenceKeeps ==
  ASSUME LInv, NEW m \in net, NEW how \in Outcomes, ServePresence(m, how)
  PROVE  LInv'
<1>1. /\ m.do = "presence" /\ m.room \in Places /\ server \in Server /\ net \subseteq Message
      /\ PlacesOf(server) /\ "me" \in Who
  BY Here, Kinds DEF ServePresence, PlacesOf, LInv, Placed, Who
<1>2. CASE m.room \in server.rooms \cup {NoRoom} /\ how # "failed"
  <2>1. PICK s : s = [server EXCEPT !.at["me"] = m.room]
    OBVIOUS
  <2>2. /\ s \in Server /\ s.rooms = server.rooms /\ s.missed = server.missed
        /\ s.invites = server.invites /\ s.at = [server.at EXCEPT !["me"] = m.room]
    BY <1>1, <2>1 DEF Server
  <2>3. PlacesOf(s) /\ s.at["me"] = m.room
    BY <1>1, <1>2, <2>2, ServerTyped DEF PlacesOf
  <2>4. Answered(m, s, how)
    BY <1>2, <2>1 DEF ServePresence, Answered, Become
  <2>5. m.do \in {"get", "presence", "delete"} /\ how # "failed"
    BY <1>1, <1>2
  <2> QED
    <3>1. /\ s \in Server /\ PlacesOf(s) /\ s.missed = server.missed
          /\ s.invites = server.invites /\ s.at["me"] = m.room
      BY <2>2, <2>3
    <3> QED
      BY <2>4, <2>5, <3>1, AnsweredKeeps
<1>3. CASE ~(m.room \in server.rooms \cup {NoRoom} /\ how # "failed")
  <2>1. PICK s, rest : /\ s = [server EXCEPT !.missed = @ \cup ({m.room} \ {NoRoom})]
                       /\ rest = net \ {m}
    OBVIOUS
  <2>2. m.room \in Rooms \cup {NoRoom}
    BY <1>1 DEF Places
  <2>3. /\ s \in Server /\ s.rooms = server.rooms /\ s.at = server.at
        /\ s.missed = server.missed \cup ({m.room} \ {NoRoom})
        /\ s.invites = server.invites
    BY <1>1, <2>1, <2>2 DEF Server
  <2>4. PlacesOf(s)
    BY <1>1, <2>3 DEF PlacesOf
  <2>5. Become(s, rest) /\ spent' \in 0..MaxEvents
    BY <1>3, <2>1, Counted DEF ServePresence, Become
  <2>6. tab.room \in Rooms /\ Presence(tab.room) \in net =>
          Presence(tab.room) \in rest \/ s.at["me"] = tab.room \/ tab.room \in s.missed
    BY <2>1, <2>3, RoomsHere DEF Presence
  <2>7. rest \in SUBSET Message
        /\ \A y : y.do \in {"answer", "search", "invite", "event"} => (y \in rest <=> y \in net)
    BY <1>1, <2>1
  <2> QED
    BY <2>3, <2>4, <2>5, <2>6, <2>7, BecomeKeeps
<1> QED
  BY <1>2, <1>3

(* Rooms that come and go. *)
LEMMA RoomsChange ==
  ASSUME LInv, NEW r \in Rooms
  PROVE  /\ Without(r) \in Server /\ PlacesOf(Without(r))
         /\ Without(r).missed = server.missed /\ Without(r).invites = server.invites
         /\ With(r) \in Server /\ PlacesOf(With(r))
         /\ With(r).missed = server.missed /\ With(r).invites = server.invites
         /\ With(r).at = server.at
<1>1. server \in Server /\ PlacesOf(server) /\ server.at \in [Who -> Places]
  BY Here, ServerTyped DEF PlacesOf, LInv, Placed
<1>2. PICK a : a = [w \in Who |-> IF server.at[w] = r THEN NoRoom ELSE server.at[w]]
  OBVIOUS
<1>3. a \in [Who -> Places] /\ \A w \in Who : a[w] # r /\ (a[w] = server.at[w] \/ a[w] = NoRoom)
  BY <1>1, <1>2, RoomsHere
<1>4. PICK s : s = Without(r)
  OBVIOUS
<1>5. /\ s \in Server /\ s.rooms = server.rooms \ {r} /\ s.at = a
      /\ s.missed = server.missed /\ s.invites = server.invites
  BY <1>1, <1>2, <1>3, <1>4 DEF Without, Server
<1>6. PlacesOf(s)
  BY <1>1, <1>3, <1>5 DEF PlacesOf
<1>7. PICK x : x = With(r)
  OBVIOUS
<1>8. /\ x \in Server /\ x.rooms = server.rooms \cup {r} /\ x.at = server.at
      /\ x.missed = server.missed /\ x.invites = server.invites
  BY <1>1, <1>7 DEF With, Server
<1>9. PlacesOf(x)
  BY <1>1, <1>8 DEF PlacesOf
<1> QED
  BY <1>4, <1>5, <1>6, <1>7, <1>8, <1>9

LEMMA ServeDeletionKeeps ==
  ASSUME LInv, NEW m \in net, NEW how \in Outcomes, ServeDeletion(m, how)
  PROVE  LInv'
<1>1. m.do = "delete" /\ m.room \in Rooms
  BY Here, Kinds DEF ServeDeletion
<1>2. PICK s : s = Without(m.room)
  OBVIOUS
<1>3. Answered(m, s, how)
  BY <1>2 DEF ServeDeletion, Answered, Become
<1> QED
  BY <1>1, <1>2, <1>3, RoomsChange, AnsweredKeeps

(* A step of the server that keeps what is on its way. *)
LEMMA MoreKeeps ==
  ASSUME LInv, NEW s \in Server, NEW k \in SUBSET Message, NEW rest,
         rest = net \cup k, Become(s, rest),
         spent' \in 0..MaxEvents, PlacesOf(s), server.missed \subseteq s.missed,
         \A m \in k : m.do \in Plain /\ m.do # "event",
         \A i \in Invites : server.invites[i].status \in Decisions =>
                              s.invites[i].status = server.invites[i].status
  PROVE  LInv'
<1>1. rest \in SUBSET Message
  BY Here
<1>2. \A m : m.do \in {"answer", "search", "invite", "event"} => (m \in rest <=> m \in net)
  BY DEF Plain
<1> QED
  BY <1>1, <1>2, BecomeKeeps

LEMMA ServeCreationKeeps ==
  ASSUME LInv, NEW m \in net, NEW how \in Outcomes, ServeCreation(m, how)
  PROVE  LInv'
<1>1. m.do = "create" /\ m.room \in Rooms /\ net \subseteq Message /\ server \in Server
      /\ PlacesOf(server)
  BY Here, Kinds DEF ServeCreation, PlacesOf, LInv, Placed
<1>2. PICK s, x, k, rest :
        /\ s = With(m.room) /\ x = IF how = "failed" THEN server ELSE s
        /\ k = Created(m.room, [rooms |-> s.rooms, at |-> s.at])
        /\ rest = (net \ {m}) \cup (IF how # "heard" THEN {} ELSE {k})
  OBVIOUS
<1>3. s \in Server /\ PlacesOf(s) /\ s.missed = server.missed /\ s.invites = server.invites
  BY <1>1, <1>2, RoomsChange
<1>4. k \in Message /\ k.do = "created"
  BY <1>1, <1>2, <1>3, ServerTyped, MessagesTyped DEF Created
<1>5. Become(x, rest) /\ spent' \in 0..MaxEvents
  BY <1>2, Counted DEF ServeCreation, Become
<1>6. /\ x \in Server /\ PlacesOf(x) /\ x.missed = server.missed
      /\ x.invites = server.invites
  BY <1>1, <1>2, <1>3
<1>7. /\ rest \in SUBSET Message
      /\ \A y : y.do \in {"answer", "search", "invite", "event"} => (y \in rest <=> y \in net)
  BY <1>1, <1>2, <1>4
<1>8. Presence(tab.room) \in net => Presence(tab.room) \in rest
  BY <1>1, <1>2 DEF Presence
<1> QED
  BY <1>5, <1>6, <1>7, <1>8, BecomeKeeps

(* respond: a decision that stands stays. *)
LEMMA ServeAnswerKeeps ==
  ASSUME LInv, NEW m \in net, NEW how \in Outcomes, ServeAnswer(m, how)
  PROVE  LInv'
<1>1. PICK i, v : i = m.invite /\ v = Verdict(i, m.as)
  OBVIOUS
<1>2. PICK s, a, rest :
        /\ s = IF how # "failed" /\ v = "recorded"
               THEN [server EXCEPT !.invites[i].status = m.as] ELSE server
        /\ a = [m EXCEPT !.how = IF how = "heard" THEN v ELSE "lost"]
        /\ rest = (net \ {m}) \cup {a}
  OBVIOUS
<1>3. /\ m.do = "answer" /\ m \in AnswerMsg /\ m.how = "sent" /\ i \in Invites
      /\ m.as \in Decisions /\ net \subseteq Message /\ server \in Server /\ PlacesOf(server)
      /\ v \in {"recorded", "refused"}
  BY <1>1, Here, Kinds DEF ServeAnswer, AnswerMsg, PlacesOf, LInv, Placed, Verdict
<1>4. /\ a \in Message /\ a.do = "answer" /\ a.invite = i /\ a.from = m.from /\ a.as = m.as
      /\ (a.how = "recorded" => how = "heard" /\ v = "recorded")
  <2>1. PICK x : x = IF how = "heard" THEN v ELSE "lost"
    OBVIOUS
  <2>2. x \in {"sent", "recorded", "refused", "lost"}
    BY <1>3, <2>1
  <2>3. a = [m EXCEPT !.how = x]
    BY <1>2, <2>1
  <2>4. /\ a \in AnswerMsg /\ a.do = "answer" /\ a.invite = m.invite /\ a.from = m.from
        /\ a.as = m.as /\ a.how = x
    BY <1>3, <2>2, <2>3 DEF AnswerMsg
  <2>5. a \in Message
    BY <2>4 DEF AnswerMsg, Message
  <2> QED
    BY <1>1, <2>1, <2>4, <2>5
<1>5. /\ s \in Server /\ s.rooms = server.rooms /\ s.at = server.at
      /\ s.missed = server.missed
      /\ \A j \in Invites : j # i => s.invites[j] = server.invites[j]
      /\ (how # "failed" /\ v = "recorded" => s.invites[i].status = m.as)
      /\ (~(how # "failed" /\ v = "recorded") => s.invites = server.invites)
  <2>1. CASE how # "failed" /\ v = "recorded"
    <3>1. PICK w : w = [server.invites EXCEPT ![i].status = m.as]
      OBVIOUS
    <3>2. /\ w \in [Invites -> [room : Places, status : Decisions \cup {"unsent", "pending"}]]
          /\ w[i].status = m.as /\ \A j \in Invites : j # i => w[j] = server.invites[j]
      BY <1>3, <3>1, ServerTyped
    <3>3. s = [server EXCEPT !.invites = w]
      BY <1>2, <2>1, <3>1
    <3> QED
      BY <1>3, <2>1, <3>2, <3>3 DEF Server
  <2>2. CASE ~(how # "failed" /\ v = "recorded")
    BY <1>2, <1>3, <2>2
  <2> QED
    BY <2>1, <2>2
<1>6. \A j \in Invites : server.invites[j].status \in Decisions =>
                           s.invites[j].status = server.invites[j].status
  <2>1. v = "recorded" /\ server.invites[i].status \in Decisions =>
          server.invites[i].status = m.as
    BY <1>1 DEF Verdict, Decisions
  <2> QED
    BY <1>5, <2>1
<1>7. Become(s, rest) /\ spent' \in 0..MaxEvents
  BY <1>1, <1>2, Counted DEF ServeAnswer, Become
<1>8. PICK n : n = rest \cup Changes(server.at, s.at)
  OBVIOUS
<1>9. server' = s /\ net' = n /\ tab' = tab
  BY <1>7, <1>8 DEF Become
<1>10. n = rest /\ PlacesOf(s)
  BY <1>3, <1>5, <1>8 DEF Changes, PlacesOf
<1>11. n \subseteq Message /\ Told(tab.room, n, s) /\ Placed(n, s)
  <2>1. rest \in SUBSET Message
    BY <1>2, <1>3, <1>4
  <2>2. \A y : y.do = "event" => (y \in rest <=> y \in net)
    BY <1>2, <1>3, <1>4
  <2>3. Presence(tab.room) \in net => Presence(tab.room) \in rest
    BY <1>2, <1>3 DEF Presence
  <2> QED
    BY <1>5, <1>8, <1>10, <2>1, <2>2, <2>3, BecomeTold
<1>12. \A from \in {"card", "post"} : \A j : AnswerOut(net, from, j) => AnswerOut(n, from, j)
  <2> SUFFICES ASSUME NEW from \in {"card", "post"}, NEW j, NEW y \in net,
                      y.do = "answer", y.from = from, y.invite = j
               PROVE  AnswerOut(n, from, j)
    BY DEF AnswerOut
  <2>1. a \in n /\ (y # m => y \in n)
    BY <1>2, <1>10
  <2>2. CASE y = m
    BY <1>1, <1>4, <2>1, <2>2 DEF AnswerOut
  <2>3. CASE y # m
    BY <2>1, <2>3 DEF AnswerOut
  <2> QED
    BY <2>2, <2>3
<1>13. CardGood(tab.card, n)
  BY <1>12, Here DEF CardGood
<1>14. PickerGood(tab.picker, n)
  <2>1. \A y : y.do \in {"search", "invite"} => (y \in n <=> y \in net)
    BY <1>2, <1>3, <1>4, <1>10
  <2>2. PickerGood(tab.picker, net)
    BY Here
  <2> QED
    BY <2>1, <2>2, PickerMore
<1>15. PostsGood(tab.posts, n, s)
  <2>1. \A j \in Invites : tab.posts[j].local \in Decisions \cup {"none"}
    BY Here DEF AtWork, Post
  <2> QED
    BY <1>6, <1>12, <2>1, Here DEF PostsGood
<1>16. AnswersGood(n, s)
  <2> SUFFICES ASSUME NEW y \in n, y.do = "answer", y.how = "recorded"
               PROVE  s.invites[y.invite].status = y.as
    BY DEF AnswersGood
  <2>1. y = a \/ y \in net
    BY <1>2, <1>10
  <2>2. CASE y = a
    BY <1>4, <1>5, <2>2
  <2>3. CASE y \in net
    <3>1. y.invite \in Invites /\ y.as \in Decisions
      BY <1>3, <2>3, Kinds DEF AnswerMsg
    <3> QED
      BY <1>6, <2>3, <3>1, Here DEF AnswersGood
  <2> QED
    BY <2>1, <2>2, <2>3
<1> QED
  BY <1>5, <1>7, <1>9, <1>11, <1>13, <1>14, <1>15, <1>16, Here DEF Good, LInv

LEMMA FriendKeeps ==
  ASSUME LInv,
         \/ \E r \in Rooms \cup {NoRoom} : FriendMoves(r)
         \/ \E r \in Rooms : FriendCreates(r) \/ FriendDeletes(r)
         \/ \E i \in Invites : FriendInvites(i) \/ TimeUp(i)
  PROVE  LInv'
<1>1. server \in Server /\ PlacesOf(server) /\ server.at \in [Who -> Places]
      /\ {} \in SUBSET Message /\ net \cup {} = net /\ "friend" \in Who
  BY Here, ServerTyped DEF PlacesOf, LInv, Placed, Who
<1>2. ASSUME NEW r \in Rooms \cup {NoRoom}, FriendMoves(r) PROVE LInv'
  <2>1. PICK s, n : s = [server EXCEPT !.at["friend"] = r] /\ n = net
    OBVIOUS
  <2>2. /\ s \in Server /\ s.rooms = server.rooms /\ s.missed = server.missed
        /\ s.invites = server.invites /\ s.at = [server.at EXCEPT !["friend"] = r]
    BY <1>1, <2>1 DEF Server, Places
  <2>3. PlacesOf(s)
    BY <1>1, <1>2, <2>2 DEF PlacesOf, FriendMoves
  <2>4. Become(s, n) /\ spent' \in 0..MaxEvents
    BY <1>2, <2>1, Counted DEF FriendMoves, Become
  <2> QED
    BY <1>1, <2>1, <2>2, <2>3, <2>4, MoreKeeps
<1>3. ASSUME NEW r \in Rooms, FriendCreates(r) \/ FriendDeletes(r) PROVE LInv'
  <2>1. CASE FriendCreates(r)
    <3>1. PICK s, n : s = With(r) /\ n = net
      OBVIOUS
    <3>2. Become(s, n) /\ spent' \in 0..MaxEvents
      BY <2>1, <3>1, Counted DEF FriendCreates, Become
    <3> QED
      BY <1>1, <3>1, <3>2, RoomsChange, MoreKeeps
  <2>2. CASE FriendDeletes(r)
    <3>1. PICK s, n : s = Without(r) /\ n = net
      OBVIOUS
    <3>2. Become(s, n) /\ spent' \in 0..MaxEvents
      BY <2>2, <3>1, Counted DEF FriendDeletes, Become
    <3> QED
      BY <1>1, <3>1, <3>2, RoomsChange, MoreKeeps
  <2> QED
    BY <1>3, <2>1, <2>2
<1>4. ASSUME NEW i \in Invites, FriendInvites(i) PROVE LInv'
  <2>1. PICK r : r = server.at["friend"]
    OBVIOUS
  <2>2. PICK w, s, k, n :
          /\ w = [server.invites EXCEPT ![i] = [room |-> r, status |-> "pending"]]
          /\ s = [server EXCEPT !.invites = w] /\ k = {Offer(i)} /\ n = net \cup k
    OBVIOUS
  <2>3. /\ w \in [Invites -> [room : Places, status : Decisions \cup {"unsent", "pending"}]]
        /\ \A j \in Invites : j # i => w[j] = server.invites[j]
    BY <1>1, <2>1, <2>2, ServerTyped
  <2>4. /\ s \in Server /\ s.rooms = server.rooms /\ s.missed = server.missed
        /\ s.invites = w /\ s.at = server.at
    BY <1>1, <2>2, <2>3 DEF Server
  <2>5. k \in SUBSET Message /\ \A m \in k : m.do = "offer"
    BY <2>2, MessagesTyped DEF Offer
  <2>6. server.invites[i].status = "unsent" /\ Become(s, n) /\ spent' \in 0..MaxEvents
    BY <1>4, <2>1, <2>2, Counted DEF FriendInvites, Become
  <2>7. PlacesOf(s)
    BY <1>1, <2>4 DEF PlacesOf
  <2>8. \A m \in k : m.do \in Plain /\ m.do # "event"
    BY <2>5 DEF Plain
  <2>9. \A j \in Invites : server.invites[j].status \in Decisions =>
                             s.invites[j].status = server.invites[j].status
    BY <2>3, <2>4, <2>6 DEF Decisions
  <2>10. n = net \cup k /\ server.missed \subseteq s.missed
    BY <2>2, <2>4
  <2> QED
    BY <2>4, <2>5, <2>6, <2>7, <2>8, <2>9, <2>10, MoreKeeps
<1>5. ASSUME NEW i \in Invites, TimeUp(i) PROVE LInv'
  <2>1. PICK s, n : s = [server EXCEPT !.late = @ \cup {i}] /\ n = net
    OBVIOUS
  <2>2. /\ s \in Server /\ s.rooms = server.rooms /\ s.missed = server.missed
        /\ s.invites = server.invites /\ s.at = server.at
    BY <1>1, <2>1 DEF Server
  <2>3. PlacesOf(s)
    BY <1>1, <2>2 DEF PlacesOf
  <2>4. Become(s, n) /\ spent' \in 0..MaxEvents
    BY <1>5, <2>1, Counted DEF TimeUp, Become
  <2> QED
    BY <1>1, <2>1, <2>2, <2>3, <2>4, MoreKeeps
<1> QED
  BY <1>2, <1>3, <1>4, <1>5

-----------------------------------------------------------------------------
LEMMA LobbyBegins == Init => LInv
<1> SUFFICES ASSUME Init PROVE LInv
  OBVIOUS
<1>1. PICK r \in FirstRooms \cup {NoRoom} :
        server = [rooms |-> FirstRooms, used |-> FirstRooms, late |-> {}, missed |-> {},
                  at |-> [w \in Who |-> IF w = "me" THEN NoRoom ELSE r],
                  invites |-> [i \in Invites |-> [room |-> NoRoom, status |-> "unsent"]]]
  BY DEF Init
<1>2. server \in Server /\ server.missed = {} /\ server.rooms = FirstRooms
      /\ \A w \in Who : server.at[w] \in server.rooms \cup {NoRoom}
  BY <1>1, LobbyAssumption DEF Server, Places
<1>3. NoCard \in Card /\ NoPicker \in Picker /\ NewPost \in Post
  BY DEF NoCard, Card, NoPicker, Picker, NewPost, Post
<1>4. [rooms |-> {}, at |-> [w \in Who |-> NoRoom]] \in Directory
  BY RoomsHere DEF Directory
<1>5. tab \in Panel /\ tab.posts = [i \in Invites |-> NewPost] /\ tab.card = NoCard
      /\ tab.picker = NoPicker /\ tab.next = NoRoom /\ tab.room = NoRoom /\ tab.deleting = {}
  BY <1>3, <1>4, RoomsHere DEF Init, Panel
<1>6. net = {Get} /\ Get \in Message /\ Get.do = "get" /\ spent = 0
  BY MessagesTyped DEF Init, Get
<1>7. CardGood(tab.card, net) /\ PickerGood(tab.picker, net)
  BY <1>5 DEF CardGood, NoCard, PickerGood, LatestOf, Shown, NoPicker
<1>8. PostsGood(tab.posts, net, server) /\ AnswersGood(net, server)
  BY <1>5, <1>6 DEF PostsGood, NewPost, AnswersGood
<1>9. Told(tab.room, net, server) /\ Placed(net, server)
  BY <1>2, <1>5, <1>6, RoomsHere DEF Told, Placed
<1>10. Good(tab, net, server)
  BY <1>2, <1>5, <1>6, <1>7, <1>8, PanelAtWork DEF Good, Waits
<1> QED
  BY <1>5, <1>6, <1>9, <1>10, LobbyAssumption DEF LInv

LEMMA LobbyStep == LInv /\ [Next]_vars => LInv'
<1> SUFFICES ASSUME LInv, [Next]_vars PROVE LInv'
  OBVIOUS
<1>1. CASE Click
  <2>1. ASSUME NEW r \in Rooms, NEW b \in BOOLEAN, ClickJoin(r, b) \/ DeleteRoomFromMenu(r, b)
        PROVE  LInv'
    BY <2>1, StayClicks DEF Kept
  <2>2. ASSUME NEW b \in BOOLEAN, ClickLeave(b) PROVE LInv'
    <3>1. tab.room \in Rooms
      BY <2>2, Here DEF ClickLeave, AtWork, Places
    <3> QED
      BY <2>2, <3>1, StayClicks DEF Kept
  <2>3. ASSUME NEW r \in Rooms, ToggleRoomMenu(r) \/ RoomRowLeave(r) \/ CreateChannel(r)
        PROVE  LInv'
    BY <2>3, MenusKeep, ListKeeps DEF Kept
  <2>4. CASE ToggleCreate \/ ToggleInvitePicker \/ ClickOutside \/ SendVoiceInvite
    BY <2>4, ListKeeps, DialogKeeps, SendVoiceInviteKeeps DEF Kept
  <2>5. ASSUME NEW term \in Terms \cup {NoTerm}, TypeSearch(term) PROVE LInv'
    BY <2>5, TypeSearchKeeps DEF Kept
  <2>6. ASSUME NEW d \in Decisions, ClickCard(d) PROVE LInv'
    BY <2>6, ClickCardKeeps
  <2>7. ASSUME NEW d \in Decisions, NEW i \in Invites, ClickPost(i, d) PROVE LInv'
    BY <2>7, ClickPostKeeps DEF Kept
  <2> QED
    BY <1>1, <2>1, <2>2, <2>3, <2>4, <2>5, <2>6, <2>7 DEF Click
<1>2. CASE Arrival
  <2>1. CASE SessionFree
    BY <2>1, SessionFreeKeeps DEF Kept
  <2>2. CASE CardTimer \/ Poll
    BY <2>2, CardTimerKeeps, ListKeeps DEF Kept
  <2>3. ASSUME NEW i \in Invites, PostTimer(i) \/ PostChanges(i) PROVE LInv'
    BY <2>3, PostsKeep DEF Kept
  <2>4. ASSUME NEW m \in net, ApplyRooms(m) \/ OfferArrives(m) \/ InviteEnds(m) PROVE LInv'
    BY <2>4, ListKeeps, OfferArrivesKeeps, InviteEndsKeeps DEF Kept
  <2>5. ASSUME NEW m \in net, NEW b \in BOOLEAN,
               EventArrives(m, b) \/ AnswerHeard(m, b) \/ CreationHeard(m, b)
        PROVE  LInv'
    BY <2>5, EventArrivesKeeps, AnswerHeardKeeps, CreationHeardKeeps DEF Kept
  <2>6. ASSUME NEW m \in net, NEW b \in BOOLEAN, SearchEnds(m, b) PROVE LInv'
    BY <2>6, SearchEndsKeeps DEF Kept
  <2> QED
    BY <1>2, <2>1, <2>2, <2>3, <2>4, <2>5, <2>6 DEF Arrival
<1>3. CASE Outside
  <2>1. ASSUME NEW how \in Outcomes, ServeGet(how) PROVE LInv'
    BY <2>1, ServeGetKeeps
  <2>2. ASSUME NEW how \in Outcomes, NEW m \in net,
               \/ ServePresence(m, how) \/ ServeDeletion(m, how)
               \/ ServeCreation(m, how) \/ ServeAnswer(m, how)
        PROVE  LInv'
    BY <2>2, ServePresenceKeeps, ServeDeletionKeeps, ServeCreationKeeps, ServeAnswerKeeps
  <2>3. ASSUME NEW r \in Rooms, FriendMoves(r) \/ FriendCreates(r) \/ FriendDeletes(r)
        PROVE  LInv'
    BY <2>3, FriendKeeps
  <2>4. CASE FriendMoves(NoRoom)
    BY <2>4, FriendKeeps
  <2>5. ASSUME NEW i \in Invites, FriendInvites(i) \/ TimeUp(i) PROVE LInv'
    BY <2>5, FriendKeeps
  <2> QED
    BY <1>3, <2>1, <2>2, <2>3, <2>4, <2>5 DEF Outside
<1>4. CASE UNCHANGED vars
  BY <1>4 DEF vars, LInv
<1> QED
  BY <1>1, <1>2, <1>3, <1>4 DEF Next

LEMMA LobbyHolds == Spec => []LInv
BY LobbyBegins, LobbyStep, PTL DEF Spec

-----------------------------------------------------------------------------
(* Why the card no longer shows what it showed. *)
Cause ==
  LET i == tab.card.shows IN
  i # NoInvite /\ tab'.card.shows # i =>
    \/ tab'.card.shows # NoInvite
    \/ Late(i)
    \/ server.invites[i].status \in Decisions
    \/ \E m \in net \ net' : m.do = "answer" /\ m.from = "card" /\ m.how = "refused"

LEMMA KeptCard == tab'.card = tab.card => Cause
BY DEF Cause

LEMMA CardTimerCause ==
  ASSUME LInv, CardTimer
  PROVE  Cause
BY Here DEF CardTimer, CardGood, Cause

LEMMA ClickCardCause ==
  ASSUME LInv, NEW d \in Decisions, ClickCard(d)
  PROVE  Cause
<1>1. CASE Late(tab.card.shows)
  BY <1>1 DEF Cause
<1>2. CASE ~Late(tab.card.shows)
  <2>1. PICK u, c, i, w, t :
          /\ u = tab /\ c = CardClicked(tab.card, FALSE) /\ i = tab.card.shows
          /\ w = [u EXCEPT !.card = c] /\ t = Send(w, Answer(i, "card", d, "sent"))
    OBVIOUS
  <2>2. u \in AtWork /\ tab.card \in Card
    BY <2>1, Here DEF AtWork
  <2>3. c.shows = i /\ c \in Card
    BY <2>1, <2>2 DEF CardClicked, Card
  <2>4. t.card = c /\ [t EXCEPT !.out = {}].card = c
    BY <2>1, <2>2 DEF Send, AtWork
  <2>5. Handled(t, net)
    BY <1>2, <2>1 DEF ClickCard, Clicked, CardClicked, Handled
  <2>6. tab'.card = c
    BY <2>4, <2>5 DEF Handled
  <2> QED
    BY <2>1, <2>3, <2>6 DEF Cause
<1> QED
  BY <1>1, <1>2

LEMMA OfferArrivesCause ==
  ASSUME LInv, NEW m \in net, OfferArrives(m)
  PROVE  Cause
<1>1. PICK u, c, t : /\ u = tab /\ c = Offered(tab.card, m.invite, Late(m.invite))
                     /\ t = [u EXCEPT !.card = c]
  OBVIOUS
<1>2. u \in AtWork /\ m.invite \in Invites
  BY <1>1, Here, Kinds DEF OfferArrives
<1>3. Handled(t, net \ {m})
  BY <1>1 DEF OfferArrives, Handled
<1>4. [t EXCEPT !.out = {}].card = c
  BY <1>1, <1>2 DEF AtWork
<1>5. tab'.card = c
  BY <1>3, <1>4 DEF Handled
<1> QED
  BY <1>1, <1>2, <1>5, CardAssumption DEF Offered, Cause

LEMMA AnswerHeardCause ==
  ASSUME LInv, NEW m \in net, NEW b \in BOOLEAN, AnswerHeard(m, b)
  PROVE  Cause
<1>1. tab'.card = LastCard(tab.card, m) /\ (m.how # "recorded" => m \notin net')
  BY AnswerHeardKeeps
<1>2. m.do = "answer" /\ m \in AnswerMsg /\ AnswersGood(net, server)
  BY Here, Kinds DEF AnswerHeard
<1>3. CASE m.how = "recorded"
  <2>1. server.invites[m.invite].status \in Decisions
    BY <1>2, <1>3 DEF AnswersGood, AnswerMsg
  <2>2. LastCard(tab.card, m) = Settled(tab.card, m.invite)
    BY <1>3 DEF LastCard, HeardCard
  <2> QED
    BY <1>1, <2>1, <2>2 DEF Settled, Cause
<1>4. CASE m.how = "refused"
  <2>1. m.from = "post" => LastCard(tab.card, m) = tab.card
    BY <1>4 DEF LastCard, HeardCard
  <2>2. m.from # "post" => m.from = "card" /\ m \in net \ net'
    BY <1>1, <1>2, <1>4 DEF AnswerMsg
  <2> QED
    BY <1>1, <1>2, <1>4, <2>1, <2>2 DEF Cause
<1>5. CASE m.how \notin {"recorded", "refused"}
  <2>1. tab.card \in Card
    BY Here DEF AtWork
  <2>2. PICK c : c = tab.card
    OBVIOUS
  <2>3. LastCard(c, m) = c \/ LastCard(c, m) = [c EXCEPT !.pending = FALSE]
    BY <1>5 DEF LastCard, HeardCard, TryAgain
  <2>4. [c EXCEPT !.pending = FALSE].shows = c.shows
    BY <2>1, <2>2 DEF Card
  <2>5. LastCard(tab.card, m).shows = tab.card.shows
    BY <2>2, <2>3, <2>4
  <2> QED
    BY <1>1, <2>5 DEF Cause
<1> QED
  BY <1>3, <1>4, <1>5

LEMMA OutsideCause ==
  ASSUME Outside
  PROVE  tab' = tab
<1>1. \A s, rest : Become(s, rest) => tab' = tab
  BY DEF Become
<1>2. \A m, s, how : Answered(m, s, how) => tab' = tab
  BY <1>1 DEF Answered
<1>3. ASSUME NEW how \in Outcomes, ServeGet(how) PROVE tab' = tab
  BY <1>2, <1>3 DEF ServeGet
<1>4. ASSUME NEW how \in Outcomes, NEW m \in net,
             ServePresence(m, how) \/ ServeDeletion(m, how)
      PROVE  tab' = tab
  BY <1>1, <1>2, <1>4 DEF ServePresence, ServeDeletion
<1>5. ASSUME NEW how \in Outcomes, NEW m \in net,
             ServeCreation(m, how) \/ ServeAnswer(m, how)
      PROVE  tab' = tab
  BY <1>1, <1>5 DEF ServeCreation, ServeAnswer
<1>6. ASSUME NEW r, FriendMoves(r) \/ FriendCreates(r) \/ FriendDeletes(r)
      PROVE  tab' = tab
  BY <1>1, <1>6 DEF FriendMoves, FriendCreates, FriendDeletes
<1>7. ASSUME NEW i \in Invites, FriendInvites(i) \/ TimeUp(i) PROVE tab' = tab
  BY <1>1, <1>7 DEF FriendInvites, TimeUp
<1> QED
  BY <1>3, <1>4, <1>5, <1>6, <1>7 DEF Outside

LEMMA EveryCause ==
  ASSUME LInv, [Next]_vars
  PROVE  Cause
<1>1. CASE Click
  <2>1. ASSUME NEW r \in Rooms, NEW b \in BOOLEAN, ClickJoin(r, b) \/ DeleteRoomFromMenu(r, b)
        PROVE  Cause
    BY <2>1, StayClicks, KeptCard DEF Kept
  <2>2. ASSUME NEW b \in BOOLEAN, ClickLeave(b) PROVE Cause
    <3>1. tab.room \in Rooms
      BY <2>2, Here DEF ClickLeave, AtWork, Places
    <3> QED
      BY <2>2, <3>1, StayClicks, KeptCard DEF Kept
  <2>3. ASSUME NEW r \in Rooms, ToggleRoomMenu(r) \/ RoomRowLeave(r) \/ CreateChannel(r)
        PROVE  Cause
    BY <2>3, MenusKeep, ListKeeps, KeptCard DEF Kept
  <2>4. CASE ToggleCreate \/ ToggleInvitePicker \/ ClickOutside \/ SendVoiceInvite
    BY <2>4, ListKeeps, DialogKeeps, SendVoiceInviteKeeps, KeptCard DEF Kept
  <2>5. ASSUME NEW term \in Terms \cup {NoTerm}, TypeSearch(term) PROVE Cause
    BY <2>5, TypeSearchKeeps, KeptCard DEF Kept
  <2>6. ASSUME NEW d \in Decisions, ClickCard(d) PROVE Cause
    BY <2>6, ClickCardCause
  <2>7. ASSUME NEW d \in Decisions, NEW i \in Invites, ClickPost(i, d) PROVE Cause
    BY <2>7, ClickPostKeeps, KeptCard DEF Kept
  <2> QED
    BY <1>1, <2>1, <2>2, <2>3, <2>4, <2>5, <2>6, <2>7 DEF Click
<1>2. CASE Arrival
  <2>1. CASE SessionFree
    BY <2>1, SessionFreeKeeps, KeptCard DEF Kept
  <2>2. CASE CardTimer \/ Poll
    BY <2>2, CardTimerCause, ListKeeps, KeptCard DEF Kept
  <2>3. ASSUME NEW i \in Invites, PostTimer(i) \/ PostChanges(i) PROVE Cause
    BY <2>3, PostsKeep, KeptCard DEF Kept
  <2>4. ASSUME NEW m \in net, ApplyRooms(m) \/ OfferArrives(m) \/ InviteEnds(m) PROVE Cause
    BY <2>4, ListKeeps, OfferArrivesCause, InviteEndsKeeps, KeptCard DEF Kept
  <2>5. ASSUME NEW m \in net, NEW b \in BOOLEAN,
               EventArrives(m, b) \/ AnswerHeard(m, b) \/ CreationHeard(m, b)
        PROVE  Cause
    BY <2>5, EventArrivesKeeps, AnswerHeardCause, CreationHeardKeeps, KeptCard DEF Kept
  <2>6. ASSUME NEW m \in net, NEW b \in BOOLEAN, SearchEnds(m, b) PROVE Cause
    BY <2>6, SearchEndsKeeps, KeptCard DEF Kept
  <2> QED
    BY <1>2, <2>1, <2>2, <2>3, <2>4, <2>5, <2>6 DEF Arrival
<1>3. CASE Outside \/ UNCHANGED vars
  BY <1>3, OutsideCause, KeptCard DEF vars
<1> QED
  BY <1>1, <1>2, <1>3 DEF Next


(* The panel, its card and its dialog keep to their types, and so does      *)
(* every message: the timer runs for the card that is shown, and dialog and *)
(* menu are never open together.                                            *)
THEOREM TypeCorrect == Spec => []TypeOK
<1>1. LInv => TypeOK
  BY DEF LInv, Good, CardGood, PickerGood, TypeOK
<1> QED
  BY <1>1, LobbyHolds, PTL

(* For any number of invitations, rooms and searches: every spinner and     *)
(* every disabled button has its request or its session under way, for an   *)
(* operator that takes the place of another (a newer invitation, a newer    *)
(* text, a room asked for while one closes) resets what waited with it.     *)
THEOREM NothingIsStuck == Spec => []NothingHangs
<1>1. LInv => NothingHangs
  BY DEF LInv, Good, CardGood, PickerGood, PostsGood, AnswerOut, Waits, NothingHangs
<1> QED
  BY <1>1, LobbyHolds, PTL

(* What a post says was answered, and what an answer on its way says was    *)
(* recorded, is the status of the invitation: respond never changes one     *)
(* that stands.                                                             *)
THEOREM AnswersAreStanding == Spec => []AnswersStand
<1>1. LInv => AnswersStand
  BY DEF LInv, Good, PostsGood, AnswersGood, AnswersStand
<1> QED
  BY <1>1, LobbyHolds, PTL

(* The dialog never shows the results of an earlier text: of the searches   *)
(* under way while it is open, only that of the text typed is taken         *)
(* (handleInviteSearchChange, inviteSearchRequestId).                       *)
THEOREM OnlyTheLatestShown == Spec => []SearchShown
<1>1. LInv => SearchShown
  BY DEF LInv, Good, PickerGood, Shown, SearchShown
<1> QED
  BY <1>1, LobbyHolds, PTL

(* A panel that is in a room the server no longer has is about to be told:  *)
(* its announcement is on its way, or the event of the deletion is, or the  *)
(* server never knew of the stay.                                           *)
THEOREM DeletionsReachThePanel == Spec => []DeletedRoomLeft
<1>1. LInv => DeletedRoomLeft
  BY RoomsHere DEF LInv, Told, Placed, EventOut, DeletedRoomLeft, Who
<1> QED
  BY <1>1, LobbyHolds, PTL

(* An invitation leaves the card only for a newer one, because its time is  *)
(* up, because it is answered, or because an answer given on the card was   *)
(* refused: handling an answer that a post gave takes away no other         *)
(* invitation (audio_group_call.jsx applyVoiceInviteDecision).              *)
THEOREM CardGoesForCause == Spec => CardEndsForCause
<1>1. LInv /\ [Next]_vars => [Cause]_vars
  BY EveryCause
<1> HIDE DEF Cause
<1>2. Spec => [][Cause]_vars
  BY <1>1, LobbyHolds, PTL DEF Spec
<1> QED
  BY <1>2 DEF Cause, CardEndsForCause
=============================================================================
