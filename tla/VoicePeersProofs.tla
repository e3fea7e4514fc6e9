--------------------------- MODULE VoicePeersProofs ---------------------------
(***************************************************************************)
(* What holds of the peers, the sound and the microphones of a voice room   *)
(* for any number of participants and connections.  A line is treated as a  *)
(* value first: what the operators that work on one leave as it was.  The   *)
(* invariants then relate the lines to the rosters (Placed, OneLive), to    *)
(* what is heard (Heard) and, for a line both ends of which are alive, to   *)
(* the messages on it in each direction (Dir).                              *)
(***************************************************************************)
EXTENDS VoicePeers, TLAPS

Sounds == {"none", "on", "muted"}
Line(e) ==
  [ends : {e}, phase : [e -> {"new", "up", "gone"}], inbox : [e -> Seq(Message)],
   sound : [e -> Sounds], old : SUBSET e, offered : SUBSET e,
   lost : SUBSET e]
Paired(l) == \A u \in l.ends : \E v \in Users \ {u} : l.ends = {u, v}
LineT(l) == l.ends \subseteq Users /\ l \in Line(l.ends) /\ Paired(l)

(* Most steps do not change who is at a line and how far it is, and what is *)
(* old or lost remains so.                                                  *)
Like(l, k) ==
  /\ LineT(k) /\ k.ends = l.ends /\ k.phase = l.phase
  /\ l.old \subseteq k.old /\ l.lost \subseteq k.lost

LEMMA LikeItself == \A l : LineT(l) => Like(l, l)
BY DEF Like

(* What the operators on a line do to one: a message to v, the sound of u,  *)
(* and what it has lost.                                                    *)
SaidTo(l, k, v, m) ==
  /\ Like(l, k) /\ k.sound = l.sound /\ k.old = l.old /\ k.lost = l.lost
  /\ k.offered = l.offered
  /\ k.inbox = IF l.phase[v] = "gone" THEN l.inbox
               ELSE [l.inbox EXCEPT ![v] = Append(@, m)]
SoundsTo(l, k, u, s) ==
  /\ Like(l, k) /\ k.inbox = l.inbox /\ k.old = l.old /\ k.lost = l.lost
  /\ k.offered = l.offered /\ k.sound = [l.sound EXCEPT ![u] = s]
LostBy(l, k, u) ==
  /\ Like(l, k) /\ k.inbox = l.inbox /\ k.old = l.old /\ k.sound = l.sound
  /\ k.offered = l.offered /\ k.lost = l.lost \cup {u}

LEMMA SayLine ==
  ASSUME NEW l, LineT(l), NEW v \in l.ends, NEW m \in Message
  PROVE  SaidTo(l, Say(l, v, m), v, m)
<1> DEFINE k == Say(l, v, m)
<1> HIDE DEF k
<1>1. CASE l.phase[v] = "gone"
  BY <1>1 DEF k, Say, SaidTo, Like
<1>2. CASE l.phase[v] # "gone"
  <2>1. PICK q : q = [l.inbox EXCEPT ![v] = Append(@, m)]
    OBVIOUS
  <2>2. l \in Line(l.ends) /\ l.ends \subseteq Users
    BY DEF LineT
  <2>3. q \in [l.ends -> Seq(Message)]
    BY <2>1, <2>2 DEF Line
  <2>4. k = [l EXCEPT !.inbox = q]
    BY <1>2, <2>1 DEF k, Say
  <2>5. /\ k \in Line(l.ends) /\ k.ends = l.ends /\ k.phase = l.phase /\ k.sound = l.sound
        /\ k.old = l.old /\ k.lost = l.lost /\ k.offered = l.offered /\ k.inbox = q
    BY <2>2, <2>3, <2>4 DEF Line
  <2>6. SaidTo(l, k, v, m)
    BY <1>2, <2>1, <2>5 DEF SaidTo, Like, LineT, Paired
  <2> QED
    BY <2>6 DEF k
<1> QED
  BY <1>1, <1>2 DEF k

LEMMA MuteLine ==
  ASSUME NEW l, LineT(l), NEW u \in l.ends, NEW s \in Sounds
  PROVE  SoundsTo(l, Mute(l, u, s), u, s)
<1>1. PICK q, k : q = [l.sound EXCEPT ![u] = s] /\ k = Mute(l, u, s)
  OBVIOUS
<1>2. l \in Line(l.ends) /\ l.ends \subseteq Users
  BY DEF LineT
<1>3. q \in [l.ends -> Sounds]
  BY <1>1, <1>2 DEF Line
<1>4. k = [l EXCEPT !.sound = q]
  BY <1>1 DEF Mute
<1>5. /\ k \in Line(l.ends) /\ k.ends = l.ends /\ k.phase = l.phase /\ k.inbox = l.inbox
      /\ k.old = l.old /\ k.lost = l.lost /\ k.offered = l.offered /\ k.sound = q
  BY <1>2, <1>3, <1>4 DEF Line
<1> QED
  BY <1>1, <1>5 DEF SoundsTo, Like, LineT, Paired

LEMMA LoseLine ==
  ASSUME NEW l, LineT(l), NEW u \in l.ends
  PROVE  LostBy(l, Lose(l, u), u)
<1>1. PICK k : k = Lose(l, u)
  OBVIOUS
<1>2. l \in Line(l.ends) /\ l.ends \subseteq Users
  BY DEF LineT
<1>3. /\ k \in Line(l.ends) /\ k.ends = l.ends /\ k.phase = l.phase /\ k.inbox = l.inbox
      /\ k.old = l.old /\ k.sound = l.sound /\ k.offered = l.offered
      /\ k.lost = l.lost \cup {u}
  BY <1>1, <1>2 DEF Line, Lose
<1> QED
  BY <1>1, <1>3 DEF LostBy, Like, LineT, Paired

LEMMA FarOf ==
  \A l : LineT(l) => \A u \in l.ends :
    LET v == CHOOSE w \in l.ends : w # u
    IN v \in Users /\ v # u /\ l.ends = {u, v}
<1> SUFFICES ASSUME NEW l, LineT(l), NEW u \in l.ends, NEW v, v = CHOOSE w \in l.ends : w # u
             PROVE  v \in Users /\ v # u /\ l.ends = {u, v}
  OBVIOUS
<1>1. PICK x \in Users \ {u} : l.ends = {u, x}
  BY DEF LineT, Paired
<1>2. \E w \in l.ends : w # u
  BY <1>1
<1>3. v \in l.ends /\ v # u
  BY <1>2
<1> QED
  BY <1>1, <1>3

-----------------------------------------------------------------------------
(* Where a record or a playback points is a line that is up.                *)
At(u, v, c) ==
  /\ u # v /\ c \in Lines /\ u \in lines[c].ends /\ v \in lines[c].ends
  /\ lines[c].phase[u] = "up"

Typed ==
  /\ tab \in [Users -> Panel] /\ peers \in [Users -> [Users -> Record]]
  /\ timers \in [Users -> [Users -> Nat]]
  /\ plays \in [Users -> [Users -> Lines \cup {NoLine}]]
  /\ DOMAIN lines = Lines /\ \A c \in Lines : LineT(lines[c])

(* Who is in no room has no timers, and only ends of closed sessions.       *)
Away ==
  \A u \in Users : ~tab[u].in =>
    /\ \A v \in Users : timers[u][v] = 0
    /\ \A c \in Lines : u \in lines[c].ends => u \in lines[c].old

RecordGood(u, v) ==
  /\ peers[u][v].via # NoLine => peers[u][v].listed /\ At(u, v, peers[u][v].via)
  /\ peers[u][v].via = NoLine =>
       ~peers[u][v].connected /\ (peers[u][v].listed => timers[u][v] > 0)
PlayGood(u, v) == plays[u][v] # NoLine => At(u, v, plays[u][v])
Placed == \A u, v \in Users : RecordGood(u, v) /\ PlayGood(u, v)

(* Of two lines between the same users at most one is of the present        *)
(* session of an end, or goes on.                                           *)
OneLive ==
  \A c, d \in Lines : \A u \in lines[c].ends : c # d /\ lines[c].ends = lines[d].ends =>
    \/ u \in lines[c].old \cup lines[d].old
    \/ lines[c].phase[u] = "gone" \/ lines[d].phase[u] = "gone"

Base == Typed /\ Away /\ Placed /\ OneLive

LEMMA FarIs ==
  ASSUME Typed, NEW c \in Lines, NEW u \in lines[c].ends
  PROVE  Far(u, c) \in Users /\ Far(u, c) # u /\ lines[c].ends = {u, Far(u, c)}
<1>1. LineT(lines[c])
  BY DEF Typed
<1>2. PICK l : l = lines[c]
  OBVIOUS
<1>3. PICK v : v = CHOOSE w \in l.ends : w # u
  OBVIOUS
<1>4. v \in Users /\ v # u /\ l.ends = {u, v}
  BY <1>1, <1>2, <1>3, FarOf
<1>5. Far(u, c) = v
  BY <1>2, <1>3 DEF Far
<1> QED
  BY <1>2, <1>4, <1>5

LEMMA LineIs ==
  ASSUME Typed, NEW c \in Lines
  PROVE  /\ LineT(lines[c]) /\ lines[c].ends \subseteq Users
         /\ lines[c].phase \in [lines[c].ends -> {"new", "up", "gone"}]
         /\ lines[c].inbox \in [lines[c].ends -> Seq(Message)]
         /\ lines[c].sound \in [lines[c].ends -> Sounds]
         /\ lines[c].old \subseteq lines[c].ends /\ lines[c].offered \subseteq lines[c].ends
         /\ lines[c].lost \subseteq lines[c].ends
BY DEF Typed, LineT, Line

AllLike == DOMAIN lines' = Lines /\ \A d \in Lines : Like(lines[d], lines'[d])

LEMMA AtLike ==
  ASSUME AllLike, NEW u, NEW v, NEW c, At(u, v, c)
  PROVE  At(u, v, c)'
BY DEF AllLike, At, Like

LEMMA OneLiveLike ==
  ASSUME OneLive, AllLike
  PROVE  OneLive'
BY DEF AllLike, OneLive, Like

LEMMA LoseIs ==
  ASSUME Typed, NEW c \in Lines, NEW u \in lines[c].ends
  PROVE  LostBy(lines[c], Lose(lines[c], u), u)
<1>1. PICK l : l = lines[c]
  OBVIOUS
<1> QED
  BY <1>1, LineIs, LoseLine

(* What keeps the lines alike, and resets, keeps or lists records. *)
LEMMA BaseLike ==
  ASSUME Base, AllLike, tab' \in [Users -> Panel], peers' \in [Users -> [Users -> Record]],
         timers' \in [Users -> [Users -> Nat]],
         plays' \in [Users -> [Users -> Lines \cup {NoLine}]],
         Away',
         \A u, v \in Users :
           \/ peers'[u][v] = peers[u][v] /\ timers'[u][v] = timers[u][v]
           \/ RecordGood(u, v)',
         \A u, v \in Users : plays'[u][v] \in {plays[u][v], NoLine} \/ PlayGood(u, v)'
  PROVE  Base'
<1>1. Typed'
  BY DEF Typed, AllLike, Like
<1>2. ASSUME NEW u \in Users, NEW v \in Users PROVE RecordGood(u, v)'
  <2>1. CASE peers'[u][v] = peers[u][v] /\ timers'[u][v] = timers[u][v]
    BY <2>1, AtLike DEF Base, Placed, RecordGood
  <2> QED
    BY <2>1
<1>3. ASSUME NEW u \in Users, NEW v \in Users PROVE PlayGood(u, v)'
  <2>1. CASE plays'[u][v] \in {plays[u][v], NoLine}
    BY <2>1, AtLike DEF Base, Placed, PlayGood
  <2> QED
    BY <2>1
<1> QED
  BY <1>1, <1>2, <1>3, OneLiveLike DEF Base, Placed

-----------------------------------------------------------------------------
(* What each action does to the lines and the rosters, and that it keeps    *)
(* them together. *)
LEMMA RecordsTyped ==
  /\ NoRecord \in Record /\ [NoRecord EXCEPT !.listed = TRUE, !.audio = TRUE] \in Record
  /\ [NoRecord EXCEPT !.listed = TRUE, !.audio = TRUE].via = NoLine
  /\ ~[NoRecord EXCEPT !.listed = TRUE, !.audio = TRUE].connected
BY DEF NoRecord, Record

LEMMA NoRecordGood ==
  ASSUME NEW u, NEW v, peers'[u][v] = NoRecord
  PROVE  RecordGood(u, v)'
BY DEF RecordGood, NoRecord

LEMMA JoinBase ==
  ASSUME Base, NEW u \in Users, NEW g \in BOOLEAN, Join(u, g)
  PROVE  Base' /\ lines' = lines /\ peers' = peers /\ plays' = plays
<1>1. lines' = lines /\ peers' = peers /\ plays' = plays /\ timers' = timers
  BY DEF Join
<1>2. tab' \in [Users -> Panel] /\ tab'[u].in /\ \A v \in Users \ {u} : tab'[v] = tab[v]
  BY DEF Join, Base, Typed, Panel
<1>3. AllLike
  BY <1>1, LikeItself DEF AllLike, Base, Typed
<1>4. Away'
  BY <1>1, <1>2 DEF Base, Away
<1> QED
  BY <1>1, <1>2, <1>3, <1>4, BaseLike DEF Base, Typed

(* The end of u is closed, what it played is silent. *)
ClosedBy(l, k, u, played) ==
  /\ Like(l, k) /\ k.inbox = l.inbox /\ k.offered = l.offered /\ k.lost = l.lost
  /\ k.old = l.old \cup {u}
  /\ k.sound = IF played THEN [l.sound EXCEPT ![u] = "none"] ELSE l.sound

LEMMA CloseLine ==
  ASSUME NEW l, LineT(l), NEW u \in l.ends, NEW played \in BOOLEAN, NEW k,
         k = [l EXCEPT !.old = @ \cup {u}, !.sound[u] = IF played THEN "none" ELSE @]
  PROVE  ClosedBy(l, k, u, played)
<1>1. l \in Line(l.ends) /\ l.ends \subseteq Users
  BY DEF LineT
<1>2. PICK q : q = IF played THEN [l.sound EXCEPT ![u] = "none"] ELSE l.sound
  OBVIOUS
<1>3. q \in [l.ends -> Sounds] /\ (~played => q = [l.sound EXCEPT ![u] = @])
  BY <1>1, <1>2 DEF Line, Sounds
<1>4. PICK o : o = l.old \cup {u}
  OBVIOUS
<1>5. o \in SUBSET l.ends
  BY <1>1, <1>4 DEF Line
<1>6. k = [l EXCEPT !.old = o, !.sound = q]
  BY <1>2, <1>3, <1>4
<1>7. /\ k \in Line(l.ends) /\ k.ends = l.ends /\ k.phase = l.phase /\ k.inbox = l.inbox
      /\ k.old = o /\ k.sound = q /\ k.offered = l.offered /\ k.lost = l.lost
  BY <1>1, <1>3, <1>5, <1>6 DEF Line
<1> QED
  BY <1>2, <1>4, <1>7 DEF ClosedBy, Like, LineT, Paired

LEMMA CloseIs ==
  ASSUME Base, NEW u \in Users, Close(u)
  PROVE  /\ AllLike
         /\ \A d \in Lines : IF u \in lines[d].ends
                             THEN ClosedBy(lines[d], lines'[d], u, plays[u][Far(u, d)] = d)
                             ELSE lines'[d] = lines[d]
         /\ \A x \in Users \ {u} : peers'[x] = peers[x] /\ timers'[x] = timers[x] /\ plays'[x] = plays[x]
         /\ \A y \in Users : peers'[u][y] = NoRecord /\ timers'[u][y] = 0 /\ plays'[u][y] = NoLine
         /\ peers' \in [Users -> [Users -> Record]] /\ timers' \in [Users -> [Users -> Nat]]
         /\ plays' \in [Users -> [Users -> Lines \cup {NoLine}]]
<1>1. ASSUME NEW d \in Lines, u \in lines[d].ends
      PROVE  ClosedBy(lines[d], lines'[d], u, plays[u][Far(u, d)] = d)
  <2>1. PICK l, k, b : l = lines[d] /\ k = lines'[d] /\ b = (plays[u][Far(u, d)] = d)
    OBVIOUS
  <2>2. k = [l EXCEPT !.old = @ \cup {u}, !.sound[u] = IF b THEN "none" ELSE @]
    BY <1>1, <2>1 DEF Close, Ends
  <2>3. LineT(l) /\ b \in BOOLEAN
    BY <2>1 DEF Base, Typed
  <2> QED
    BY <1>1, <2>1, <2>2, <2>3, CloseLine
<1>2. ASSUME NEW d \in Lines, u \notin lines[d].ends PROVE lines'[d] = lines[d]
  BY <1>2 DEF Close, Ends
<1>3. AllLike
  BY <1>1, <1>2, LikeItself DEF AllLike, ClosedBy, Close, Base, Typed
<1>4. /\ peers' \in [Users -> [Users -> Record]] /\ timers' \in [Users -> [Users -> Nat]]
      /\ plays' \in [Users -> [Users -> Lines \cup {NoLine}]]
  BY RecordsTyped DEF Close, Base, Typed
<1>5. \A x \in Users \ {u} : peers'[x] = peers[x] /\ timers'[x] = timers[x] /\ plays'[x] = plays[x]
  BY DEF Close, Base, Typed
<1>6. \A y \in Users : peers'[u][y] = NoRecord /\ timers'[u][y] = 0 /\ plays'[u][y] = NoLine
  BY DEF Close, Base, Typed
<1> QED
  BY <1>1, <1>2, <1>3, <1>4, <1>5, <1>6

LEMMA LeaveBase ==
  ASSUME Base, NEW u \in Users, Leave(u) \/ MoveOn(u)
  PROVE  Base' /\ ~tab'[u].in /\ \A x \in Users \ {u} : tab'[x] = tab[x]
<1>1. Close(u)
  BY DEF Leave, MoveOn
<1>2. /\ tab' \in [Users -> Panel] /\ ~tab'[u].in /\ \A x \in Users \ {u} : tab'[x] = tab[x]
  <2>1. PICK t : t = tab'[u]
    OBVIOUS
  <2>2. tab[u] \in Panel
    BY DEF Base, Typed
  <2>3. tab' = [tab EXCEPT ![u] = t] /\ t \in Panel /\ ~t.in
    <3>1. CASE Leave(u)
      BY <2>1, <2>2, <3>1 DEF Leave, Base, Typed, Panel
    <3>2. CASE MoveOn(u)
      BY <2>1, <2>2, <3>2 DEF MoveOn, Base, Typed, Panel
    <3> QED
      BY <3>1, <3>2
  <2> QED
    BY <2>3 DEF Base, Typed
<1>3. Away'
  <2> SUFFICES ASSUME NEW x \in Users, ~tab'[x].in
               PROVE  /\ \A v \in Users : timers'[x][v] = 0
                      /\ \A c \in Lines : x \in lines'[c].ends => x \in lines'[c].old
    BY DEF Away
  <2>1. CASE x = u
    BY <1>1, <2>1, CloseIs DEF ClosedBy, Like
  <2>2. CASE x # u
    <3>1. ~tab[x].in /\ timers'[x] = timers[x]
      BY <1>1, <1>2, <2>2, CloseIs
    <3>2. \A c \in Lines : lines'[c].ends = lines[c].ends /\ lines[c].old \subseteq lines'[c].old
      BY <1>1, CloseIs DEF AllLike, Like
    <3> QED
      BY <3>1, <3>2 DEF Base, Away
  <2> QED
    BY <2>1, <2>2
<1>4. ASSUME NEW x \in Users, NEW y \in Users
      PROVE  \/ peers'[x][y] = peers[x][y] /\ timers'[x][y] = timers[x][y]
             \/ RecordGood(x, y)'
  BY <1>1, CloseIs, NoRecordGood
<1>5. \A x, y \in Users : plays'[x][y] \in {plays[x][y], NoLine}
  BY <1>1, CloseIs
<1> QED
  BY <1>1, <1>2, <1>3, <1>4, <1>5, CloseIs, BaseLike

LEMMA HubPeerBase ==
  ASSUME Base, NEW u \in Users, NEW v \in Users, HubPeer(u, v)
  PROVE  Base'
<1>1. lines' = lines /\ tab' = tab /\ plays' = plays /\ tab[u].in
  BY DEF HubPeer
<1>2. PICK r : r = [NoRecord EXCEPT !.listed = TRUE, !.audio = TRUE]
  OBVIOUS
<1>3. r \in Record /\ r.via = NoLine /\ ~r.connected
  BY <1>2, RecordsTyped
<1>4. peers' = [peers EXCEPT ![u][v] = r] /\ timers' = [timers EXCEPT ![u][v] = @ + 1]
  BY <1>2 DEF HubPeer
<1>5. /\ peers' \in [Users -> [Users -> Record]] /\ timers' \in [Users -> [Users -> Nat]]
      /\ peers'[u][v] = r /\ timers'[u][v] > 0
      /\ \A x, y \in Users : <<x, y>> # <<u, v>> =>
           peers'[x][y] = peers[x][y] /\ timers'[x][y] = timers[x][y]
  BY <1>3, <1>4 DEF Base, Typed
<1>6. RecordGood(u, v)'
  BY <1>3, <1>5 DEF RecordGood
<1>7. AllLike
  BY <1>1, LikeItself DEF AllLike, Base, Typed
<1>8. Away'
  <2> SUFFICES ASSUME NEW x \in Users, ~tab[x].in
               PROVE  /\ \A y \in Users : timers'[x][y] = 0
                      /\ \A c \in Lines : x \in lines[c].ends => x \in lines[c].old
    BY <1>1 DEF Away
  <2>1. /\ \A y \in Users : timers[x][y] = 0
        /\ \A c \in Lines : x \in lines[c].ends => x \in lines[c].old
    BY DEF Base, Away
  <2>2. \A y \in Users : timers'[x][y] = timers[x][y]
    BY <1>1, <1>5
  <2> QED
    BY <2>1, <2>2
<1>9. ASSUME NEW x \in Users, NEW y \in Users
      PROVE  \/ peers'[x][y] = peers[x][y] /\ timers'[x][y] = timers[x][y]
             \/ RecordGood(x, y)'
  BY <1>5, <1>6
<1> QED
  BY <1>1, <1>5, <1>7, <1>8, <1>9, BaseLike DEF Base, Typed

LEMMA TimerIs ==
  ASSUME Base, NEW u \in Users, NEW v \in Users, TimerFires(u, v)
  PROVE  /\ tab' = tab /\ plays' = plays /\ AllLike
         /\ peers' \in [Users -> [Users -> Record]] /\ timers' \in [Users -> [Users -> Nat]]
         /\ \A x, y \in Users : <<x, y>> # <<u, v>> =>
              peers'[x][y] = peers[x][y] /\ timers'[x][y] = timers[x][y]
         /\ timers[u][v] > 0
         /\ IF peers[u][v].connected THEN peers'[u][v] = peers[u][v] /\ lines' = lines
            ELSE /\ peers'[u][v] = NoRecord
                 /\ \A d \in Lines : IF d = peers[u][v].via
                                     THEN LostBy(lines[d], lines'[d], u)
                                     ELSE lines'[d] = lines[d]
<1>1. tab' = tab /\ plays' = plays /\ timers' = [timers EXCEPT ![u][v] = @ - 1] /\ timers[u][v] > 0
  BY DEF TimerFires
<1>2. timers \in [Users -> [Users -> Nat]] /\ peers \in [Users -> [Users -> Record]]
      /\ \A d \in Lines : LineT(lines[d])
  BY DEF Base, Typed
<1>3. timers' \in [Users -> [Users -> Nat]]
      /\ \A x, y \in Users : <<x, y>> # <<u, v>> => timers'[x][y] = timers[x][y]
  BY <1>1, <1>2
<1>4. CASE peers[u][v].connected
  <2>1. peers' = peers /\ lines' = lines
    BY <1>4 DEF TimerFires
  <2>2. AllLike
    BY <1>2, <2>1, LikeItself DEF AllLike, Base, Typed
  <2> QED
    BY <1>1, <1>2, <1>3, <1>4, <2>1, <2>2
<1>5. CASE ~peers[u][v].connected
  <2>1. Forget(u, v)
    BY <1>5 DEF TimerFires
  <2>2. peers' = [peers EXCEPT ![u][v] = NoRecord] /\ DOMAIN lines' = Lines
    BY <2>1 DEF Forget
  <2>3. /\ peers' \in [Users -> [Users -> Record]] /\ peers'[u][v] = NoRecord
        /\ \A x, y \in Users : <<x, y>> # <<u, v>> => peers'[x][y] = peers[x][y]
    BY <1>2, <2>2, RecordsTyped
  <2>4. ASSUME NEW d \in Lines, d # peers[u][v].via PROVE lines'[d] = lines[d]
    BY <2>1, <2>4 DEF Forget
  <2>5. ASSUME NEW d \in Lines, d = peers[u][v].via PROVE LostBy(lines[d], lines'[d], u)
    <3>1. lines'[d] = Lose(lines[d], u)
      BY <2>1, <2>5 DEF Forget
    <3>2. u \in lines[d].ends
      BY <2>5, PeersAssumption DEF Base, Placed, RecordGood, At
    <3> QED
      BY <3>1, <3>2, LoseIs DEF Base
  <2>6. AllLike
    BY <1>2, <2>2, <2>4, <2>5, LikeItself DEF AllLike, LostBy
  <2> QED
    BY <1>1, <1>3, <1>5, <2>3, <2>4, <2>5, <2>6
<1> QED
  BY <1>4, <1>5

LEMMA TimerBase ==
  ASSUME Base, NEW u \in Users, NEW v \in Users, TimerFires(u, v)
  PROVE  Base'
<1>1. Away'
  <2>1. tab' = tab /\ \A d \in Lines : lines'[d].ends = lines[d].ends /\ lines[d].old \subseteq lines'[d].old
    BY TimerIs DEF AllLike, Like
  <2>2. tab[u].in
    <3>1. timers[u][v] # 0
      BY DEF TimerFires
    <3> QED
      BY <3>1 DEF Base, Away
  <2>3. \A x, y \in Users : x # u => timers'[x][y] = timers[x][y]
    BY TimerIs
  <2> QED
    BY <2>1, <2>2, <2>3 DEF Base, Away
<1>2. ASSUME NEW x \in Users, NEW y \in Users
      PROVE  \/ peers'[x][y] = peers[x][y] /\ timers'[x][y] = timers[x][y]
             \/ RecordGood(x, y)'
  <2>1. CASE <<x, y>> # <<u, v>>
    BY <2>1, TimerIs
  <2>2. CASE x = u /\ y = v /\ peers[u][v].connected
    <3>1. peers'[u][v] = peers[u][v] /\ AllLike
      BY <2>2, TimerIs
    <3>2. peers[u][v].via # NoLine /\ peers[u][v].listed /\ At(u, v, peers[u][v].via)
      BY <2>2 DEF Base, Placed, RecordGood
    <3>3. At(u, v, peers[u][v].via)'
      BY <3>1, <3>2 DEF At, AllLike, Like
    <3> QED
      BY <2>2, <3>1, <3>2, <3>3 DEF RecordGood
  <2>3. CASE x = u /\ y = v /\ ~peers[u][v].connected
    BY <2>3, TimerIs, NoRecordGood
  <2> QED
    BY <2>1, <2>2, <2>3
<1> QED
  BY <1>1, <1>2, TimerIs, BaseLike DEF Base, Typed

LEMMA NewLines ==
  /\ LineT(Free) /\ Free.ends = {}
  /\ \A u, v \in Users : u # v => LineT(NewLine({u, v})) /\ NewLine({u, v}).ends = {u, v}
<1>1. ASSUME NEW e \in SUBSET Users PROVE NewLine(e) \in Line(e) /\ NewLine(e).ends = e
  BY DEF NewLine, Line, Sounds
<1>2. Paired(Free)
  BY <1>1 DEF Free, Paired
<1>3. ASSUME NEW u \in Users, NEW v \in Users, u # v PROVE Paired(NewLine({u, v}))
  BY <1>1, <1>3 DEF Paired
<1> QED
  BY <1>1, <1>2, <1>3 DEF LineT, Free

LEMMA DialIs ==
  ASSUME Base, NEW u \in Users, NEW v \in Users, NEW c \in Lines, Dial(u, v, c)
  PROVE  /\ tab' = tab /\ peers' = peers /\ timers' = timers /\ plays' = plays
         /\ u # v /\ tab[u].in /\ tab[v].in /\ lines[c].ends = {} /\ DOMAIN lines' = Lines
         /\ lines'[c] = NewLine({u, v}) /\ LineT(lines'[c]) /\ lines'[c].ends = {u, v}
         /\ lines'[c].old = {}
         /\ \A d \in Lines \ {c} : lines'[d] = lines[d]
BY NewLines DEF Dial, Base, Typed, NewLine

LEMMA DialBase ==
  ASSUME Base, NEW u \in Users, NEW v \in Users, NEW c \in Lines, Dial(u, v, c)
  PROVE  Base'
<1>0. /\ tab' = tab /\ peers' = peers /\ timers' = timers /\ plays' = plays
      /\ u # v /\ tab[u].in /\ tab[v].in /\ lines[c].ends = {} /\ DOMAIN lines' = Lines
      /\ lines'[c] = NewLine({u, v}) /\ LineT(lines'[c]) /\ lines'[c].ends = {u, v}
      /\ \A d \in Lines \ {c} : lines'[d] = lines[d]
  BY DialIs
<1>1. Typed'
  BY <1>0 DEF Base, Typed
<1>2. Away'
  <2> SUFFICES ASSUME NEW x \in Users, ~tab[x].in, NEW d \in Lines, x \in lines'[d].ends
               PROVE  x \in lines'[d].old
    BY <1>0 DEF Base, Away
  <2>1. d # c
    BY <1>0
  <2> QED
    BY <2>1, <1>0 DEF Base, Away
<1>3. ASSUME NEW x \in Users, NEW y \in Users, NEW d, At(x, y, d) PROVE At(x, y, d)'
  <2>1. d # c
    BY <1>3, <1>0 DEF At
  <2> QED
    BY <1>3, <2>1, <1>0 DEF At
<1>4. Placed'
  BY <1>3, <1>0 DEF Base, Placed, RecordGood, PlayGood
<1>5. ASSUME NEW d \in Lines, d # c, lines[d].ends = {u, v}, NEW w \in {u, v}
      PROVE  w \in lines[d].old \/ lines[d].phase[w] = "gone"
  BY <1>5 DEF Dial, Ends
<1>6. OneLive'
  <2> SUFFICES ASSUME NEW d \in Lines, NEW e \in Lines, NEW w \in lines'[d].ends,
                      d # e, lines'[d].ends = lines'[e].ends
               PROVE  \/ w \in lines'[d].old \cup lines'[e].old
                      \/ lines'[d].phase[w] = "gone" \/ lines'[e].phase[w] = "gone"
    BY DEF OneLive
  <2>1. CASE d # c /\ e # c
    <3>1. lines'[d] = lines[d] /\ lines'[e] = lines[e]
      BY <2>1, <1>0
    <3> QED
      BY <2>1, <3>1 DEF Base, OneLive
  <2>2. CASE d = c
    BY <1>5, <2>2, <1>0
  <2>3. CASE e = c
    <3>1. lines'[d] = lines[d] /\ lines[d].ends = {u, v} /\ w \in {u, v}
      BY <2>3, <1>0
    <3> QED
      BY <1>5, <2>3, <3>1
  <2> QED
    BY <2>1, <2>2, <2>3
<1> QED
  BY <1>1, <1>2, <1>4, <1>6 DEF Base

(* The end of u is open: it says so to v. *)
OpenedBy(l, k, u, v) ==
  /\ LineT(k) /\ k.ends = l.ends /\ k.phase = [l.phase EXCEPT ![u] = "up"]
  /\ k.sound = l.sound /\ k.old = l.old /\ k.lost = l.lost /\ k.offered = l.offered
  /\ k.inbox = [l.inbox EXCEPT ![v] = Append(@, "sendHandshake")]

LEMMA OpenLine ==
  ASSUME NEW l, LineT(l), NEW u \in l.ends, NEW v \in l.ends, u # v, l.phase[v] # "gone",
         NEW k, k = Say([l EXCEPT !.phase[u] = "up"], v, "sendHandshake")
  PROVE  OpenedBy(l, k, u, v)
<1>1. PICK ph, j : ph = [l.phase EXCEPT ![u] = "up"] /\ j = [l EXCEPT !.phase = ph]
  OBVIOUS
<1>2. l \in Line(l.ends) /\ l.ends \subseteq Users
  BY DEF LineT
<1>3. ph \in [l.ends -> {"new", "up", "gone"}] /\ ph[v] # "gone"
  BY <1>1, <1>2 DEF Line
<1>4. /\ j \in Line(l.ends) /\ j.ends = l.ends /\ j.phase = ph /\ j.inbox = l.inbox
      /\ j.old = l.old /\ j.lost = l.lost /\ j.sound = l.sound /\ j.offered = l.offered
  BY <1>1, <1>2, <1>3 DEF Line
<1>5. LineT(j)
  BY <1>4 DEF LineT, Paired
<1>6. "sendHandshake" \in Message
  BY DEF Message
<1>7. k = Say(j, v, "sendHandshake")
  BY <1>1
<1>8. SaidTo(j, k, v, "sendHandshake")
  BY <1>3, <1>4, <1>5, <1>6, <1>7, SayLine
<1> QED
  BY <1>1, <1>3, <1>4, <1>8 DEF OpenedBy, SaidTo, Like

LEMMA ConnectedIs ==
  ASSUME Base, NEW u \in Users, NEW c \in Lines, Connected(u, c), NEW v, v = Far(u, c)
  PROVE  /\ tab' = tab /\ timers' = timers /\ plays' = plays /\ DOMAIN lines' = Lines
         /\ v \in Users /\ u # v /\ lines[c].ends = {u, v}
         /\ lines[c].phase[u] = "new" /\ lines[c].phase[v] # "gone" /\ peers[u][v].via # c
         /\ peers' = [peers EXCEPT ![u][v] = [listed |-> TRUE, via |-> c,
                        connected |-> peers[u][v].connected, audio |-> TRUE]]
         /\ OpenedBy(lines[c], lines'[c], u, v)
         /\ \A d \in Lines \ {c} : IF d = peers[u][v].via THEN LostBy(lines[d], lines'[d], u)
                                   ELSE lines'[d] = lines[d]
<1>1. /\ tab' = tab /\ timers' = timers /\ plays' = plays
      /\ u \in lines[c].ends /\ lines[c].phase[u] = "new" /\ lines[c].phase[v] # "gone"
      /\ peers' = [peers EXCEPT ![u][v] = [listed |-> TRUE, via |-> c,
                        connected |-> peers[u][v].connected, audio |-> TRUE]]
  BY DEF Connected, Ends
<1>2. v \in Users /\ u # v /\ lines[c].ends = {u, v}
  BY <1>1, FarIs DEF Base
<1>3. peers[u][v].via # c
  BY <1>1, <1>2, PeersAssumption DEF Base, Placed, RecordGood, At
<1>4. PICK j : j = Say([lines[c] EXCEPT !.phase[u] = "up"], v, "sendHandshake")
  OBVIOUS
<1>5. PICK l : l = [lines EXCEPT ![c] = j]
  OBVIOUS
<1>6. lines' = [d \in Lines |-> IF d = peers[u][v].via THEN Lose(l[d], u) ELSE l[d]]
  BY <1>4, <1>5 DEF Connected
<1>7. DOMAIN lines = Lines /\ LineT(lines[c])
  BY DEF Base, Typed
<1>8. l[c] = j /\ \A d \in Lines \ {c} : l[d] = lines[d]
  BY <1>5, <1>7
<1>9. OpenedBy(lines[c], j, u, v)
  <2>1. PICK k : k = lines[c]
    OBVIOUS
  <2> QED
    BY <1>1, <1>2, <1>4, <1>7, <2>1, OpenLine
<1>10. OpenedBy(lines[c], lines'[c], u, v)
  BY <1>3, <1>6, <1>8, <1>9
<1>11. ASSUME NEW d \in Lines, d # c, d = peers[u][v].via PROVE LostBy(lines[d], lines'[d], u)
  <2>1. u \in lines[d].ends
    BY <1>2, <1>11, PeersAssumption DEF Base, Placed, RecordGood, At
  <2>2. lines'[d] = Lose(lines[d], u)
    BY <1>6, <1>8, <1>11
  <2> QED
    BY <2>1, <2>2, LoseIs DEF Base
<1>12. ASSUME NEW d \in Lines, d # c, d # peers[u][v].via PROVE lines'[d] = lines[d]
  BY <1>6, <1>8, <1>12
<1>13. DOMAIN lines' = Lines
  BY <1>6
<1> QED
  BY <1>1, <1>2, <1>3, <1>10, <1>11, <1>12, <1>13

LEMMA ConnectedBase ==
  ASSUME Base, NEW u \in Users, NEW c \in Lines, Connected(u, c)
  PROVE  Base'
<1>1. PICK v, r : v = Far(u, c) /\ r = [listed |-> TRUE, via |-> c,
                        connected |-> peers[u][v].connected, audio |-> TRUE]
  OBVIOUS
<1>2. /\ tab' = tab /\ timers' = timers /\ plays' = plays /\ DOMAIN lines' = Lines
      /\ v \in Users /\ u # v /\ lines[c].ends = {u, v}
      /\ lines[c].phase[u] = "new" /\ peers' = [peers EXCEPT ![u][v] = r]
      /\ OpenedBy(lines[c], lines'[c], u, v)
      /\ \A d \in Lines \ {c} : IF d = peers[u][v].via THEN LostBy(lines[d], lines'[d], u)
                                ELSE lines'[d] = lines[d]
  BY <1>1, ConnectedIs
<1>3. r \in Record /\ r.via = c /\ r.listed
  BY <1>1, <1>2 DEF Base, Typed, Record
<1>4. /\ peers' \in [Users -> [Users -> Record]] /\ peers'[u][v] = r
      /\ \A x, y \in Users : <<x, y>> # <<u, v>> => peers'[x][y] = peers[x][y]
  BY <1>2, <1>3 DEF Base, Typed
<1>5. ASSUME NEW d \in Lines
      PROVE  /\ LineT(lines'[d]) /\ lines'[d].ends = lines[d].ends
             /\ lines[d].old \subseteq lines'[d].old
             /\ \A w \in lines[d].ends : \/ lines'[d].phase[w] = lines[d].phase[w]
                                         \/ lines[d].phase[w] = "new" /\ d = c
  <2>1. CASE d = c
    <3>1. lines[c].phase \in [lines[c].ends -> {"new", "up", "gone"}]
      BY LineIs DEF Base
    <3> QED
      BY <1>2, <2>1, <3>1 DEF OpenedBy
  <2>2. CASE d # c
    BY <1>2, <2>2 DEF LostBy, Like, Base, Typed
  <2> QED
    BY <2>1, <2>2
<1>6. Typed'
  BY <1>2, <1>4, <1>5 DEF Base, Typed
<1>7. Away'
  BY <1>2, <1>5 DEF Base, Away
<1>8. ASSUME NEW x, NEW y, NEW d, At(x, y, d) PROVE At(x, y, d)'
  BY <1>5, <1>8 DEF At
<1>9. At(u, v, c)'
  <2>1. lines[c].phase \in [lines[c].ends -> {"new", "up", "gone"}]
    BY LineIs DEF Base
  <2> QED
    BY <1>2, <2>1 DEF OpenedBy, At
<1>10. ASSUME NEW x \in Users, NEW y \in Users PROVE RecordGood(x, y)' /\ PlayGood(x, y)'
  <2>1. RecordGood(x, y) /\ PlayGood(x, y)
    BY DEF Base, Placed
  <2>2. PlayGood(x, y)'
    BY <1>2, <1>8, <2>1 DEF PlayGood
  <2>3. CASE <<x, y>> # <<u, v>>
    BY <1>2, <1>4, <1>8, <2>1, <2>2, <2>3 DEF RecordGood
  <2>4. CASE x = u /\ y = v
    BY <1>3, <1>4, <1>9, <2>2, <2>4, PeersAssumption DEF RecordGood
  <2> QED
    BY <2>3, <2>4
<1>11. OneLive'
  <2> SUFFICES ASSUME NEW d \in Lines, NEW e \in Lines, NEW w \in lines'[d].ends,
                      d # e, lines'[d].ends = lines'[e].ends
               PROVE  \/ w \in lines'[d].old \cup lines'[e].old
                      \/ lines'[d].phase[w] = "gone" \/ lines'[e].phase[w] = "gone"
    BY DEF OneLive
  <2>1. /\ w \in lines[d].ends /\ w \in lines[e].ends /\ lines[d].ends = lines[e].ends
        /\ lines[d].old \subseteq lines'[d].old /\ lines[e].old \subseteq lines'[e].old
        /\ lines[d].phase[w] = "gone" => lines'[d].phase[w] = "gone"
        /\ lines[e].phase[w] = "gone" => lines'[e].phase[w] = "gone"
    BY <1>5
  <2> QED
    BY <2>1 DEF Base, OneLive
<1> QED
  BY <1>6, <1>7, <1>10, <1>11 DEF Base, Placed

(* The end of u has ended. *)
EndedBy(l, k, u) ==
  /\ LineT(k) /\ k.ends = l.ends /\ k.phase = [l.phase EXCEPT ![u] = "gone"]
  /\ k.inbox = [l.inbox EXCEPT ![u] = <<>>] /\ k.sound = [l.sound EXCEPT ![u] = "none"]
  /\ k.old = l.old /\ k.lost = l.lost /\ k.offered = l.offered \ {u}

LEMMA EndLine ==
  ASSUME NEW l, LineT(l), NEW u \in l.ends, NEW k,
         k = [l EXCEPT !.phase[u] = "gone", !.inbox[u] = <<>>,
                       !.sound[u] = "none", !.offered = @ \ {u}]
  PROVE  EndedBy(l, k, u)
<1>1. PICK ph, ib, sd, of :
        /\ ph = [l.phase EXCEPT ![u] = "gone"] /\ ib = [l.inbox EXCEPT ![u] = <<>>]
        /\ sd = [l.sound EXCEPT ![u] = "none"] /\ of = l.offered \ {u}
  OBVIOUS
<1>2. l \in Line(l.ends) /\ l.ends \subseteq Users
  BY DEF LineT
<1>3. ph \in [l.ends -> {"new", "up", "gone"}]
  BY <1>1, <1>2 DEF Line
<1>4. ib \in [l.ends -> Seq(Message)]
  BY <1>1, <1>2 DEF Line
<1>5. sd \in [l.ends -> Sounds] /\ of \in SUBSET l.ends
  BY <1>1, <1>2 DEF Line, Sounds
<1>6. k = [l EXCEPT !.phase = ph, !.inbox = ib, !.sound = sd, !.offered = of]
  BY <1>1
<1>7. /\ k \in Line(l.ends) /\ k.ends = l.ends /\ k.phase = ph /\ k.inbox = ib
      /\ k.old = l.old /\ k.sound = sd /\ k.offered = of /\ k.lost = l.lost
  BY <1>2, <1>3, <1>4, <1>5, <1>6 DEF Line
<1> QED
  BY <1>1, <1>7 DEF EndedBy, LineT, Paired

(* Another line between the same users, that a record or playback was of.   *)
SilencedBy(l, k, u, played) ==
  /\ Like(l, k) /\ k.inbox = l.inbox /\ k.old = l.old /\ k.offered = l.offered
  /\ k.lost = l.lost \cup {u}
  /\ k.sound = IF played THEN [l.sound EXCEPT ![u] = "none"] ELSE l.sound

LEMMA DisconnectedIs ==
  ASSUME Base, NEW u \in Users, NEW c \in Lines, Disconnected(u, c), NEW v, v = Far(u, c)
  PROVE  /\ tab' = tab /\ timers' = timers /\ DOMAIN lines' = Lines
         /\ v \in Users /\ u # v /\ lines[c].ends = {u, v} /\ lines[c].phase[u] # "gone"
         /\ peers' = [peers EXCEPT ![u][v] = NoRecord]
         /\ plays' = [plays EXCEPT ![u][v] = NoLine]
         /\ IF lines[c].phase[v] = "gone" THEN lines'[c] = Free
            ELSE EndedBy(lines[c], lines'[c], u)
         /\ \A d \in Lines \ {c} :
              IF d \in {peers[u][v].via, plays[u][v]}
              THEN SilencedBy(lines[d], lines'[d], u, d = plays[u][v])
              ELSE lines'[d] = lines[d]
<1>1. /\ tab' = tab /\ timers' = timers /\ u \in lines[c].ends /\ lines[c].phase[u] # "gone"
      /\ peers' = [peers EXCEPT ![u][v] = NoRecord]
      /\ plays' = [plays EXCEPT ![u][v] = NoLine]
  BY DEF Disconnected, Ends
<1>2. v \in Users /\ u # v /\ lines[c].ends = {u, v}
  BY <1>1, FarIs DEF Base
<1>3. PICK e : e = Ended(u, c)
  OBVIOUS
<1>4. EndedBy(lines[c], e, u)
  <2>1. PICK l : l = lines[c]
    OBVIOUS
  <2>2. LineT(l)
    BY <2>1 DEF Base, Typed
  <2> QED
    BY <1>1, <1>3, <2>1, <2>2, EndLine DEF Ended
<1>5. e.phase[v] = lines[c].phase[v]
  BY <1>2, <1>4, LineIs DEF EndedBy, Base
<1>6. PICK other : other = {peers[u][v].via, plays[u][v]} \ {c}
  OBVIOUS
<1>7. lines' = [d \in Lines |->
          IF d = c THEN IF e.phase[v] = "gone" THEN Free ELSE e
          ELSE IF d \notin other THEN lines[d]
          ELSE Lose(IF d = plays[u][v] THEN Mute(lines[d], u, "none") ELSE lines[d], u)]
  BY <1>3, <1>6 DEF Disconnected
<1>8. IF lines[c].phase[v] = "gone" THEN lines'[c] = Free ELSE EndedBy(lines[c], lines'[c], u)
  BY <1>4, <1>5, <1>7
<1>9. ASSUME NEW d \in Lines, d # c, d \in {peers[u][v].via, plays[u][v]}
      PROVE  SilencedBy(lines[d], lines'[d], u, d = plays[u][v])
  <2>1. u \in lines[d].ends
    BY <1>2, <1>9, PeersAssumption DEF Base, Placed, RecordGood, PlayGood, At
  <2>2. PICK l, j : l = lines[d] /\ j = IF d = plays[u][v] THEN Mute(lines[d], u, "none") ELSE lines[d]
    OBVIOUS
  <2>3. LineT(l) /\ u \in l.ends /\ "none" \in Sounds
    BY <2>1, <2>2 DEF Base, Typed, Sounds
  <2>4. CASE d = plays[u][v]
    <3>1. SoundsTo(l, j, u, "none")
      BY <2>2, <2>3, <2>4, MuteLine
    <3>2. LineT(j) /\ u \in j.ends
      BY <2>3, <3>1 DEF SoundsTo, Like
    <3>3. LostBy(j, lines'[d], u)
      BY <1>6, <1>7, <1>9, <2>2, <3>2, LoseLine
    <3> QED
      BY <2>2, <2>4, <3>1, <3>3 DEF SoundsTo, LostBy, SilencedBy, Like
  <2>5. CASE d # plays[u][v]
    <3>1. j = l
      BY <2>2, <2>5
    <3>2. LostBy(l, lines'[d], u)
      BY <1>6, <1>7, <1>9, <2>2, <2>3, <3>1, LoseLine
    <3> QED
      BY <2>2, <2>5, <3>2 DEF LostBy, SilencedBy
  <2> QED
    BY <2>4, <2>5
<1>10. ASSUME NEW d \in Lines, d # c, d \notin {peers[u][v].via, plays[u][v]}
       PROVE  lines'[d] = lines[d]
  BY <1>6, <1>7, <1>10
<1>11. DOMAIN lines' = Lines
  BY <1>7
<1> QED
  BY <1>1, <1>2, <1>8, <1>9, <1>10, <1>11

LEMMA DisconnectedBase ==
  ASSUME Base, NEW u \in Users, NEW c \in Lines, Disconnected(u, c)
  PROVE  Base'
<1>1. PICK v : v = Far(u, c)
  OBVIOUS
<1>2. /\ tab' = tab /\ timers' = timers /\ DOMAIN lines' = Lines
      /\ v \in Users /\ u # v /\ lines[c].ends = {u, v} /\ lines[c].phase[u] # "gone"
      /\ peers' = [peers EXCEPT ![u][v] = NoRecord]
      /\ plays' = [plays EXCEPT ![u][v] = NoLine]
      /\ IF lines[c].phase[v] = "gone" THEN lines'[c] = Free
         ELSE EndedBy(lines[c], lines'[c], u)
      /\ \A d \in Lines \ {c} :
           IF d \in {peers[u][v].via, plays[u][v]}
           THEN SilencedBy(lines[d], lines'[d], u, d = plays[u][v])
           ELSE lines'[d] = lines[d]
  BY <1>1, DisconnectedIs
<1>3. /\ peers' \in [Users -> [Users -> Record]] /\ peers'[u][v] = NoRecord
      /\ plays' \in [Users -> [Users -> Lines \cup {NoLine}]] /\ plays'[u][v] = NoLine
      /\ \A x, y \in Users : <<x, y>> # <<u, v>> =>
           peers'[x][y] = peers[x][y] /\ plays'[x][y] = plays[x][y]
  BY <1>2, RecordsTyped DEF Base, Typed
<1>4. ASSUME NEW d \in Lines
      PROVE  /\ LineT(lines'[d])
             /\ \/ lines'[d].ends = {}
                \/ /\ lines'[d].ends = lines[d].ends /\ lines[d].old \subseteq lines'[d].old
                   /\ \A w \in lines[d].ends : \/ lines'[d].phase[w] = lines[d].phase[w]
                                               \/ lines'[d].phase[w] = "gone" /\ d = c /\ w = u
  <2>1. CASE d = c /\ lines[c].phase[v] = "gone"
    BY <1>2, <2>1, NewLines
  <2>2. CASE d = c /\ lines[c].phase[v] # "gone"
    <3>1. lines[c].phase \in [lines[c].ends -> {"new", "up", "gone"}]
      BY LineIs DEF Base
    <3> QED
      BY <1>2, <2>2, <3>1 DEF EndedBy
  <2>3. CASE d # c
    BY <1>2, <2>3 DEF SilencedBy, Like, Base, Typed
  <2> QED
    BY <2>1, <2>2, <2>3
<1>5. Typed'
  BY <1>2, <1>3, <1>4 DEF Base, Typed
<1>6. Away'
  BY <1>2, <1>4 DEF Base, Away
<1>7. ASSUME NEW x, NEW y, NEW d, At(x, y, d), <<x, y>> # <<u, v>> PROVE At(x, y, d)'
  <2>1. CASE d = c
    <3>1. x = v /\ y = u /\ lines[c].phase[v] = "up"
      BY <1>2, <1>7, <2>1 DEF At
    <3> QED
      BY <1>2, <1>7, <2>1, <3>1, LineIs DEF At, EndedBy, Base
  <2>2. CASE d # c
    BY <1>2, <1>7, <2>2 DEF At, SilencedBy, Like
  <2> QED
    BY <2>1, <2>2
<1>8. ASSUME NEW x \in Users, NEW y \in Users PROVE RecordGood(x, y)' /\ PlayGood(x, y)'
  <2>1. RecordGood(x, y) /\ PlayGood(x, y)
    BY DEF Base, Placed
  <2>2. CASE <<x, y>> # <<u, v>>
    BY <1>2, <1>3, <1>7, <2>1, <2>2 DEF RecordGood, PlayGood
  <2>3. CASE x = u /\ y = v
    BY <1>3, <2>3, NoRecordGood DEF PlayGood
  <2> QED
    BY <2>2, <2>3
<1>9. OneLive'
  <2> SUFFICES ASSUME NEW d \in Lines, NEW e \in Lines, NEW w \in lines'[d].ends,
                      d # e, lines'[d].ends = lines'[e].ends
               PROVE  \/ w \in lines'[d].old \cup lines'[e].old
                      \/ lines'[d].phase[w] = "gone" \/ lines'[e].phase[w] = "gone"
    BY DEF OneLive
  <2>1. /\ w \in lines[d].ends /\ w \in lines[e].ends /\ lines[d].ends = lines[e].ends
        /\ lines[d].old \subseteq lines'[d].old /\ lines[e].old \subseteq lines'[e].old
        /\ lines[d].phase[w] = "gone" => lines'[d].phase[w] = "gone"
        /\ lines[e].phase[w] = "gone" => lines'[e].phase[w] = "gone"
    BY <1>4
  <2> QED
    BY <2>1 DEF Base, OneLive
<1> QED
  BY <1>5, <1>6, <1>8, <1>9 DEF Base, Placed

(* The first message to u has been taken, and answered to v.                *)
Reply(u, m) ==
  CASE m = "sendHandshake" -> "receivedHandshake"
    [] m = "receivedHandshake" /\ SendsOff(u) -> "off"
    [] OTHER -> "nothing"
HeardRecord(r, c, m) ==
  IF r.via # c \/ m = "receivedHandshake" THEN r
  ELSE IF m = "sendHandshake" THEN [r EXCEPT !.connected = TRUE]
  ELSE [r EXCEPT !.audio = (m = "on")]
OfferedNow(u, v, of, m) ==
  IF m = "receivedHandshake" /\ tab[u].in /\ tab[u].granted THEN of \cup {v} ELSE of
Taken(l, u) == [l.inbox EXCEPT ![u] = Tail(@)]
Took(l, u, of) == [l EXCEPT !.inbox[u] = Tail(@), !.offered = of]
ReceivedBy(l, k, u, v, reply, of) ==
  /\ Like(l, k) /\ k.sound = l.sound /\ k.old = l.old /\ k.lost = l.lost
  /\ k.offered = of
  /\ k.inbox = IF reply = "nothing" \/ l.phase[v] = "gone" THEN Taken(l, u)
               ELSE [Taken(l, u) EXCEPT ![v] = Append(@, reply)]

LEMMA TakeLine ==
  ASSUME NEW l, LineT(l), NEW u \in l.ends, l.inbox[u] # <<>>, NEW of \in SUBSET l.ends,
         NEW j, j = Took(l, u, of)
  PROVE  /\ Head(l.inbox[u]) \in Message
         /\ Like(l, j) /\ j.sound = l.sound /\ j.old = l.old /\ j.lost = l.lost
         /\ j.offered = of /\ j.inbox = Taken(l, u)
<1>1. l \in Line(l.ends) /\ l.ends \subseteq Users
  BY DEF LineT
<1>2. l.inbox[u] \in Seq(Message)
  BY <1>1 DEF Line
<1>3. Head(l.inbox[u]) \in Message /\ Tail(l.inbox[u]) \in Seq(Message)
  BY <1>2
<1>4. PICK q : q = Taken(l, u)
  OBVIOUS
<1>5. q \in [l.ends -> Seq(Message)]
  BY <1>1, <1>3, <1>4 DEF Line, Taken
<1>6. j = [l EXCEPT !.inbox = q, !.offered = of]
  BY <1>4 DEF Taken, Took
<1>7. /\ j \in Line(l.ends) /\ j.ends = l.ends /\ j.phase = l.phase /\ j.inbox = q
      /\ j.old = l.old /\ j.sound = l.sound /\ j.offered = of /\ j.lost = l.lost
  BY <1>1, <1>5, <1>6 DEF Line
<1> QED
  BY <1>3, <1>4, <1>7 DEF Like, LineT, Paired

LEMMA AnswerLine ==
  ASSUME NEW l, LineT(l), NEW u \in l.ends, NEW v \in l.ends, l.inbox[u] # <<>>,
         NEW of \in SUBSET l.ends, NEW k, NEW reply \in Message \cup {"nothing"},
         NEW j, j = Took(l, u, of),
         k = IF reply = "nothing" THEN j ELSE Say(j, v, reply)
  PROVE  ReceivedBy(l, k, u, v, reply, of)
<1>1. /\ Like(l, j) /\ j.sound = l.sound /\ j.old = l.old /\ j.lost = l.lost
      /\ j.offered = of /\ j.inbox = Taken(l, u)
  BY TakeLine
<1>2. CASE reply = "nothing"
  BY <1>1, <1>2 DEF ReceivedBy
<1>3. CASE reply # "nothing"
  <2>1. LineT(j) /\ v \in j.ends /\ reply \in Message
    BY <1>1, <1>3 DEF Like
  <2>2. SaidTo(j, k, v, reply)
    BY <1>3, <2>1, SayLine
  <2> QED
    BY <1>1, <1>3, <2>2 DEF SaidTo, ReceivedBy, Like
<1> QED
  BY <1>2, <1>3

LEMMA ReceiveIs ==
  ASSUME Base, NEW u \in Users, NEW c \in Lines, Receive(u, c), NEW v, v = Far(u, c),
         NEW m, m = Head(lines[c].inbox[u])
  PROVE  /\ tab' = tab /\ timers' = timers /\ plays' = plays /\ DOMAIN lines' = Lines
         /\ v \in Users /\ u # v /\ lines[c].ends = {u, v} /\ lines[c].phase[u] = "up"
         /\ lines[c].inbox[u] # <<>> /\ m \in Message
         /\ ReceivedBy(lines[c], lines'[c], u, v, Reply(u, m),
                       OfferedNow(u, v, lines[c].offered, m))
         /\ \A d \in Lines \ {c} : lines'[d] = lines[d]
         /\ peers' = [peers EXCEPT ![u][v] = HeardRecord(peers[u][v], c, m)]
<1>1. /\ tab' = tab /\ timers' = timers /\ plays' = plays
      /\ u \in lines[c].ends /\ lines[c].phase[u] = "up" /\ lines[c].inbox[u] # <<>>
      /\ peers' = [peers EXCEPT ![u][v] = HeardRecord(peers[u][v], c, m)]
  <2>1. /\ tab' = tab /\ timers' = timers /\ plays' = plays
        /\ u \in lines[c].ends /\ lines[c].phase[u] = "up" /\ lines[c].inbox[u] # <<>>
    BY DEF Receive, Up, Ends
  <2>2. PICK p : p = peers[u][v]
    OBVIOUS
  <2>3. PICK r : r = IF p.via # c THEN p
                   ELSE CASE m = "sendHandshake" -> [p EXCEPT !.connected = TRUE]
                          [] m \in {"off", "on"} -> [p EXCEPT !.audio = (m = "on")]
                          [] OTHER -> p
    OBVIOUS
  <2>4. peers' = [peers EXCEPT ![u][v] = r]
    BY <2>2, <2>3 DEF Receive
  <2>5. m \in Message
    <3>1. lines[c].inbox[u] \in Seq(Message)
      BY <2>1, LineIs DEF Base
    <3> QED
      BY <2>1, <3>1
  <2>6. r = HeardRecord(p, c, m)
    <3>1. CASE p.via # c \/ m = "receivedHandshake"
      BY <2>3, <3>1 DEF HeardRecord
    <3>2. CASE p.via = c /\ m = "sendHandshake"
      BY <2>3, <3>2 DEF HeardRecord
    <3>3. CASE p.via = c /\ m \in {"off", "on"}
      BY <2>3, <3>3 DEF HeardRecord
    <3> QED
      BY <2>5, <3>1, <3>2, <3>3 DEF Message
  <2> QED
    BY <2>1, <2>2, <2>4, <2>6
<1>2. v \in Users /\ u # v /\ lines[c].ends = {u, v}
  BY <1>1, FarIs DEF Base
<1>3. DOMAIN lines = Lines /\ LineT(lines[c])
  BY DEF Base, Typed
<1>4. PICK l, of, reply :
        /\ l = lines[c] /\ reply = Reply(u, m)
        /\ of = OfferedNow(u, v, lines[c].offered, m)
  OBVIOUS
<1>5. PICK j, k : /\ j = Took(l, u, of)
                  /\ k = IF reply = "nothing" THEN j ELSE Say(j, v, reply)
  OBVIOUS
<1>6. of \in SUBSET l.ends
  BY <1>2, <1>4, LineIs DEF Base, OfferedNow
<1>7. m \in Message
  BY <1>1, <1>3, <1>4, <1>5, <1>6, TakeLine
<1>8. reply \in Message \cup {"nothing"}
  BY <1>4 DEF Reply, Message
<1>9. ReceivedBy(l, k, u, v, reply, of)
  <2>1. LineT(l) /\ u \in l.ends /\ v \in l.ends /\ l.inbox[u] # <<>>
    BY <1>1, <1>2, <1>3, <1>4
  <2> QED
    BY <1>5, <1>6, <1>8, <2>1, AnswerLine
<1>10. Took(l, u, l.offered) = [l EXCEPT !.inbox[u] = Tail(@)]
  BY <1>3, <1>4 DEF LineT, Line, Took
<1>11. k = CASE m = "receivedHandshake" -> Shaken(u, c)
             [] m = "sendHandshake" -> Say([lines[c] EXCEPT !.inbox[u] = Tail(@)], v, "receivedHandshake")
             [] OTHER -> [lines[c] EXCEPT !.inbox[u] = Tail(@)]
  <2>1. CASE m = "sendHandshake"
    BY <1>4, <1>5, <1>10, <2>1 DEF Reply, OfferedNow
  <2>2. CASE m = "receivedHandshake"
    <3>1. [lines[c] EXCEPT !.inbox[u] = Tail(@),
             !.offered = IF tab[u].in /\ tab[u].granted THEN @ \cup {v} ELSE @] = j
      BY <1>4, <1>5, <2>2 DEF Took, OfferedNow
    <3>2. Shaken(u, c) = IF SendsOff(u) THEN Say(j, v, "off") ELSE j
      BY <3>1 DEF Shaken
    <3> QED
      BY <1>4, <1>5, <2>2, <3>2 DEF Reply
  <2>3. CASE m \notin {"sendHandshake", "receivedHandshake"}
    BY <1>4, <1>5, <1>10, <2>3 DEF Reply, OfferedNow
  <2> QED
    BY <2>1, <2>2, <2>3
<1>12. lines' = [lines EXCEPT ![c] = k]
  BY <1>11 DEF Receive
<1>13. DOMAIN lines' = Lines /\ lines'[c] = k /\ \A d \in Lines \ {c} : lines'[d] = lines[d]
  BY <1>3, <1>12
<1> QED
  BY <1>1, <1>2, <1>4, <1>7, <1>9, <1>13

LEMMA ReceiveBase ==
  ASSUME Base, NEW u \in Users, NEW c \in Lines, Receive(u, c)
  PROVE  Base'
<1>1. PICK v, m, r :
        /\ v = Far(u, c) /\ m = Head(lines[c].inbox[u])
        /\ r = HeardRecord(peers[u][v], c, m)
  OBVIOUS
<1>2. /\ tab' = tab /\ timers' = timers /\ plays' = plays /\ DOMAIN lines' = Lines
      /\ v \in Users /\ Like(lines[c], lines'[c]) /\ \A d \in Lines \ {c} : lines'[d] = lines[d]
      /\ peers' = [peers EXCEPT ![u][v] = r]
  <2>1. peers' = [peers EXCEPT ![u][v] = HeardRecord(peers[u][v], c, m)]
    BY <1>1, ReceiveIs
  <2>2. /\ tab' = tab /\ timers' = timers /\ plays' = plays /\ DOMAIN lines' = Lines
        /\ v \in Users /\ \A d \in Lines \ {c} : lines'[d] = lines[d]
    BY <1>1, ReceiveIs
  <2>3. Like(lines[c], lines'[c])
    BY <1>1, ReceiveIs DEF ReceivedBy
  <2> QED
    BY <1>1, <2>1, <2>2, <2>3
<1>3. peers[u][v] \in Record
  BY <1>2 DEF Base, Typed
<1>4. /\ r \in Record /\ r.via = peers[u][v].via /\ r.listed = peers[u][v].listed
      /\ (r.via = NoLine => r.connected = peers[u][v].connected)
  <2>1. CASE peers[u][v].via # c \/ m = "receivedHandshake"
    BY <1>1, <1>3, <2>1 DEF HeardRecord
  <2>2. CASE ~(peers[u][v].via # c \/ m = "receivedHandshake") /\ m = "sendHandshake"
    <3>1. r = [peers[u][v] EXCEPT !.connected = TRUE]
      BY <1>1, <2>2 DEF HeardRecord
    <3> QED
      BY <1>3, <2>2, <3>1, PeersAssumption DEF Record
  <2>3. CASE ~(peers[u][v].via # c \/ m = "receivedHandshake") /\ m # "sendHandshake"
    <3>1. r = [peers[u][v] EXCEPT !.audio = (m = "on")]
      BY <1>1, <2>3 DEF HeardRecord
    <3>2. (m = "on") \in BOOLEAN
      OBVIOUS
    <3> QED
      BY <1>3, <2>3, <3>1, <3>2 DEF Record
  <2> QED
    BY <2>1, <2>2, <2>3
<1>5. AllLike
  BY <1>2, LikeItself DEF AllLike, Base, Typed
<1>6. /\ peers' \in [Users -> [Users -> Record]] /\ peers'[u][v] = r
      /\ \A x, y \in Users : <<x, y>> # <<u, v>> => peers'[x][y] = peers[x][y]
  BY <1>2, <1>4 DEF Base, Typed
<1>7. RecordGood(u, v)'
  BY <1>2, <1>4, <1>5, <1>6, AtLike DEF Base, Placed, RecordGood
<1>8. Away'
  BY <1>2, <1>5 DEF Base, Away, AllLike, Like
<1>9. ASSUME NEW x \in Users, NEW y \in Users
      PROVE  \/ peers'[x][y] = peers[x][y] /\ timers'[x][y] = timers[x][y]
             \/ RecordGood(x, y)'
  BY <1>2, <1>6, <1>7
<1> QED
  BY <1>2, <1>5, <1>6, <1>8, <1>9, BaseLike DEF Base, Typed

(* The stream of the other end is played. *)
StreamedBy(l, k, u, s, again) ==
  /\ Like(l, k) /\ k.inbox = l.inbox /\ k.old = l.old /\ k.offered = l.offered \ {u}
  /\ k.sound = [l.sound EXCEPT ![u] = s]
  /\ k.lost = IF again THEN l.lost \cup {u} ELSE l.lost
Speaker(u) == IF tab[u].speaker THEN "on" ELSE "muted"

LEMMA StreamLine ==
  ASSUME NEW l, LineT(l), NEW u \in l.ends, NEW s \in Sounds, NEW again \in BOOLEAN,
         NEW j, j = Mute([l EXCEPT !.offered = @ \ {u}], u, s),
         NEW k, k = IF again THEN Lose(j, u) ELSE j
  PROVE  StreamedBy(l, k, u, s, again)
<1>1. PICK i : i = [l EXCEPT !.offered = @ \ {u}]
  OBVIOUS
<1>2. l \in Line(l.ends) /\ l.ends \subseteq Users
  BY DEF LineT
<1>3. /\ i \in Line(l.ends) /\ i.ends = l.ends /\ i.phase = l.phase /\ i.inbox = l.inbox
      /\ i.old = l.old /\ i.sound = l.sound /\ i.offered = l.offered \ {u} /\ i.lost = l.lost
  BY <1>1, <1>2 DEF Line
<1>4. LineT(i) /\ u \in i.ends
  BY <1>3 DEF LineT, Paired
<1>5. SoundsTo(i, j, u, s)
  BY <1>1, <1>4, MuteLine
<1>6. LineT(j) /\ u \in j.ends
  BY <1>4, <1>5 DEF SoundsTo, Like
<1>7. CASE again
  <2>1. LostBy(j, k, u)
    BY <1>6, <1>7, LoseLine
  <2> QED
    BY <1>3, <1>5, <1>7, <2>1 DEF SoundsTo, LostBy, StreamedBy, Like
<1>8. CASE ~again
  BY <1>3, <1>5, <1>8 DEF SoundsTo, StreamedBy, Like
<1> QED
  BY <1>7, <1>8

LEMMA StreamIs ==
  ASSUME Base, NEW u \in Users, NEW c \in Lines, StreamArrives(u, c), NEW v, v = Far(u, c)
  PROVE  /\ tab' = tab /\ timers' = timers /\ peers' = peers /\ DOMAIN lines' = Lines
         /\ v \in Users /\ u # v /\ lines[c].ends = {u, v} /\ lines[c].phase[u] = "up"
         /\ u \in lines[c].offered
         /\ StreamedBy(lines[c], lines'[c], u, Speaker(u), plays[u][v] = c)
         /\ \A d \in Lines \ {c} : IF d = plays[u][v] THEN LostBy(lines[d], lines'[d], u)
                                   ELSE lines'[d] = lines[d]
         /\ plays' = [plays EXCEPT ![u][v] = c]
<1>1. /\ tab' = tab /\ timers' = timers /\ peers' = peers
      /\ u \in lines[c].ends /\ lines[c].phase[u] = "up" /\ u \in lines[c].offered
      /\ plays' = [plays EXCEPT ![u][v] = c]
  BY DEF StreamArrives, Up, Ends
<1>2. v \in Users /\ u # v /\ lines[c].ends = {u, v}
  BY <1>1, FarIs DEF Base
<1>3. DOMAIN lines = Lines /\ LineT(lines[c])
  BY DEF Base, Typed
<1>4. PICK s, k, again : /\ s = Speaker(u) /\ k = lines[c] /\ again = (plays[u][v] = c)
  OBVIOUS
<1>5. PICK j : j = Mute([k EXCEPT !.offered = @ \ {u}], u, s)
  OBVIOUS
<1>6. PICK l : l = [lines EXCEPT ![c] = j]
  OBVIOUS
<1>7. lines' = [d \in Lines |-> IF d = plays[u][v] THEN Lose(l[d], u) ELSE l[d]]
  BY <1>4, <1>5, <1>6 DEF StreamArrives, Speaker
<1>8. l[c] = j /\ \A d \in Lines \ {c} : l[d] = lines[d]
  BY <1>3, <1>6
<1>9. StreamedBy(lines[c], lines'[c], u, s, again)
  <2>1. s \in Sounds /\ again \in BOOLEAN
    BY <1>4 DEF Speaker, Sounds
  <2>2. PICK i : i = IF again THEN Lose(j, u) ELSE j
    OBVIOUS
  <2>3. lines'[c] = i
    BY <1>4, <1>7, <1>8, <2>2
  <2>4. StreamedBy(k, i, u, s, again)
    BY <1>1, <1>3, <1>4, <1>5, <2>1, <2>2, StreamLine
  <2> QED
    BY <1>4, <2>3, <2>4
<1>10. ASSUME NEW d \in Lines, d # c, d = plays[u][v] PROVE LostBy(lines[d], lines'[d], u)
  <2>1. u \in lines[d].ends
    BY <1>2, <1>10, PeersAssumption DEF Base, Placed, PlayGood, At
  <2>2. lines'[d] = Lose(lines[d], u)
    BY <1>7, <1>8, <1>10
  <2> QED
    BY <2>1, <2>2, LoseIs DEF Base
<1>11. ASSUME NEW d \in Lines, d # c, d # plays[u][v] PROVE lines'[d] = lines[d]
  BY <1>7, <1>8, <1>11
<1>12. DOMAIN lines' = Lines
  BY <1>7
<1> QED
  BY <1>1, <1>2, <1>4, <1>9, <1>10, <1>11, <1>12

LEMMA StreamBase ==
  ASSUME Base, NEW u \in Users, NEW c \in Lines, StreamArrives(u, c)
  PROVE  Base'
<1>1. PICK v : v = Far(u, c)
  OBVIOUS
<1>2. /\ tab' = tab /\ timers' = timers /\ peers' = peers /\ DOMAIN lines' = Lines
      /\ v \in Users /\ u # v /\ lines[c].ends = {u, v} /\ lines[c].phase[u] = "up"
      /\ StreamedBy(lines[c], lines'[c], u, Speaker(u), plays[u][v] = c)
      /\ \A d \in Lines \ {c} : IF d = plays[u][v] THEN LostBy(lines[d], lines'[d], u)
                                ELSE lines'[d] = lines[d]
      /\ plays' = [plays EXCEPT ![u][v] = c]
  BY <1>1, StreamIs
<1>3. AllLike
  BY <1>2, LikeItself DEF AllLike, StreamedBy, LostBy, Base, Typed
<1>4. /\ plays' \in [Users -> [Users -> Lines \cup {NoLine}]] /\ plays'[u][v] = c
      /\ \A x, y \in Users : <<x, y>> # <<u, v>> => plays'[x][y] = plays[x][y]
  BY <1>2 DEF Base, Typed
<1>5. PlayGood(u, v)'
  <2>1. At(u, v, c)
    BY <1>2 DEF At
  <2> QED
    BY <1>3, <1>4, <2>1, AtLike DEF PlayGood
<1>6. Away'
  BY <1>2, <1>3 DEF Base, Away, AllLike, Like
<1>7. ASSUME NEW x \in Users, NEW y \in Users
      PROVE  plays'[x][y] \in {plays[x][y], NoLine} \/ PlayGood(x, y)'
  BY <1>4, <1>5
<1> QED
  BY <1>2, <1>3, <1>4, <1>6, <1>7, BaseLike DEF Base, Typed

(* A button: what u hears over its line to v, and what it tells v.          *)
TurnedBy(l, k, u, v, playing, s, told, m) ==
  /\ Like(l, k) /\ k.old = l.old /\ k.lost = l.lost /\ k.offered = l.offered
  /\ k.sound = IF playing THEN [l.sound EXCEPT ![u] = s] ELSE l.sound
  /\ k.inbox = IF told /\ l.phase[v] # "gone" THEN [l.inbox EXCEPT ![v] = Append(@, m)]
               ELSE l.inbox

LEMMA TurnLine ==
  ASSUME NEW l, LineT(l), NEW u \in l.ends, NEW v \in l.ends, NEW s \in Sounds,
         NEW playing \in BOOLEAN, NEW told \in BOOLEAN, NEW m \in Message,
         NEW j, j = IF playing THEN Mute(l, u, s) ELSE l,
         NEW k, k = IF told THEN Say(j, v, m) ELSE j
  PROVE  TurnedBy(l, k, u, v, playing, s, told, m)
<1>1. /\ Like(l, j) /\ j.old = l.old /\ j.lost = l.lost /\ j.offered = l.offered
      /\ j.inbox = l.inbox /\ j.sound = IF playing THEN [l.sound EXCEPT ![u] = s] ELSE l.sound
  BY MuteLine, LikeItself DEF SoundsTo
<1>2. CASE told
  <2>1. SaidTo(j, k, v, m)
    BY <1>1, <1>2, SayLine DEF Like
  <2> QED
    BY <1>1, <1>2, <2>1 DEF SaidTo, TurnedBy, Like
<1>3. CASE ~told
  BY <1>1, <1>3 DEF TurnedBy
<1> QED
  BY <1>2, <1>3

IsTold(u, d) == peers[u][Far(u, d)].via = d /\ peers[u][Far(u, d)].connected
IsPlayed(u, d) == plays[u][Far(u, d)] = d

LEMMA ToldIs ==
  ASSUME Base, NEW u \in Users, NEW d \in Lines
  PROVE  d \in Told(u) <=> u \in lines[d].ends /\ IsTold(u, d)
<1>1. ASSUME d \in Told(u) PROVE u \in lines[d].ends /\ IsTold(u, d)
  <2>1. PICK v \in Users : peers[u][v].connected /\ peers[u][v].via = d
    BY <1>1 DEF Told
  <2>2. u # v /\ u \in lines[d].ends /\ v \in lines[d].ends
    BY <2>1, PeersAssumption DEF Base, Placed, RecordGood, At
  <2>3. v = Far(u, d)
    BY <2>2, FarIs DEF Base
  <2> QED
    BY <2>1, <2>2, <2>3 DEF IsTold
<1>2. ASSUME u \in lines[d].ends, IsTold(u, d) PROVE d \in Told(u)
  BY <1>2, FarIs DEF Base, IsTold, Told
<1> QED
  BY <1>1, <1>2

LEMMA PlayedIs ==
  ASSUME Base, NEW u \in Users, NEW d \in Lines
  PROVE  (\E v \in Users : plays[u][v] = d) <=> u \in lines[d].ends /\ IsPlayed(u, d)
<1>1. ASSUME NEW v \in Users, plays[u][v] = d PROVE u \in lines[d].ends /\ IsPlayed(u, d)
  <2>1. u # v /\ u \in lines[d].ends /\ v \in lines[d].ends
    BY <1>1, PeersAssumption DEF Base, Placed, PlayGood, At
  <2>2. v = Far(u, d)
    BY <2>1, FarIs DEF Base
  <2> QED
    BY <1>1, <2>1, <2>2 DEF IsPlayed
<1>2. ASSUME u \in lines[d].ends, IsPlayed(u, d) PROVE \E v \in Users : plays[u][v] = d
  BY <1>2, FarIs DEF Base, IsPlayed
<1> QED
  BY <1>1, <1>2

(* A click on a button: heard says that it is about the sound, which is s   *)
(* from then on, said that those who shook hands are told m.                *)
Turned(u, heard, s, said, m) ==
  /\ DOMAIN lines' = Lines
  /\ \A d \in Lines :
       IF u \in lines[d].ends
       THEN TurnedBy(lines[d], lines'[d], u, Far(u, d), heard /\ IsPlayed(u, d), s,
                     said /\ IsTold(u, d), m)
       ELSE lines'[d] = lines[d]
Clicked(u, heard, s, said, m) ==
  /\ tab[u].in /\ peers' = peers /\ timers' = timers /\ plays' = plays
  /\ tab' \in [Users -> Panel] /\ \A x \in Users \ {u} : tab'[x] = tab[x]
  /\ tab'[u].in /\ tab'[u].granted = tab[u].granted
  /\ IF heard THEN s = IF tab'[u].speaker THEN "on" ELSE "muted"
     ELSE tab'[u].speaker = tab[u].speaker
  /\ IF said THEN m = IF tab'[u].mic THEN "on" ELSE "off" ELSE tab'[u].mic = tab[u].mic
  /\ Turned(u, heard, s, said, m)

Sounding(l, u, heard, s) ==
  \A d \in Lines : l[d] = IF heard /\ \E v \in Users : plays[u][v] = d
                         THEN Mute(lines[d], u, s) ELSE lines[d]
Telling(l, u, said, m) == IF said THEN Tell(l, u, m) ELSE l

LEMMA TurnedIs ==
  ASSUME Base, NEW u \in Users, NEW heard \in BOOLEAN, NEW s \in Sounds,
         NEW said \in BOOLEAN, NEW m \in Message,
         NEW l, Sounding(l, u, heard, s), said \/ DOMAIN l = Lines,
         lines' = Telling(l, u, said, m)
  PROVE  Turned(u, heard, s, said, m)
<1>1. DOMAIN lines' = Lines
  BY DEF Telling, Tell
<1>2. ASSUME NEW d \in Lines, u \in lines[d].ends
      PROVE  TurnedBy(lines[d], lines'[d], u, Far(u, d), heard /\ IsPlayed(u, d), s,
                      said /\ IsTold(u, d), m)
  <2>1. PICK h, p, t, v : /\ h = lines[d] /\ p = (heard /\ IsPlayed(u, d))
                          /\ t = (said /\ IsTold(u, d)) /\ v = Far(u, d)
    OBVIOUS
  <2>2. PICK j, k : /\ j = IF p THEN Mute(h, u, s) ELSE h
                    /\ k = IF t THEN Say(j, v, m) ELSE j
    OBVIOUS
  <2>3. /\ LineT(h) /\ u \in h.ends /\ v \in h.ends /\ p \in BOOLEAN /\ t \in BOOLEAN
    BY <1>2, <2>1, FarIs DEF Base, Typed
  <2>4. TurnedBy(h, k, u, v, p, s, t, m)
    BY <2>2, <2>3, TurnLine
  <2>5. l[d] = j
    <3>1. p <=> heard /\ \E x \in Users : plays[u][x] = d
      BY <1>2, <2>1, PlayedIs
    <3>2. l[d] = IF heard /\ \E x \in Users : plays[u][x] = d THEN Mute(h, u, s) ELSE h
      BY <2>1 DEF Sounding
    <3>3. CASE p
      BY <2>2, <3>1, <3>2, <3>3
    <3>4. CASE ~p
      BY <2>2, <3>1, <3>2, <3>4
    <3> QED
      BY <3>3, <3>4
  <2>6. lines'[d] = k
    BY <1>2, <2>1, <2>2, <2>5, ToldIs DEF Telling, Tell
  <2> QED
    BY <2>1, <2>4, <2>6
<1>3. ASSUME NEW d \in Lines, u \notin lines[d].ends PROVE lines'[d] = lines[d]
  <2>1. l[d] = lines[d]
    BY <1>3, PlayedIs DEF Sounding
  <2> QED
    BY <1>3, <2>1, ToldIs DEF Telling, Tell
<1> QED
  BY <1>1, <1>2, <1>3 DEF Turned

LEMMA MicrophoneIs ==
  ASSUME Base, NEW u \in Users, ToggleMicrophone(u)
  PROVE  \E m \in {"on", "off"} : Clicked(u, FALSE, "none", TRUE, m)
<1>1. PICK m : m = IF tab[u].mic THEN "off" ELSE "on"
  OBVIOUS
<1>2. tab[u] \in Panel
  BY DEF Base, Typed
<1>3. /\ tab' \in [Users -> Panel] /\ \A x \in Users \ {u} : tab'[x] = tab[x]
      /\ tab'[u].in = tab[u].in /\ tab'[u].granted = tab[u].granted
      /\ tab'[u].speaker = tab[u].speaker /\ tab'[u].mic = ~tab[u].mic
  BY <1>2 DEF ToggleMicrophone, Base, Typed, Panel
<1>4. Turned(u, FALSE, "none", TRUE, m)
  <2>1. PICK l : l = lines
    OBVIOUS
  <2>2. Sounding(l, u, FALSE, "none")
    BY <2>1 DEF Sounding
  <2>3. lines' = Telling(l, u, TRUE, m)
    BY <1>1, <2>1 DEF ToggleMicrophone, Telling
  <2>4. m \in Message /\ "none" \in Sounds
    BY <1>1 DEF Message, Sounds
  <2> QED
    BY <2>2, <2>3, <2>4, TurnedIs
<1>5. tab[u].in /\ peers' = peers /\ timers' = timers /\ plays' = plays
  BY DEF ToggleMicrophone
<1> QED
  BY <1>1, <1>3, <1>4, <1>5 DEF Clicked

LEMMA SpeakerIs ==
  ASSUME Base, NEW u \in Users, ToggleSpeaker(u)
  PROVE  \E s \in {"on", "muted"}, said \in BOOLEAN : Clicked(u, TRUE, s, said, "off")
<1>1. PICK off, s : /\ off = (tab[u].speaker /\ tab[u].mic)
                    /\ s = IF ~tab[u].speaker THEN "on" ELSE "muted"
  OBVIOUS
<1>2. tab[u] \in Panel
  BY DEF Base, Typed
<1>3. /\ tab' \in [Users -> Panel] /\ \A x \in Users \ {u} : tab'[x] = tab[x]
      /\ tab'[u].in = tab[u].in /\ tab'[u].granted = tab[u].granted
      /\ tab'[u].speaker = ~tab[u].speaker /\ tab'[u].mic = (tab[u].mic /\ ~off)
  BY <1>1, <1>2 DEF ToggleSpeaker, Base, Typed, Panel
<1>4. Turned(u, TRUE, s, off, "off")
  <2>1. PICK l : l = SetSpeaker(u, ~tab[u].speaker)
    OBVIOUS
  <2>2. DOMAIN l = Lines /\ Sounding(l, u, TRUE, s)
    BY <1>1, <2>1 DEF SetSpeaker, Sounding
  <2>3. lines' = Telling(l, u, off, "off")
    BY <1>1, <2>1 DEF ToggleSpeaker, Telling
  <2>4. "off" \in Message /\ s \in Sounds /\ off \in BOOLEAN
    BY <1>1, <1>2 DEF Message, Sounds, Panel
  <2> QED
    BY <2>2, <2>3, <2>4, TurnedIs
<1>5. tab[u].in /\ peers' = peers /\ timers' = timers /\ plays' = plays
  BY DEF ToggleSpeaker
<1> QED
  BY <1>1, <1>2, <1>3, <1>4, <1>5 DEF Clicked, Panel

LEMMA ControlsAre ==
  ASSUME Base, NEW u \in Users, VoiceControls(u)
  PROVE  \E heard, said \in BOOLEAN, s \in Sounds, m \in {"on", "off"} :
           Clicked(u, heard, s, said, m)
BY MicrophoneIs, SpeakerIs DEF VoiceControls, Sounds

LEMMA ControlsBase ==
  ASSUME Base, NEW u \in Users, VoiceControls(u)
  PROVE  Base'
<1>1. PICK heard \in BOOLEAN, said \in BOOLEAN, s \in Sounds, m \in {"on", "off"} :
        Clicked(u, heard, s, said, m)
  BY ControlsAre
<1>2. AllLike
  <2> SUFFICES ASSUME NEW d \in Lines PROVE Like(lines[d], lines'[d])
    BY <1>1 DEF AllLike, Clicked, Turned
  <2> QED
    BY <1>1, LikeItself DEF Clicked, Turned, TurnedBy, Base, Typed
<1>3. Away'
  <2>1. /\ timers' = timers /\ \A x \in Users : ~tab'[x].in => ~tab[x].in
        /\ \A d \in Lines : lines'[d].ends = lines[d].ends /\ lines[d].old \subseteq lines'[d].old
    BY <1>1, <1>2 DEF Clicked, AllLike, Like
  <2> QED
    BY <2>1 DEF Base, Away
<1> QED
  BY <1>1, <1>2, <1>3, BaseLike DEF Base, Typed, Clicked

-----------------------------------------------------------------------------
LEMMA BaseBegins == Init => Base
<1> SUFFICES ASSUME Init PROVE Base
  OBVIOUS
<1>1. Typed
  BY NewLines, RecordsTyped DEF Init, Typed, Panel
<1>2. Away /\ OneLive
  BY NewLines DEF Init, Away, OneLive
<1>3. Placed
  BY DEF Init, Placed, RecordGood, PlayGood, NoRecord
<1> QED
  BY <1>1, <1>2, <1>3 DEF Base

LEMMA BaseStep == Base /\ [Next]_vars => Base'
<1> SUFFICES ASSUME Base, [Next]_vars PROVE Base'
  OBVIOUS
<1>1. CASE \E u \in Users, g \in BOOLEAN : Join(u, g)
  BY <1>1, JoinBase
<1>2. CASE \E u \in Users : Leave(u) \/ MoveOn(u)
  BY <1>2, LeaveBase
<1>3. CASE \E u \in Users : VoiceControls(u)
  BY <1>3, ControlsBase
<1>4. CASE \E u, v \in Users : HubPeer(u, v)
  BY <1>4, HubPeerBase
<1>5. CASE \E u, v \in Users : TimerFires(u, v)
  BY <1>5, TimerBase
<1>6. CASE \E u, v \in Users, c \in Lines : Dial(u, v, c)
  BY <1>6, DialBase
<1>7. CASE \E u \in Users, c \in Lines : Connected(u, c)
  BY <1>7, ConnectedBase
<1>8. CASE \E u \in Users, c \in Lines : Disconnected(u, c)
  BY <1>8, DisconnectedBase
<1>9. CASE \E u \in Users, c \in Lines : Receive(u, c)
  BY <1>9, ReceiveBase
<1>10. CASE \E u \in Users, c \in Lines : StreamArrives(u, c)
  BY <1>10, StreamBase
<1>11. CASE UNCHANGED vars
  BY <1>11 DEF vars, Base, Typed, Away, Placed, RecordGood, PlayGood, At, OneLive
<1> QED
  BY <1>1, <1>2, <1>3, <1>4, <1>5, <1>6, <1>7, <1>8, <1>9, <1>10, <1>11 DEF Next

LEMMA BaseHolds == Spec => []Base
BY BaseBegins, BaseStep, PTL DEF Spec

(* Every variable keeps to its type, and no timer outlives its session.     *)
THEOREM TypeCorrect == Spec => []TypeOK
<1>1. Base => TypeOK
  <2> SUFFICES ASSUME Base PROVE TypeOK
    OBVIOUS
  <2>1. \A u, v \in Users : timers[u][v] \in Nat /\ (~tab[u].in => timers[u][v] = 0)
    BY DEF Base, Typed, Away
  <2>2. ASSUME NEW c \in Lines, NEW u \in lines[c].ends
        PROVE  Range(lines[c].inbox[u]) \subseteq Message
    <3>1. lines[c].inbox[u] \in Seq(Message)
      BY LineIs DEF Base
    <3> QED
      BY <3>1 DEF Range
  <2>3. ASSUME NEW c \in Lines
        PROVE  LET l == lines[c] IN
               /\ l.ends \subseteq Users /\ l.old \cup l.offered \cup l.lost \subseteq l.ends
               /\ l.phase \in [l.ends -> {"new", "up", "gone"}]
               /\ l.sound \in [l.ends -> {"none", "on", "muted"}]
               /\ \A u \in l.ends : Range(l.inbox[u]) \subseteq Message
    BY <2>2, LineIs DEF Base, Sounds
  <2> QED
    BY <2>1, <2>3 DEF Base, Typed, TypeOK
<1> QED
  BY <1>1, BaseHolds, PTL

(* No entry of a roster is there for good: a timer runs for it, or its line *)
(* is up (voiceSession.js registerHubPeer, attachPeer and detachPeer).      *)
THEOREM EntriesGo == Spec => []NoGhosts
<1>1. Base => NoGhosts
  BY PeersAssumption DEF Base, Placed, RecordGood, At, NoGhosts, Up, Ends
<1> QED
  BY <1>1, BaseHolds, PTL

(* Of two lines between the same users that both go on, one is of a closed  *)
(* session. *)
LEMMA OtherIsOld ==
  ASSUME Base, NEW u \in Users, NEW v \in Users, NEW c \in Lines, NEW d \in Lines,
         u # v, c # d, lines[c].ends = {u, v}, lines[d].ends = {u, v},
         lines[c].phase[u] # "gone", lines[d].phase[u] # "gone"
  PROVE  u \in lines[c].old \cup lines[d].old
BY DEF Base, OneLive

LEMMA StayStep ==
  ASSUME Base, [Next]_vars, NEW u \in Users, NEW v \in Users, NEW c \in Lines,
         peers[u][v].via = c, peers[u][v].connected, peers'[u][v].via # c
  PROVE  \/ ~tab'[u].in
         \/ c \in Ends(u) /\ (lines'[c] = Free \/ lines'[c].phase[u] = "gone")
         \/ \E d \in Ends(u) : /\ u \in lines[c].old \cup lines[d].old
                               /\ lines'[d] = Free \/ lines'[d].phase[u] # lines[d].phase[u]
<1>1. /\ u # v /\ peers[u][v].listed /\ lines[c].ends = {u, v} /\ lines[c].phase[u] = "up"
  <2>1. peers[u][v].listed /\ At(u, v, c)
    BY PeersAssumption DEF Base, Placed, RecordGood
  <2>2. LineT(lines[c])
    BY DEF Base, Typed
  <2> QED
    BY <2>1, <2>2 DEF At, LineT, Paired
<1>2. ASSUME NEW x \in Users, Leave(x) \/ MoveOn(x) PROVE ~tab'[u].in
  <2>1. Close(x)
    BY <1>2 DEF Leave, MoveOn
  <2>2. x = u
    BY <2>1, CloseIs
  <2>3. ~tab'[x].in
    BY <1>2, LeaveBase
  <2> QED
    BY <2>2, <2>3
<1>3. ASSUME NEW x \in Users, NEW y \in Users, HubPeer(x, y) PROVE FALSE
  <2>1. ~peers[x][y].listed /\ \E r : peers' = [peers EXCEPT ![x][y] = r]
    BY <1>3 DEF HubPeer
  <2>2. peers'[u][v] = peers[u][v]
    BY <1>1, <2>1 DEF Base, Typed
  <2> QED
    BY <2>2
<1>4. ASSUME NEW x \in Users, NEW y \in Users, TimerFires(x, y) PROVE FALSE
  <2>1. peers'[u][v] = peers[u][v]
    BY <1>4, TimerIs
  <2> QED
    BY <2>1
<1>5. ASSUME NEW x \in Users, NEW d \in Lines, Connected(x, d)
      PROVE  \E e \in Ends(u) : /\ u \in lines[c].old \cup lines[e].old
                                /\ lines'[e].phase[u] # lines[e].phase[u]
  <2>1. PICK y, r : y = Far(x, d) /\ r = [listed |-> TRUE, via |-> d,
                        connected |-> peers[x][y].connected, audio |-> TRUE]
    OBVIOUS
  <2>2. /\ y \in Users /\ x # y /\ lines[d].ends = {x, y} /\ lines[d].phase[x] = "new"
        /\ peers' = [peers EXCEPT ![x][y] = r] /\ OpenedBy(lines[d], lines'[d], x, y)
    BY <1>5, <2>1, ConnectedIs
  <2>3. r.via = d
    BY <2>1
  <2>4. x = u /\ y = v /\ c # d
    BY <2>2, <2>3 DEF Base, Typed
  <2>5. u \in lines[c].old \cup lines[d].old
    BY <1>1, <2>2, <2>4, OtherIsOld
  <2>6. lines[d].phase \in [lines[d].ends -> {"new", "up", "gone"}]
    BY LineIs DEF Base
  <2>7. lines'[d].phase[u] = "up"
    BY <2>2, <2>4, <2>6 DEF OpenedBy
  <2> QED
    BY <2>2, <2>4, <2>5, <2>7 DEF Ends
<1>6. ASSUME NEW x \in Users, NEW d \in Lines, Disconnected(x, d)
      PROVE  \/ c \in Ends(u) /\ (lines'[c] = Free \/ lines'[c].phase[u] = "gone")
             \/ \E e \in Ends(u) : /\ u \in lines[c].old \cup lines[e].old
                                   /\ lines'[e] = Free \/ lines'[e].phase[u] # lines[e].phase[u]
  <2>1. PICK y : y = Far(x, d)
    OBVIOUS
  <2>2. /\ y \in Users /\ x # y /\ lines[d].ends = {x, y} /\ lines[d].phase[x] # "gone"
        /\ peers' = [peers EXCEPT ![x][y] = NoRecord]
        /\ IF lines[d].phase[y] = "gone" THEN lines'[d] = Free
           ELSE EndedBy(lines[d], lines'[d], x)
    BY <1>6, <2>1, DisconnectedIs
  <2>3. x = u /\ y = v
    BY <2>2 DEF Base, Typed
  <2>4. lines[d].phase \in [lines[d].ends -> {"new", "up", "gone"}]
    BY LineIs DEF Base
  <2>5. lines'[d] = Free \/ lines'[d].phase[u] = "gone"
    BY <2>2, <2>3, <2>4 DEF EndedBy
  <2>6. CASE d = c
    BY <1>1, <2>5, <2>6 DEF Ends
  <2>7. CASE d # c
    <3>1. u \in lines[c].old \cup lines[d].old
      BY <1>1, <2>2, <2>3, <2>7, OtherIsOld
    <3> QED
      BY <2>2, <2>3, <2>5, <3>1 DEF Ends
  <2> QED
    BY <2>6, <2>7
<1>7. ASSUME NEW x \in Users, NEW d \in Lines, Receive(x, d) PROVE FALSE
  <2>1. PICK y, m, r : /\ y = Far(x, d) /\ m = Head(lines[d].inbox[x])
                       /\ r = HeardRecord(peers[x][y], d, m)
    OBVIOUS
  <2>2. y \in Users /\ peers' = [peers EXCEPT ![x][y] = HeardRecord(peers[x][y], d, m)]
    BY <1>7, <2>1, ReceiveIs
  <2>3. peers[x][y] \in Record
    BY <2>2 DEF Base, Typed
  <2>4. r.via = peers[x][y].via
    BY <2>1, <2>3 DEF HeardRecord, Record
  <2> QED
    BY <2>1, <2>2, <2>4 DEF Base, Typed
<1>8. peers' # peers
  OBVIOUS
<1>9. ~UNCHANGED vars
  BY <1>8 DEF vars
<1>10. ~\E x \in Users, g \in BOOLEAN : Join(x, g)
  BY <1>8 DEF Join
<1>11. ~\E x \in Users : VoiceControls(x)
  BY <1>8 DEF VoiceControls, ToggleMicrophone, ToggleSpeaker
<1>12. ~\E x, y \in Users, d \in Lines : Dial(x, y, d)
  BY <1>8 DEF Dial
<1>13. ~\E x \in Users, d \in Lines : StreamArrives(x, d)
  BY <1>8 DEF StreamArrives
<1> QED
  BY <1>2, <1>3, <1>4, <1>5, <1>6, <1>7, <1>9, <1>10, <1>11, <1>12, <1>13 DEF Next

(* Who has shaken hands stays listed until its line ends or the session     *)
(* closes; another line can only take it away when one of the two is of a   *)
(* closed session (voiceSession.js registerHubPeer, attachPeer, detachPeer). *)
THEOREM ShakenHandsStay == Spec => ConnectedStay
<1> DEFINE A == \A u, v \in Users, c \in Lines :
       /\ peers[u][v].via = c /\ peers[u][v].connected /\ peers'[u][v].via # c
       => \/ ~tab'[u].in
          \/ c \in Ends(u) /\ (lines'[c] = Free \/ lines'[c].phase[u] = "gone")
          \/ \E d \in Ends(u) :
               /\ u \in lines[c].old \cup lines[d].old
               /\ lines'[d] = Free \/ lines'[d].phase[u] # lines[d].phase[u]
<1>1. Base /\ [Next]_vars => [A]_vars
  BY StayStep
<1> HIDE DEF A
<1>2. Spec => [][A]_vars
  BY <1>1, BaseHolds, PTL DEF Spec
<1> QED
  BY <1>2 DEF A, ConnectedStay

-----------------------------------------------------------------------------
(* What is heard at one end of a line: nothing unless it is up, something   *)
(* if the playback of the other end is of it; and unless it was lost, only  *)
(* what the playback is of, as the headphones say.                          *)
HeardOn(l, u, played, t) ==
  /\ l.phase[u] # "up" => l.sound[u] = "none"
  /\ played => l.sound[u] # "none"
  /\ u \notin l.lost /\ l.sound[u] # "none" =>
       /\ played
       /\ l.sound[u] = "on" => t.speaker
       /\ l.sound[u] = "muted" /\ u \notin l.old => ~t.speaker
Heard ==
  \A c \in Lines : \A u \in lines[c].ends : HeardOn(lines[c], u, IsPlayed(u, c), tab[u])

(* Most steps leave what an end hears as it was. *)
SameSound(l, k, x) ==
  /\ k.phase[x] = l.phase[x] /\ k.sound[x] = l.sound[x]
  /\ (x \in l.lost => x \in k.lost) /\ (x \in l.old => x \in k.old)

LEMMA HeardStill ==
  ASSUME NEW l, NEW k, NEW x, NEW p, NEW t, NEW w, HeardOn(l, x, p, t),
         SameSound(l, k, x), w.speaker = t.speaker
  PROVE  HeardOn(k, x, p, w)
BY DEF HeardOn, SameSound

LEMMA SameItself == \A l, x : SameSound(l, l, x)
BY DEF SameSound

LEMMA FarNext ==
  ASSUME Typed', NEW c \in Lines, NEW u \in lines'[c].ends
  PROVE  Far(u, c)' \in Users /\ Far(u, c)' # u /\ lines'[c].ends = {u, Far(u, c)'}
<1>1. LineT(lines'[c])
  BY DEF Typed
<1>2. PICK l : l = lines'[c]
  OBVIOUS
<1>3. PICK v : v = CHOOSE w \in l.ends : w # u
  OBVIOUS
<1>4. v \in Users /\ v # u /\ l.ends = {u, v}
  BY <1>1, <1>2, <1>3, FarOf
<1>5. Far(u, c)' = v
  BY <1>2, <1>3 DEF Far
<1> QED
  BY <1>2, <1>4, <1>5

LEMMA FarSame ==
  ASSUME Typed, Typed', NEW d \in Lines, NEW x \in lines[d].ends, lines'[d].ends = lines[d].ends
  PROVE  Far(x, d)' = Far(x, d)
<1>1. Far(x, d) # x /\ lines[d].ends = {x, Far(x, d)}
  BY FarIs
<1>2. Far(x, d)' # x /\ lines'[d].ends = {x, Far(x, d)'}
  BY FarNext
<1> QED
  BY <1>1, <1>2

(* An end of a line whose playback, sound and headphones a step leaves.     *)
LEMMA HeardFrame ==
  ASSUME Typed, Typed', Heard, NEW d \in Lines, NEW x \in lines[d].ends,
         lines'[d].ends = lines[d].ends, SameSound(lines[d], lines'[d], x),
         (plays'[x][Far(x, d)] = d) = (plays[x][Far(x, d)] = d),
         tab'[x].speaker = tab[x].speaker
  PROVE  HeardOn(lines'[d], x, IsPlayed(x, d)', tab'[x])
<1>1. PICK l, k, p, q, t, w : /\ l = lines[d] /\ k = lines'[d] /\ p = IsPlayed(x, d)
                              /\ q = IsPlayed(x, d)' /\ t = tab[x] /\ w = tab'[x]
  OBVIOUS
<1>2. p = q
  BY <1>1, FarSame DEF IsPlayed
<1>3. HeardOn(l, x, p, t)
  BY <1>1 DEF Heard
<1>4. HeardOn(k, x, p, w)
  BY <1>1, <1>3, HeardStill
<1> QED
  BY <1>1, <1>2, <1>4

LEMMA PlayedUp ==
  ASSUME Base, NEW u \in Users, NEW v \in Users, NEW d \in Lines, plays[u][v] = d
  PROVE  u # v /\ lines[d].ends = {u, v} /\ Far(u, d) = v /\ lines[d].phase[u] = "up"
<1>1. At(u, v, d)
  BY PeersAssumption DEF Base, Placed, PlayGood
<1>2. u # v /\ u \in lines[d].ends /\ v \in lines[d].ends /\ lines[d].phase[u] = "up"
  BY <1>1 DEF At
<1>3. lines[d].ends = {u, Far(u, d)} /\ Far(u, d) # u
  BY <1>2, FarIs DEF Base
<1> QED
  BY <1>2, <1>3

LEMMA HeardBegins == Init => Heard
BY NewLines DEF Init, Heard

LEMMA JoinHeard ==
  ASSUME Base, Base', Heard, NEW u \in Users, NEW g \in BOOLEAN, Join(u, g)
  PROVE  Heard'
<1>1. /\ lines' = lines /\ plays' = plays /\ ~tab[u].in /\ tab'[u].speaker
      /\ \A x \in Users \ {u} : tab'[x] = tab[x]
  BY DEF Join, Base, Typed
<1> SUFFICES ASSUME NEW d \in Lines, NEW x \in lines[d].ends
             PROVE  HeardOn(lines'[d], x, IsPlayed(x, d)', tab'[x])
  BY <1>1 DEF Heard
<1>2. x \in Users
  BY LineIs DEF Base
<1>3. CASE x # u
  BY <1>1, <1>2, <1>3, HeardFrame, SameItself DEF Base
<1>4. CASE x = u
  <2>1. u \in lines[d].old
    BY <1>1, <1>4 DEF Base, Away
  <2>2. HeardOn(lines[d], u, IsPlayed(u, d), tab[u])
    BY <1>4 DEF Heard
  <2>3. IsPlayed(u, d)' = IsPlayed(u, d)
    BY <1>1, <1>4, FarSame DEF IsPlayed, Base
  <2> QED
    BY <1>1, <1>4, <2>1, <2>2, <2>3 DEF HeardOn
<1> QED
  BY <1>3, <1>4

LEMMA CloseHeard ==
  ASSUME Base, Base', Heard, NEW u \in Users, Leave(u) \/ MoveOn(u)
  PROVE  Heard'
<1>1. /\ \A d \in Lines : IF u \in lines[d].ends
                         THEN ClosedBy(lines[d], lines'[d], u, plays[u][Far(u, d)] = d)
                         ELSE lines'[d] = lines[d]
      /\ \A x \in Users \ {u} : plays'[x] = plays[x] /\ tab'[x] = tab[x]
      /\ \A y \in Users : plays'[u][y] = NoLine
  <2>1. Close(u)
    BY DEF Leave, MoveOn
  <2>2. \A x \in Users \ {u} : tab'[x] = tab[x]
    BY LeaveBase
  <2> QED
    BY <2>1, <2>2, CloseIs
<1> SUFFICES ASSUME NEW d \in Lines, NEW x \in lines'[d].ends
             PROVE  HeardOn(lines'[d], x, IsPlayed(x, d)', tab'[x])
  BY DEF Heard
<1>2. lines'[d].ends = lines[d].ends /\ x \in lines[d].ends /\ x \in Users
  BY <1>1, LineIs DEF Base, ClosedBy, Like
<1>3. CASE x # u
  <2>1. lines[d].sound \in [lines[d].ends -> Sounds]
    BY LineIs DEF Base
  <2>2. SameSound(lines[d], lines'[d], x)
    BY <1>1, <1>2, <1>3, <2>1 DEF SameSound, ClosedBy, Like
  <2> QED
    BY <1>1, <1>2, <1>3, <2>2, HeardFrame DEF Base
<1>4. CASE x = u
  <2>1. ClosedBy(lines[d], lines'[d], u, IsPlayed(u, d))
    BY <1>1, <1>2, <1>4 DEF IsPlayed
  <2>2. ~IsPlayed(u, d)'
    <3>1. Far(u, d)' = Far(u, d) /\ Far(u, d) \in Users
      BY <1>2, <1>4, FarSame, FarIs DEF Base
    <3> QED
      BY <1>1, <3>1, PeersAssumption DEF IsPlayed
  <2>3. HeardOn(lines[d], u, IsPlayed(u, d), tab[u])
    BY <1>2, <1>4 DEF Heard
  <2>4. lines[d].sound \in [lines[d].ends -> Sounds]
    BY LineIs DEF Base
  <2> QED
    BY <1>2, <1>4, <2>1, <2>2, <2>3, <2>4 DEF HeardOn, ClosedBy, Like
<1> QED
  BY <1>3, <1>4

LEMMA TimerHeard ==
  ASSUME Base, Base', Heard, NEW u \in Users, NEW v \in Users, TimerFires(u, v)
  PROVE  Heard'
<1>1. /\ tab' = tab /\ plays' = plays
      /\ \A d \in Lines : lines'[d] = lines[d] \/ LostBy(lines[d], lines'[d], u)
  BY TimerIs
<1> SUFFICES ASSUME NEW d \in Lines, NEW x \in lines'[d].ends
             PROVE  HeardOn(lines'[d], x, IsPlayed(x, d)', tab'[x])
  BY DEF Heard
<1>2. lines'[d].ends = lines[d].ends /\ SameSound(lines[d], lines'[d], x)
  BY <1>1 DEF LostBy, Like, SameSound
<1> QED
  BY <1>1, <1>2, HeardFrame DEF Base

LEMMA DialHeard ==
  ASSUME Base, Base', Heard, NEW u \in Users, NEW v \in Users, NEW c \in Lines, Dial(u, v, c)
  PROVE  Heard'
<1>1. /\ tab' = tab /\ plays' = plays /\ lines[c].ends = {}
      /\ lines'[c] = NewLine({u, v}) /\ \A d \in Lines \ {c} : lines'[d] = lines[d]
  BY DialIs
<1> SUFFICES ASSUME NEW d \in Lines, NEW x \in lines'[d].ends
             PROVE  HeardOn(lines'[d], x, IsPlayed(x, d)', tab'[x])
  BY DEF Heard
<1>2. CASE d # c
  BY <1>1, <1>2, SameItself, HeardFrame DEF Base
<1>3. CASE d = c
  <2>1. lines'[c].phase[x] = "new" /\ lines'[c].sound[x] = "none"
    BY <1>1, <1>3 DEF NewLine
  <2>2. ~IsPlayed(x, c)'
    <3>1. x \in Users /\ Far(x, c)' \in Users
      BY <1>1, <1>3, FarNext, NewLines DEF Base, Typed, LineT
    <3>2. ASSUME NEW y \in Users, plays[x][y] = c PROVE FALSE
      <4>1. lines[c].ends = {x, y}
        BY <3>1, <3>2, PlayedUp
      <4> QED
        BY <1>1, <4>1
    <3> QED
      BY <1>1, <3>1, <3>2 DEF IsPlayed
  <2> QED
    BY <1>3, <2>1, <2>2 DEF HeardOn
<1> QED
  BY <1>2, <1>3

LEMMA ConnectedHeard ==
  ASSUME Base, Base', Heard, NEW u \in Users, NEW c \in Lines, Connected(u, c)
  PROVE  Heard'
<1>1. PICK v : v = Far(u, c)
  OBVIOUS
<1>2. /\ tab' = tab /\ plays' = plays /\ v \in Users /\ u # v /\ lines[c].ends = {u, v}
      /\ lines[c].phase[u] = "new" /\ OpenedBy(lines[c], lines'[c], u, v)
      /\ \A d \in Lines \ {c} : lines'[d] = lines[d] \/ LostBy(lines[d], lines'[d], u)
  BY <1>1, ConnectedIs
<1> SUFFICES ASSUME NEW d \in Lines, NEW x \in lines'[d].ends
             PROVE  HeardOn(lines'[d], x, IsPlayed(x, d)', tab'[x])
  BY DEF Heard
<1>3. lines'[d].ends = lines[d].ends
  BY <1>2 DEF OpenedBy, LostBy, Like
<1>4. CASE ~(d = c /\ x = u)
  <2>1. lines[c].phase \in [lines[c].ends -> {"new", "up", "gone"}]
    BY LineIs DEF Base
  <2>2. SameSound(lines[d], lines'[d], x)
    BY <1>2, <1>3, <1>4, <2>1 DEF OpenedBy, LostBy, Like, SameSound
  <2> QED
    BY <1>2, <1>3, <2>2, HeardFrame DEF Base
<1>5. CASE d = c /\ x = u
  <2>1. HeardOn(lines[c], u, IsPlayed(u, c), tab[u])
    BY <1>3, <1>5 DEF Heard
  <2>2. lines'[c].sound[u] = "none" /\ ~IsPlayed(u, c)
    BY <1>2, <2>1 DEF HeardOn, OpenedBy
  <2>3. lines'[c].phase[u] = "up"
    <3>1. lines[c].phase \in [lines[c].ends -> {"new", "up", "gone"}]
      BY LineIs DEF Base
    <3> QED
      BY <1>2, <3>1 DEF OpenedBy
  <2>4. ~IsPlayed(u, c)'
    <3>1. Far(u, c)' = Far(u, c)
      BY <1>3, <1>5, FarSame DEF Base
    <3> QED
      BY <1>2, <2>2, <3>1 DEF IsPlayed
  <2> QED
    BY <1>5, <2>2, <2>3, <2>4 DEF HeardOn
<1> QED
  BY <1>4, <1>5

LEMMA DisconnectedHeard ==
  ASSUME Base, Base', Heard, NEW u \in Users, NEW c \in Lines, Disconnected(u, c)
  PROVE  Heard'
<1>1. PICK v : v = Far(u, c)
  OBVIOUS
<1>2. /\ tab' = tab /\ v \in Users /\ u # v /\ lines[c].ends = {u, v}
      /\ plays' = [plays EXCEPT ![u][v] = NoLine]
      /\ IF lines[c].phase[v] = "gone" THEN lines'[c] = Free
         ELSE EndedBy(lines[c], lines'[c], u)
      /\ \A d \in Lines \ {c} :
           IF d \in {peers[u][v].via, plays[u][v]}
           THEN SilencedBy(lines[d], lines'[d], u, d = plays[u][v])
           ELSE lines'[d] = lines[d]
  BY <1>1, DisconnectedIs
<1>3. /\ plays'[u][v] = NoLine
      /\ \A x, y \in Users : <<x, y>> # <<u, v>> => plays'[x][y] = plays[x][y]
  BY <1>2 DEF Base, Typed
<1> SUFFICES ASSUME NEW d \in Lines, NEW x \in lines'[d].ends
             PROVE  HeardOn(lines'[d], x, IsPlayed(x, d)', tab'[x])
  BY DEF Heard
<1>4. ~(d = c /\ lines'[c] = Free)
  BY NewLines
<1>5. lines'[d].ends = lines[d].ends
  BY <1>2, <1>4 DEF EndedBy, SilencedBy, Like
<1>6. Far(x, d)' = Far(x, d) /\ x \in Users /\ Far(x, d) \in Users
  BY <1>5, FarSame, FarIs, LineIs DEF Base
<1>7. HeardOn(lines[d], x, IsPlayed(x, d), tab[x])
  BY <1>5 DEF Heard
<1>8. /\ lines[d].sound \in [lines[d].ends -> Sounds]
      /\ lines[d].phase \in [lines[d].ends -> {"new", "up", "gone"}]
  BY LineIs DEF Base
<1>9. CASE d = c /\ x = u
  <2>1. lines'[c].sound[u] = "none"
    BY <1>2, <1>4, <1>5, <1>8, <1>9 DEF EndedBy
  <2>2. ~IsPlayed(u, c)'
    BY <1>1, <1>3, <1>6, <1>9, PeersAssumption DEF IsPlayed
  <2> QED
    BY <1>9, <2>1, <2>2 DEF HeardOn
<1>10. CASE d # c /\ x = u /\ d = plays[u][v]
  <2>1. Far(u, d) = v
    BY <1>2, <1>10, PlayedUp
  <2>2. SilencedBy(lines[d], lines'[d], u, TRUE)
    BY <1>2, <1>10
  <2>3. lines'[d].sound[u] = "none"
    BY <1>5, <1>8, <1>10, <2>2 DEF SilencedBy
  <2>4. ~IsPlayed(u, d)'
    BY <1>3, <1>6, <1>10, <2>1, PeersAssumption DEF IsPlayed
  <2> QED
    BY <1>10, <2>3, <2>4 DEF HeardOn
<1>11. CASE ~(d = c /\ x = u) /\ ~(x = u /\ d = plays[u][v])
  <2>1. SameSound(lines[d], lines'[d], x)
    <3>1. CASE d = c
      BY <1>2, <1>4, <1>5, <1>8, <1>11, <3>1 DEF EndedBy, SameSound
    <3>2. CASE d # c
      BY <1>2, <1>5, <1>8, <1>11, <3>2 DEF SilencedBy, Like, SameSound
    <3> QED
      BY <3>1, <3>2
  <2>2. (plays'[x][Far(x, d)] = d) = (plays[x][Far(x, d)] = d)
    <3>1. CASE x = u /\ Far(x, d) = v
      BY <1>3, <1>11, <3>1, PeersAssumption
    <3>2. CASE ~(x = u /\ Far(x, d) = v)
      BY <1>3, <1>6, <3>2
    <3> QED
      BY <3>1, <3>2
  <2> QED
    BY <1>2, <1>5, <2>1, <2>2, HeardFrame DEF Base
<1> QED
  BY <1>9, <1>10, <1>11

LEMMA ReceiveHeard ==
  ASSUME Base, Base', Heard, NEW u \in Users, NEW c \in Lines, Receive(u, c)
  PROVE  Heard'
<1>1. PICK v, m : v = Far(u, c) /\ m = Head(lines[c].inbox[u])
  OBVIOUS
<1>2. /\ tab' = tab /\ plays' = plays
      /\ ReceivedBy(lines[c], lines'[c], u, v, Reply(u, m), OfferedNow(u, v, lines[c].offered, m))
      /\ \A d \in Lines \ {c} : lines'[d] = lines[d]
  BY <1>1, ReceiveIs
<1> SUFFICES ASSUME NEW d \in Lines, NEW x \in lines'[d].ends
             PROVE  HeardOn(lines'[d], x, IsPlayed(x, d)', tab'[x])
  BY DEF Heard
<1>3. lines'[d].ends = lines[d].ends /\ SameSound(lines[d], lines'[d], x)
  BY <1>2 DEF ReceivedBy, Like, SameSound
<1> QED
  BY <1>2, <1>3, HeardFrame DEF Base

LEMMA StreamHeard ==
  ASSUME Base, Base', Heard, NEW u \in Users, NEW c \in Lines, StreamArrives(u, c)
  PROVE  Heard'
<1>1. PICK v : v = Far(u, c)
  OBVIOUS
<1>2. /\ tab' = tab /\ v \in Users /\ u # v /\ lines[c].ends = {u, v}
      /\ lines[c].phase[u] = "up"
      /\ StreamedBy(lines[c], lines'[c], u, Speaker(u), plays[u][v] = c)
      /\ \A d \in Lines \ {c} : IF d = plays[u][v] THEN LostBy(lines[d], lines'[d], u)
                                ELSE lines'[d] = lines[d]
      /\ plays' = [plays EXCEPT ![u][v] = c]
  BY <1>1, StreamIs
<1>3. /\ plays'[u][v] = c
      /\ \A x, y \in Users : <<x, y>> # <<u, v>> => plays'[x][y] = plays[x][y]
  BY <1>2 DEF Base, Typed
<1> SUFFICES ASSUME NEW d \in Lines, NEW x \in lines'[d].ends
             PROVE  HeardOn(lines'[d], x, IsPlayed(x, d)', tab'[x])
  BY DEF Heard
<1>4. lines'[d].ends = lines[d].ends
  BY <1>2 DEF StreamedBy, LostBy, Like
<1>5. Far(x, d)' = Far(x, d) /\ x \in Users /\ Far(x, d) \in Users
  BY <1>4, FarSame, FarIs, LineIs DEF Base
<1>6. HeardOn(lines[d], x, IsPlayed(x, d), tab[x])
  BY <1>4 DEF Heard
<1>7. lines[d].sound \in [lines[d].ends -> Sounds]
  BY LineIs DEF Base
<1>8. CASE d = c /\ x = u
  <2>1. lines'[c].sound[u] = Speaker(u) /\ lines'[c].phase[u] = "up"
    BY <1>2, <1>4, <1>7, <1>8 DEF StreamedBy, Like
  <2>2. IsPlayed(u, c)'
    BY <1>1, <1>3, <1>5, <1>8 DEF IsPlayed
  <2> QED
    BY <1>2, <1>8, <2>1, <2>2 DEF HeardOn, Speaker
<1>9. CASE d # c /\ x = u /\ d = plays[u][v]
  <2>1. Far(u, d) = v
    BY <1>2, <1>9, PlayedUp
  <2>2. LostBy(lines[d], lines'[d], u)
    BY <1>2, <1>9
  <2>3. ~IsPlayed(u, d)'
    BY <1>3, <1>5, <1>9, <2>1 DEF IsPlayed
  <2> QED
    BY <1>6, <1>9, <2>2, <2>3 DEF HeardOn, LostBy, Like
<1>10. CASE ~(d = c /\ x = u) /\ ~(x = u /\ d = plays[u][v])
  <2>1. SameSound(lines[d], lines'[d], x)
    BY <1>2, <1>4, <1>7, <1>10 DEF StreamedBy, LostBy, Like, SameSound
  <2>2. (plays'[x][Far(x, d)] = d) = (plays[x][Far(x, d)] = d)
    <3>1. CASE x = u /\ Far(x, d) = v
      <4>1. d # c
        BY <1>10, <3>1
      <4> QED
        BY <1>3, <1>10, <3>1, <4>1
    <3>2. CASE ~(x = u /\ Far(x, d) = v)
      BY <1>3, <1>5, <3>2
    <3> QED
      BY <3>1, <3>2
  <2> QED
    BY <1>2, <1>4, <2>1, <2>2, HeardFrame DEF Base
<1> QED
  BY <1>8, <1>9, <1>10

LEMMA ControlsHeard ==
  ASSUME Base, Base', Heard, NEW u \in Users, VoiceControls(u)
  PROVE  Heard'
<1>1. PICK heard \in BOOLEAN, said \in BOOLEAN, s \in Sounds, m \in {"on", "off"} :
        Clicked(u, heard, s, said, m)
  BY ControlsAre
<1>2. /\ plays' = plays /\ \A x \in Users \ {u} : tab'[x] = tab[x]
      /\ IF heard THEN s = IF tab'[u].speaker THEN "on" ELSE "muted"
         ELSE tab'[u].speaker = tab[u].speaker
      /\ Turned(u, heard, s, said, m)
  BY <1>1 DEF Clicked
<1> SUFFICES ASSUME NEW d \in Lines, NEW x \in lines'[d].ends
             PROVE  HeardOn(lines'[d], x, IsPlayed(x, d)', tab'[x])
  BY DEF Heard
<1>3. /\ u \notin lines[d].ends => lines'[d] = lines[d]
      /\ u \in lines[d].ends => TurnedBy(lines[d], lines'[d], u, Far(u, d), heard /\ IsPlayed(u, d), s,
                                         said /\ IsTold(u, d), m)
  BY <1>2 DEF Turned
<1>4. lines'[d].ends = lines[d].ends /\ x \in Users
  BY <1>3, LineIs DEF TurnedBy, Like, Base
<1>5. lines[d].sound \in [lines[d].ends -> Sounds]
  BY LineIs DEF Base
<1>6. CASE x # u \/ ~heard \/ ~IsPlayed(u, d)
  <2>1. SameSound(lines[d], lines'[d], x)
    BY <1>3, <1>4, <1>5, <1>6 DEF TurnedBy, Like, SameSound
  <2>2. CASE tab'[x].speaker = tab[x].speaker
    BY <1>2, <1>4, <2>1, <2>2, HeardFrame DEF Base
  <2>3. CASE tab'[x].speaker # tab[x].speaker
    <3>1. x = u /\ ~IsPlayed(u, d)
      BY <1>2, <1>4, <1>6, <2>3
    <3>2. HeardOn(lines[d], u, IsPlayed(u, d), tab[u])
      BY <1>4, <3>1 DEF Heard
    <3>3. ~IsPlayed(u, d)'
      <4>1. Far(u, d)' = Far(u, d)
        BY <1>4, <3>1, FarSame DEF Base
      <4> QED
        BY <1>2, <3>1, <4>1 DEF IsPlayed
    <3> QED
      BY <2>1, <3>1, <3>2, <3>3 DEF HeardOn, SameSound
  <2> QED
    BY <2>2, <2>3
<1>7. CASE x = u /\ heard /\ IsPlayed(u, d)
  <2>1. lines'[d].sound[u] = s
    BY <1>3, <1>4, <1>5, <1>7 DEF TurnedBy
  <2>2. lines'[d].phase[u] = "up"
    <3>1. Far(u, d) \in Users
      BY <1>4, <1>7, FarIs DEF Base
    <3>2. lines[d].phase[u] = "up"
      BY <1>4, <1>7, <3>1, PlayedUp DEF IsPlayed
    <3> QED
      BY <1>3, <1>4, <1>7, <3>2 DEF TurnedBy, Like
  <2>3. IsPlayed(u, d)'
    <3>1. Far(u, d)' = Far(u, d)
      BY <1>4, <1>7, FarSame DEF Base
    <3> QED
      BY <1>2, <1>7, <3>1 DEF IsPlayed
  <2> QED
    BY <1>2, <1>7, <2>1, <2>2, <2>3 DEF HeardOn
<1> QED
  BY <1>6, <1>7

LEMMA HeardStep == Base /\ Base' /\ Heard /\ [Next]_vars => Heard'
<1> SUFFICES ASSUME Base, Base', Heard, [Next]_vars PROVE Heard'
  OBVIOUS
<1>1. CASE \E u \in Users, g \in BOOLEAN : Join(u, g)
  BY <1>1, JoinHeard
<1>2. CASE \E u \in Users : Leave(u) \/ MoveOn(u)
  BY <1>2, CloseHeard
<1>3. CASE \E u \in Users : VoiceControls(u)
  BY <1>3, ControlsHeard
<1>4. CASE \E u, v \in Users : HubPeer(u, v)
  BY <1>4 DEF HubPeer, Heard, HeardOn, IsPlayed, Far
<1>5. CASE \E u, v \in Users : TimerFires(u, v)
  BY <1>5, TimerHeard
<1>6. CASE \E u, v \in Users, c \in Lines : Dial(u, v, c)
  BY <1>6, DialHeard
<1>7. CASE \E u \in Users, c \in Lines : Connected(u, c)
  BY <1>7, ConnectedHeard
<1>8. CASE \E u \in Users, c \in Lines : Disconnected(u, c)
  BY <1>8, DisconnectedHeard
<1>9. CASE \E u \in Users, c \in Lines : Receive(u, c)
  BY <1>9, ReceiveHeard
<1>10. CASE \E u \in Users, c \in Lines : StreamArrives(u, c)
  BY <1>10, StreamHeard
<1>11. CASE UNCHANGED vars
  BY <1>11 DEF vars, Heard, HeardOn, IsPlayed, Far
<1> QED
  BY <1>1, <1>2, <1>3, <1>4, <1>5, <1>6, <1>7, <1>8, <1>9, <1>10, <1>11 DEF Next

LEMMA HeardHolds == Spec => []Heard
BY BaseHolds, HeardBegins, HeardStep, PTL DEF Spec

(* What is heard obeys the headphones button, in whatever order streams,    *)
(* clicks and departures come (voiceSession.js setSpeakerEnabled, attachPeer *)
(* and close). *)
THEOREM HeadphonesObeyed == Spec => []SpeakerObeyed
<1>1. Heard => SpeakerObeyed
  BY DEF Heard, HeardOn, SpeakerObeyed, Ends
<1> QED
  BY <1>1, HeardHolds, PTL

-----------------------------------------------------------------------------
(* The messages to one end of a line: which are there, whether the last     *)
(* about the microphone is on or off, and whether hands are shaken back     *)
(* with no greeting before it. *)
Carries(q, m) == \E i \in DOMAIN q : q[i] = m
LastlyOn(q) == \E i \in DOMAIN q : q[i] = "on" /\ \A j \in DOMAIN q : j > i => q[j] # "off"
LastlyOff(q) == \E i \in DOMAIN q : q[i] = "off" /\ \A j \in DOMAIN q : j > i => q[j] # "on"
Early(q) ==
  \E i \in DOMAIN q : /\ q[i] = "receivedHandshake"
                      /\ \A j \in DOMAIN q : j < i => q[j] # "sendHandshake"

LEMMA Nothing ==
  /\ \A m : ~Carries(<<>>, m)
  /\ ~LastlyOn(<<>>) /\ ~LastlyOff(<<>>) /\ ~Early(<<>>)
BY DEF Carries, LastlyOn, LastlyOff, Early

(* k is q and m after it; q is h and r after it. *)
Before(q, m, k) ==
  /\ \A n \in Message : Carries(k, n) <=> Carries(q, n) \/ n = m
  /\ LastlyOn(k) <=> m = "on" \/ (LastlyOn(q) /\ m # "off")
  /\ LastlyOff(k) <=> m = "off" \/ (LastlyOff(q) /\ m # "on")
  /\ Early(k) => Early(q) \/ (m = "receivedHandshake" /\ ~Carries(q, "sendHandshake"))
After(q, h, r) ==
  /\ \A m \in Message : Carries(q, m) <=> m = h \/ Carries(r, m)
  /\ LastlyOn(q) <=> LastlyOn(r) \/ (h = "on" /\ ~Carries(r, "off"))
  /\ LastlyOff(q) <=> LastlyOff(r) \/ (h = "off" /\ ~Carries(r, "on"))
  /\ Early(r) => Early(q) \/ h = "sendHandshake"
  /\ h = "receivedHandshake" => Early(q)

LEMMA Appended ==
  ASSUME NEW q \in Seq(Message), NEW m \in Message, NEW k, k = Append(q, m)
  PROVE  Before(q, m, k)
<1>1. PICK n \in Nat : n = Len(q)
  OBVIOUS
<1>2. /\ DOMAIN q = 1..n /\ DOMAIN k = 1..(n + 1) /\ k[n + 1] = m
      /\ \A i \in 1..n : k[i] = q[i] /\ i \in 1..(n + 1)
  BY <1>1
<1>3. \A x : Carries(k, x) <=> Carries(q, x) \/ x = m
  BY <1>2 DEF Carries
<1>4. LastlyOn(k) <=> m = "on" \/ (LastlyOn(q) /\ m # "off")
  <2>1. ASSUME LastlyOn(k) PROVE m = "on" \/ (LastlyOn(q) /\ m # "off")
    BY <1>2, <2>1 DEF LastlyOn
  <2>2. ASSUME m = "on" PROVE LastlyOn(k)
    BY <1>2, <2>2 DEF LastlyOn
  <2>3. ASSUME LastlyOn(q), m # "off" PROVE LastlyOn(k)
    BY <1>2, <2>3 DEF LastlyOn
  <2> QED
    BY <2>1, <2>2, <2>3
<1>5. LastlyOff(k) <=> m = "off" \/ (LastlyOff(q) /\ m # "on")
  <2>1. ASSUME LastlyOff(k) PROVE m = "off" \/ (LastlyOff(q) /\ m # "on")
    BY <1>2, <2>1 DEF LastlyOff
  <2>2. ASSUME m = "off" PROVE LastlyOff(k)
    BY <1>2, <2>2 DEF LastlyOff
  <2>3. ASSUME LastlyOff(q), m # "on" PROVE LastlyOff(k)
    BY <1>2, <2>3 DEF LastlyOff
  <2> QED
    BY <2>1, <2>2, <2>3
<1>6. Early(k) => Early(q) \/ (m = "receivedHandshake" /\ ~Carries(q, "sendHandshake"))
  <2> SUFFICES ASSUME Early(k), ~Early(q) PROVE m = "receivedHandshake" /\ ~Carries(q, "sendHandshake")
    OBVIOUS
  <2>1. PICK i \in DOMAIN k : /\ k[i] = "receivedHandshake"
                              /\ \A j \in DOMAIN k : j < i => k[j] # "sendHandshake"
    BY DEF Early
  <2>2. i = n + 1
    <3>1. ASSUME i \in DOMAIN q PROVE FALSE
      <4>1. q[i] = "receivedHandshake" /\ \A j \in DOMAIN q : j < i => q[j] # "sendHandshake"
        BY <1>2, <2>1, <3>1
      <4> QED
        BY <3>1, <4>1 DEF Early
    <3> QED
      BY <1>2, <2>1, <3>1
  <2>3. \A j \in DOMAIN q : q[j] # "sendHandshake"
    BY <1>2, <2>1, <2>2
  <2> QED
    BY <1>2, <2>1, <2>2, <2>3 DEF Carries
<1> QED
  BY <1>3, <1>4, <1>5, <1>6 DEF Before

LEMMA Tailed ==
  ASSUME NEW q \in Seq(Message), q # <<>>, NEW h, h = Head(q), NEW r, r = Tail(q)
  PROVE  After(q, h, r)
<1>1. PICK n : n = Len(q) - 1
  OBVIOUS
<1>2. /\ 1 \in DOMAIN q /\ q[1] = h /\ DOMAIN q \subseteq Nat \ {0} /\ DOMAIN r \subseteq Nat \ {0}
      /\ \A i \in DOMAIN r : i + 1 \in DOMAIN q /\ q[i + 1] = r[i]
      /\ \A i \in DOMAIN q : i = 1 \/ (i - 1 \in DOMAIN r /\ q[i] = r[i - 1])
  <2>1. Len(q) \in Nat /\ Len(q) # 0
    OBVIOUS
  <2>2. n \in Nat /\ Len(q) = n + 1
    BY <1>1, <2>1
  <2>3. DOMAIN q = 1..(n + 1) /\ h = q[1]
    BY <2>2
  <2>4. DOMAIN r = 1..n
    BY <2>2
  <2>5. \A i \in 1..n : r[i] = q[i + 1]
    BY <2>2
  <2>6. \A i \in 1..(n + 1) : i = 1 \/ (i - 1 \in 1..n /\ (i - 1) + 1 = i)
    BY <2>2
  <2>7. \A i \in 1..n : i + 1 \in 1..(n + 1)
    BY <2>2
  <2>8. \A i \in 1..(n + 1) : i = 1 \/ (i - 1 \in 1..n /\ q[i] = r[i - 1])
    BY <2>5, <2>6
  <2>9. 1 \in 1..(n + 1) /\ 1..(n + 1) \subseteq Nat \ {0} /\ 1..n \subseteq Nat \ {0}
    BY <2>2
  <2> QED
    BY <2>3, <2>4, <2>5, <2>7, <2>8, <2>9
<1>3. ASSUME NEW m PROVE Carries(q, m) <=> m = h \/ Carries(r, m)
  <2>1. ASSUME Carries(q, m), m # h PROVE Carries(r, m)
    <3>1. PICK i \in DOMAIN q : q[i] = m
      BY <2>1 DEF Carries
    <3>2. i - 1 \in DOMAIN r /\ r[i - 1] = m
      BY <1>2, <2>1, <3>1
    <3> QED
      BY <3>2 DEF Carries
  <2>2. ASSUME Carries(r, m) PROVE Carries(q, m)
    BY <1>2, <2>2 DEF Carries
  <2>3. Carries(q, h)
    BY <1>2 DEF Carries
  <2> QED
    BY <2>1, <2>2, <2>3
<1>4. LastlyOn(q) <=> LastlyOn(r) \/ (h = "on" /\ ~Carries(r, "off"))
  <2>1. ASSUME LastlyOn(q) PROVE LastlyOn(r) \/ (h = "on" /\ ~Carries(r, "off"))
    <3>1. PICK i \in DOMAIN q : q[i] = "on" /\ \A j \in DOMAIN q : j > i => q[j] # "off"
      BY <2>1 DEF LastlyOn
    <3>2. CASE i = 1
      BY <1>2, <3>1, <3>2 DEF Carries
    <3>3. CASE i # 1
      <4>1. i - 1 \in DOMAIN r /\ r[i - 1] = "on"
        BY <1>2, <3>1, <3>3
      <4>2. ASSUME NEW j \in DOMAIN r, j > i - 1 PROVE r[j] # "off"
        BY <1>2, <3>1, <4>2
      <4>3. LastlyOn(r)
        BY <4>1, <4>2 DEF LastlyOn
      <4> QED
        BY <4>3
    <3> QED
      BY <3>2, <3>3
  <2>2. ASSUME LastlyOn(r) PROVE LastlyOn(q)
    <3>1. PICK i \in DOMAIN r : r[i] = "on" /\ \A j \in DOMAIN r : j > i => r[j] # "off"
      BY <2>2 DEF LastlyOn
    <3>2. ASSUME NEW j \in DOMAIN q, j > i + 1 PROVE q[j] # "off"
      <4>1. j - 1 \in DOMAIN r /\ q[j] = r[j - 1] /\ j - 1 > i
        BY <1>2, <3>2
      <4> QED
        BY <3>1, <4>1
    <3>3. i + 1 \in DOMAIN q /\ q[i + 1] = "on"
      BY <1>2, <3>1
    <3> QED
      BY <3>2, <3>3 DEF LastlyOn
  <2>3. ASSUME h = "on", ~Carries(r, "off") PROVE LastlyOn(q)
    <3>1. ASSUME NEW j \in DOMAIN q, j > 1 PROVE q[j] # "off"
      BY <1>2, <2>3, <3>1 DEF Carries
    <3> QED
      BY <1>2, <2>3, <3>1 DEF LastlyOn
  <2> QED
    BY <2>1, <2>2, <2>3
<1>5. LastlyOff(q) <=> LastlyOff(r) \/ (h = "off" /\ ~Carries(r, "on"))
  <2>1. ASSUME LastlyOff(q) PROVE LastlyOff(r) \/ (h = "off" /\ ~Carries(r, "on"))
    <3>1. PICK i \in DOMAIN q : q[i] = "off" /\ \A j \in DOMAIN q : j > i => q[j] # "on"
      BY <2>1 DEF LastlyOff
    <3>2. CASE i = 1
      BY <1>2, <3>1, <3>2 DEF Carries
    <3>3. CASE i # 1
      <4>1. i - 1 \in DOMAIN r /\ r[i - 1] = "off"
        BY <1>2, <3>1, <3>3
      <4>2. ASSUME NEW j \in DOMAIN r, j > i - 1 PROVE r[j] # "on"
        BY <1>2, <3>1, <4>2
      <4>3. LastlyOff(r)
        BY <4>1, <4>2 DEF LastlyOff
      <4> QED
        BY <4>3
    <3> QED
      BY <3>2, <3>3
  <2>2. ASSUME LastlyOff(r) PROVE LastlyOff(q)
    <3>1. PICK i \in DOMAIN r : r[i] = "off" /\ \A j \in DOMAIN r : j > i => r[j] # "on"
      BY <2>2 DEF LastlyOff
    <3>2. ASSUME NEW j \in DOMAIN q, j > i + 1 PROVE q[j] # "on"
      <4>1. j - 1 \in DOMAIN r /\ q[j] = r[j - 1] /\ j - 1 > i
        BY <1>2, <3>2
      <4> QED
        BY <3>1, <4>1
    <3>3. i + 1 \in DOMAIN q /\ q[i + 1] = "off"
      BY <1>2, <3>1
    <3> QED
      BY <3>2, <3>3 DEF LastlyOff
  <2>3. ASSUME h = "off", ~Carries(r, "on") PROVE LastlyOff(q)
    <3>1. ASSUME NEW j \in DOMAIN q, j > 1 PROVE q[j] # "on"
      BY <1>2, <2>3, <3>1 DEF Carries
    <3> QED
      BY <1>2, <2>3, <3>1 DEF LastlyOff
  <2> QED
    BY <2>1, <2>2, <2>3
<1>6. Early(r) => Early(q) \/ h = "sendHandshake"
  <2> SUFFICES ASSUME Early(r), h # "sendHandshake" PROVE Early(q)
    OBVIOUS
  <2>1. PICK i \in DOMAIN r : /\ r[i] = "receivedHandshake"
                              /\ \A j \in DOMAIN r : j < i => r[j] # "sendHandshake"
    BY DEF Early
  <2>2. i + 1 \in DOMAIN q /\ q[i + 1] = "receivedHandshake"
    BY <1>2, <2>1
  <2>3. ASSUME NEW j \in DOMAIN q, j < i + 1 PROVE q[j] # "sendHandshake"
    <3>1. CASE j = 1
      BY <1>2, <3>1
    <3>2. CASE j # 1
      <4>1. j - 1 \in DOMAIN r /\ q[j] = r[j - 1] /\ j - 1 < i
        BY <1>2, <2>3, <3>2
      <4> QED
        BY <2>1, <4>1
    <3> QED
      BY <3>1, <3>2
  <2> QED
    BY <2>2, <2>3 DEF Early
<1>7. h = "receivedHandshake" => Early(q)
  BY <1>2 DEF Early
<1> QED
  BY <1>3, <1>4, <1>5, <1>6, <1>7 DEF After

(* A line whose two sessions and connection go on. *)
Alive(l) == l.old = {} /\ l.lost = {} /\ \A u \in l.ends : l.phase[u] # "gone"

(* The end of v, with record r, has heard the greeting of the other end;    *)
(* the end of u has been told so; a stream is there for v; what v draws of  *)
(* u's microphone, and will draw when the messages are through.             *)
Knows(c, l, v, r) == l.phase[v] = "up" /\ r.via = c /\ r.connected
Shook(l, u, v) ==
  /\ l.phase[u] = "up" /\ ~Carries(l.inbox[v], "sendHandshake")
  /\ ~Carries(l.inbox[u], "receivedHandshake")
Streamed(l, v) == v \in l.offered \/ l.sound[v] # "none"
Drawn(l, v, r) == l.phase[v] = "new" \/ r.audio
WillShow(l, v, r) ==
  LastlyOn(l.inbox[v]) \/ (Drawn(l, v, r) /\ ~Carries(l.inbox[v], "off"))
WillHide(l, v, r) ==
  LastlyOff(l.inbox[v]) \/ (~Drawn(l, v, r) /\ ~Carries(l.inbox[v], "on"))

(* One direction of such a line: u, with panel t and record ru, speaks to   *)
(* v, with record rv. The greeting of u is on its way or was heard; hands   *)
(* are shaken back after the greeting only; once u has been told, v will    *)
(* show what u's panel shows, and has a stream if u has a microphone; and   *)
(* v will hide the microphone only when it is off.                          *)
Dir(c, l, u, v, ru, rv, t) ==
  /\ l.phase[v] = "up" => rv.via = c
  /\ l.phase[u] = "up" => Carries(l.inbox[v], "sendHandshake") \/ Knows(c, l, v, rv)
  /\ Early(l.inbox[v]) => Knows(c, l, v, rv)
  /\ Shook(l, u, v) =>
       /\ Knows(c, l, u, ru)
       /\ WillShow(l, v, rv) => t.mic
       /\ t.granted => Streamed(l, v)
  /\ WillHide(l, v, rv) => Knows(c, l, u, ru) /\ ~(t.mic /\ t.granted)
  /\ Streamed(l, v) => t.granted

DirOf(c, u, v) == Dir(c, lines[c], u, v, peers[u][v], peers[v][u], tab[u])
Lively ==
  \A c \in Lines : Alive(lines[c]) => \A u, v \in lines[c].ends : u # v => DirOf(c, u, v)

(* Most steps leave the messages to v and whether its stream is there; and  *)
(* of an end that is not up, nothing of the record counts.                  *)
SameTalk(l, k, u, v) ==
  /\ k.ends = l.ends /\ k.phase = l.phase /\ k.inbox[v] = l.inbox[v]
  /\ Carries(k.inbox[u], "receivedHandshake") <=> Carries(l.inbox[u], "receivedHandshake")
  /\ l.old \subseteq k.old /\ l.lost \subseteq k.lost
  /\ Streamed(k, v) <=> Streamed(l, v)

LEMMA AliveBefore ==
  ASSUME NEW l, NEW k, k.ends = l.ends, k.phase = l.phase, l.old \subseteq k.old,
         l.lost \subseteq k.lost, Alive(k)
  PROVE  Alive(l)
BY DEF Alive

LEMMA DirStill ==
  ASSUME NEW c, NEW l, NEW k, NEW u, NEW v, NEW ru, NEW rv, NEW t, NEW su, NEW sv, NEW w,
         LineT(l), u \in l.ends, v \in l.ends, Alive(l),
         Dir(c, l, u, v, ru, rv, t), SameTalk(l, k, u, v),
         l.phase[u] = "up" => su = ru, l.phase[v] = "up" => sv = rv,
         w.mic = t.mic, w.granted = t.granted
  PROVE  Dir(c, k, u, v, su, sv, w)
<1>1. /\ l.phase[u] \in {"new", "up"} /\ l.phase[v] \in {"new", "up"}
      /\ k.phase = l.phase /\ k.inbox[v] = l.inbox[v]
  BY DEF LineT, Line, Alive, SameTalk
<1>2. Knows(c, k, u, su) <=> Knows(c, l, u, ru)
  BY <1>1 DEF Knows
<1>3. Knows(c, k, v, sv) <=> Knows(c, l, v, rv)
  BY <1>1 DEF Knows
<1>4. Shook(k, u, v) <=> Shook(l, u, v)
  BY <1>1 DEF Shook, SameTalk
<1>5. Drawn(k, v, sv) <=> Drawn(l, v, rv)
  BY <1>1 DEF Drawn
<1>6. (WillShow(k, v, sv) <=> WillShow(l, v, rv)) /\ (WillHide(k, v, sv) <=> WillHide(l, v, rv))
  BY <1>1, <1>5 DEF WillShow, WillHide
<1>7. Streamed(k, v) <=> Streamed(l, v)
  BY DEF SameTalk
<1> QED
  BY <1>1, <1>2, <1>3, <1>4, <1>6, <1>7 DEF Dir

LEMMA LivelyFrame ==
  ASSUME Base, Lively, NEW d \in Lines, NEW x \in lines'[d].ends, NEW y \in lines'[d].ends, x # y,
         Alive(lines'[d]), SameTalk(lines[d], lines'[d], x, y),
         lines[d].phase[x] = "up" => peers'[x][y] = peers[x][y],
         lines[d].phase[y] = "up" => peers'[y][x] = peers[y][x],
         tab'[x].mic = tab[x].mic, tab'[x].granted = tab[x].granted
  PROVE  DirOf(d, x, y)'
<1>1. PICK l, k, t, w, ru, rv, su, sv :
        /\ l = lines[d] /\ k = lines'[d] /\ t = tab[x] /\ w = tab'[x]
        /\ ru = peers[x][y] /\ su = peers'[x][y] /\ rv = peers[y][x] /\ sv = peers'[y][x]
  OBVIOUS
<1>2. LineT(l) /\ x \in l.ends /\ y \in l.ends /\ Alive(l)
  BY <1>1, AliveBefore DEF SameTalk, Base, Typed
<1>3. Dir(d, l, x, y, ru, rv, t)
  BY <1>1, <1>2 DEF Lively, DirOf
<1>4. Dir(d, k, x, y, su, sv, w)
  BY <1>1, <1>2, <1>3, DirStill
<1> QED
  BY <1>1, <1>4 DEF DirOf

LEMMA TalkItself == \A l, u, v : SameTalk(l, l, u, v)
BY DEF SameTalk

LEMMA LivelyBegins == Init => Lively
BY NewLines DEF Init, Lively

(* The record of an end that is up, on a line that goes on, is of it.       *)
LEMMA RecordOf ==
  ASSUME Base, Lively, NEW d \in Lines, Alive(lines[d]), NEW x \in lines[d].ends,
         NEW y \in lines[d].ends, x # y, lines[d].phase[x] = "up"
  PROVE  peers[x][y].via = d /\ peers[x][y].listed
<1>1. DirOf(d, y, x)
  BY DEF Lively
<1>2. peers[x][y].via = d
  BY <1>1 DEF DirOf, Dir
<1>3. x \in Users /\ y \in Users
  BY LineIs DEF Base
<1> QED
  BY <1>2, <1>3, PeersAssumption DEF Base, Placed, RecordGood

LEMMA JoinLively ==
  ASSUME Base, Lively, NEW u \in Users, NEW g \in BOOLEAN, Join(u, g)
  PROVE  Lively'
<1>1. /\ lines' = lines /\ peers' = peers /\ ~tab[u].in
      /\ \A x \in Users \ {u} : tab'[x] = tab[x]
  BY DEF Join, Base, Typed
<1> SUFFICES ASSUME NEW d \in Lines, Alive(lines'[d]), NEW x \in lines'[d].ends,
                    NEW y \in lines'[d].ends, x # y
             PROVE  DirOf(d, x, y)'
  BY DEF Lively
<1>2. x \in Users /\ x \notin lines[d].old
  BY <1>1, LineIs DEF Alive, Base
<1>3. x # u
  BY <1>1, <1>2 DEF Base, Away
<1> QED
  BY <1>1, <1>2, <1>3, TalkItself, LivelyFrame

LEMMA CloseLively ==
  ASSUME Base, Lively, NEW u \in Users, Leave(u) \/ MoveOn(u)
  PROVE  Lively'
<1>1. Close(u)
  BY DEF Leave, MoveOn
<1>2. \A x \in Users \ {u} : tab'[x] = tab[x]
  BY LeaveBase
<1>3. /\ \A d \in Lines : IF u \in lines[d].ends
                         THEN ClosedBy(lines[d], lines'[d], u, plays[u][Far(u, d)] = d)
                         ELSE lines'[d] = lines[d]
      /\ \A x \in Users \ {u} : peers'[x] = peers[x]
  BY <1>1, CloseIs
<1> SUFFICES ASSUME NEW d \in Lines, Alive(lines'[d]), NEW x \in lines'[d].ends,
                    NEW y \in lines'[d].ends, x # y
             PROVE  DirOf(d, x, y)'
  BY DEF Lively
<1>4. u \notin lines[d].ends
  <2>1. ASSUME u \in lines[d].ends PROVE FALSE
    <3>1. u \in lines'[d].old
      BY <1>3, <2>1 DEF ClosedBy
    <3> QED
      BY <3>1 DEF Alive
  <2> QED
    BY <2>1
<1>5. lines'[d] = lines[d]
  BY <1>3, <1>4
<1>6. x \in Users /\ y \in Users /\ x # u /\ y # u
  BY <1>4, <1>5, LineIs DEF Base
<1> QED
  BY <1>2, <1>3, <1>5, <1>6, TalkItself, LivelyFrame

LEMMA HubPeerLively ==
  ASSUME Base, Lively, NEW u \in Users, NEW v \in Users, HubPeer(u, v)
  PROVE  Lively'
<1>1. /\ lines' = lines /\ tab' = tab /\ ~peers[u][v].listed
      /\ \A x, y \in Users : <<x, y>> # <<u, v>> => peers'[x][y] = peers[x][y]
  BY DEF HubPeer, Base, Typed
<1> SUFFICES ASSUME NEW d \in Lines, Alive(lines'[d]), NEW x \in lines'[d].ends,
                    NEW y \in lines'[d].ends, x # y
             PROVE  DirOf(d, x, y)'
  BY DEF Lively
<1>2. x \in Users /\ y \in Users
  BY <1>1, LineIs DEF Base
<1>3. lines[d].phase[x] = "up" => peers[x][y].listed
  BY <1>1, RecordOf
<1>4. lines[d].phase[y] = "up" => peers[y][x].listed
  BY <1>1, RecordOf
<1> QED
  BY <1>1, <1>2, <1>3, <1>4, TalkItself, LivelyFrame

(* A record that goes with its line was of no line that goes on. *)
LEMMA TimerLively ==
  ASSUME Base, Lively, NEW u \in Users, NEW v \in Users, TimerFires(u, v)
  PROVE  Lively'
<1>1. /\ tab' = tab
      /\ \A x, y \in Users : <<x, y>> # <<u, v>> => peers'[x][y] = peers[x][y]
      /\ \/ peers'[u][v] = peers[u][v] /\ lines' = lines
         \/ \A d \in Lines : IF d = peers[u][v].via THEN LostBy(lines[d], lines'[d], u)
                             ELSE lines'[d] = lines[d]
  BY TimerIs
<1> SUFFICES ASSUME NEW d \in Lines, Alive(lines'[d]), NEW x \in lines'[d].ends,
                    NEW y \in lines'[d].ends, x # y
             PROVE  DirOf(d, x, y)'
  BY DEF Lively
<1>2. CASE peers'[u][v] = peers[u][v] /\ lines' = lines
  <2>1. x \in Users /\ y \in Users
    BY <1>2, LineIs DEF Base
  <2> QED
    BY <1>1, <1>2, <2>1, TalkItself, LivelyFrame
<1>3. CASE \A e \in Lines : IF e = peers[u][v].via THEN LostBy(lines[e], lines'[e], u)
                            ELSE lines'[e] = lines[e]
  <2>1. d # peers[u][v].via
    <3>1. ASSUME d = peers[u][v].via PROVE FALSE
      <4>1. u \in lines'[d].lost
        BY <1>3, <3>1 DEF LostBy
      <4> QED
        BY <4>1 DEF Alive
    <3> QED
      BY <3>1
  <2>2. lines'[d] = lines[d]
    BY <1>3, <2>1
  <2>3. x \in Users /\ y \in Users
    BY <2>2, LineIs DEF Base
  <2>4. lines[d].phase[x] = "up" => peers[x][y].via = d
    BY <2>2, RecordOf
  <2>5. lines[d].phase[y] = "up" => peers[y][x].via = d
    BY <2>2, RecordOf
  <2> QED
    BY <1>1, <2>1, <2>2, <2>3, <2>4, <2>5, TalkItself, LivelyFrame
<1> QED
  BY <1>1, <1>2, <1>3

LEMMA NewDir ==
  ASSUME NEW c, NEW u, NEW v, u # v, NEW ru, NEW rv, NEW t, NEW l, l = NewLine({u, v})
  PROVE  Dir(c, l, u, v, ru, rv, t)
<1>1. /\ l.phase[u] = "new" /\ l.phase[v] = "new" /\ l.inbox[v] = <<>>
      /\ l.offered = {} /\ l.sound[v] = "none"
  BY DEF NewLine
<1>2. ~Early(l.inbox[v]) /\ ~Shook(l, u, v) /\ ~Streamed(l, v) /\ ~WillHide(l, v, rv)
  BY <1>1, Nothing DEF Shook, Streamed, WillHide, Drawn
<1> QED
  BY <1>1, <1>2 DEF Dir

LEMMA DialLively ==
  ASSUME Base, Lively, NEW u \in Users, NEW v \in Users, NEW c \in Lines, Dial(u, v, c)
  PROVE  Lively'
<1>1. /\ tab' = tab /\ peers' = peers /\ u # v
      /\ lines'[c] = NewLine({u, v}) /\ lines'[c].ends = {u, v}
      /\ \A d \in Lines \ {c} : lines'[d] = lines[d]
  BY DialIs
<1> SUFFICES ASSUME NEW d \in Lines, Alive(lines'[d]), NEW x \in lines'[d].ends,
                    NEW y \in lines'[d].ends, x # y
             PROVE  DirOf(d, x, y)'
  BY DEF Lively
<1>2. CASE d # c
  BY <1>1, <1>2, TalkItself, LivelyFrame
<1>3. CASE d = c
  <2>1. PICK l, ru, rv, t : /\ l = lines'[c] /\ ru = peers'[x][y] /\ rv = peers'[y][x]
                            /\ t = tab'[x]
    OBVIOUS
  <2>2. l = NewLine({x, y})
    <3>1. {x, y} = {u, v}
      BY <1>1, <1>3
    <3> QED
      BY <1>1, <2>1, <3>1
  <2>3. Dir(c, l, x, y, ru, rv, t)
    BY <2>2, NewDir
  <2> QED
    BY <1>3, <2>1, <2>3 DEF DirOf
<1> QED
  BY <1>2, <1>3

(* The end of u opens: it greets v, and takes a new record.                 *)
LEMMA GreetDir ==
  ASSUME NEW c, NEW l, NEW k, NEW u, NEW v, NEW ru, NEW rv, NEW t, NEW su,
         LineT(l), u \in l.ends, v \in l.ends, u # v, Alive(l), l.phase[u] = "new",
         OpenedBy(l, k, u, v), Dir(c, l, u, v, ru, rv, t)
  PROVE  Dir(c, k, u, v, su, rv, t)
<1>1. l \in Line(l.ends)
  BY DEF LineT
<1>2. /\ k.phase[u] = "up" /\ k.phase[v] = l.phase[v] /\ k.inbox[u] = l.inbox[u]
      /\ k.inbox[v] = Append(l.inbox[v], "sendHandshake")
      /\ k.offered = l.offered /\ k.sound = l.sound
  BY <1>1 DEF OpenedBy, Line
<1>3. PICK q, p : q = l.inbox[v] /\ p = Append(q, "sendHandshake")
  OBVIOUS
<1>4. q \in Seq(Message) /\ "sendHandshake" \in Message
  BY <1>1, <1>3 DEF Line, Message
<1>5. /\ \A n \in Message : Carries(p, n) <=> Carries(q, n) \/ n = "sendHandshake"
      /\ LastlyOn(p) => LastlyOn(q)
      /\ LastlyOff(p) => LastlyOff(q)
      /\ Early(p) => Early(q)
  <2>1. Before(q, "sendHandshake", p)
    BY <1>3, <1>4, Appended
  <2> QED
    BY <2>1 DEF Before
<1>6. ~Knows(c, l, u, ru)
  BY DEF Knows
<1>7. Knows(c, k, v, rv) <=> Knows(c, l, v, rv)
  BY <1>2 DEF Knows
<1>8. ~WillHide(k, v, rv)
  <2>1. ~WillHide(l, v, rv)
    BY <1>6 DEF Dir
  <2> QED
    BY <1>2, <1>3, <1>5, <2>1 DEF WillHide, Drawn, Message
<1>9. ~Shook(k, u, v)
  BY <1>2, <1>3, <1>5 DEF Shook, Message
<1>10. Streamed(k, v) <=> Streamed(l, v)
  BY <1>2 DEF Streamed
<1> QED
  BY <1>2, <1>3, <1>5, <1>7, <1>8, <1>9, <1>10 DEF Dir, Message

LEMMA OpenDir ==
  ASSUME NEW c, NEW l, NEW k, NEW u, NEW v, NEW ru, NEW rv, NEW t, NEW su,
         LineT(l), u \in l.ends, v \in l.ends, u # v, Alive(l), l.phase[u] = "new",
         OpenedBy(l, k, u, v), Dir(c, l, v, u, rv, ru, t), su.via = c, su.audio
  PROVE  Dir(c, k, v, u, rv, su, t)
<1>1. l \in Line(l.ends)
  BY DEF LineT
<1>2. /\ k.phase[u] = "up" /\ k.phase[v] = l.phase[v] /\ k.inbox[u] = l.inbox[u]
      /\ k.inbox[v] = Append(l.inbox[v], "sendHandshake")
      /\ k.offered = l.offered /\ k.sound = l.sound
  BY <1>1 DEF OpenedBy, Line
<1>3. ~Knows(c, l, u, ru)
  BY DEF Knows
<1>4. Knows(c, k, v, rv) <=> Knows(c, l, v, rv)
  BY <1>2 DEF Knows
<1>5. Drawn(k, u, su) /\ Drawn(l, u, ru)
  BY DEF Drawn
<1>6. (WillShow(k, u, su) <=> WillShow(l, u, ru)) /\ (WillHide(k, u, su) <=> WillHide(l, u, ru))
  BY <1>2, <1>5 DEF WillShow, WillHide
<1>7. l.phase[v] = "up" => Carries(l.inbox[u], "sendHandshake")
  BY <1>3 DEF Dir
<1>8. ~Shook(k, v, u)
  BY <1>2, <1>7 DEF Shook
<1>9. Streamed(k, u) <=> Streamed(l, u)
  BY <1>2 DEF Streamed
<1>10. ~Early(l.inbox[u])
  BY <1>3 DEF Dir
<1> QED
  BY <1>2, <1>4, <1>6, <1>7, <1>8, <1>9, <1>10 DEF Dir

(* Another line that goes on, of which u's record is not, with a peer whose *)
(* record at u changes: that record did not count.                          *)
LEMMA OtherRecord ==
  ASSUME Base, Lively, NEW d \in Lines, NEW x \in lines[d].ends, NEW y \in lines[d].ends, x # y,
         Alive(lines[d]), lines'[d] = lines[d], tab' = tab,
         NEW u \in Users, NEW v \in Users, peers[u][v].via # d,
         \A a, b \in Users : <<a, b>> # <<u, v>> => peers'[a][b] = peers[a][b]
  PROVE  DirOf(d, x, y)'
<1>1. x \in Users /\ y \in Users
  BY LineIs DEF Base
<1>2. lines[d].phase[x] = "up" => peers[x][y].via = d
  BY RecordOf
<1>3. lines[d].phase[y] = "up" => peers[y][x].via = d
  BY RecordOf
<1> QED
  BY <1>1, <1>2, <1>3, TalkItself, LivelyFrame

LEMMA ConnectedLively ==
  ASSUME Base, Lively, NEW u \in Users, NEW c \in Lines, Connected(u, c)
  PROVE  Lively'
<1>1. PICK v, r : v = Far(u, c) /\ r = [listed |-> TRUE, via |-> c,
                        connected |-> peers[u][v].connected, audio |-> TRUE]
  OBVIOUS
<1>2. /\ tab' = tab /\ v \in Users /\ u # v /\ lines[c].ends = {u, v}
      /\ lines[c].phase[u] = "new" /\ peers' = [peers EXCEPT ![u][v] = r]
      /\ OpenedBy(lines[c], lines'[c], u, v)
      /\ \A d \in Lines \ {c} : IF d = peers[u][v].via THEN LostBy(lines[d], lines'[d], u)
                                ELSE lines'[d] = lines[d]
  BY <1>1, ConnectedIs
<1>3. /\ peers'[u][v] = r /\ r.via = c /\ r.audio
      /\ \A a, b \in Users : <<a, b>> # <<u, v>> => peers'[a][b] = peers[a][b]
  BY <1>1, <1>2 DEF Base, Typed
<1> SUFFICES ASSUME NEW d \in Lines, Alive(lines'[d]), NEW x \in lines'[d].ends,
                    NEW y \in lines'[d].ends, x # y
             PROVE  DirOf(d, x, y)'
  BY DEF Lively
<1>4. CASE d # c
  <2>1. d # peers[u][v].via
    <3>1. ASSUME d = peers[u][v].via PROVE FALSE
      <4>1. u \in lines'[d].lost
        BY <1>2, <1>4, <3>1 DEF LostBy
      <4> QED
        BY <4>1 DEF Alive
    <3> QED
      BY <3>1
  <2>2. lines'[d] = lines[d]
    BY <1>2, <1>4, <2>1
  <2> QED
    BY <1>2, <1>3, <2>1, <2>2, OtherRecord
<1>5. CASE d = c
  <2>1. PICK l, k, ru, rv, tu, tv :
          /\ l = lines[c] /\ k = lines'[c] /\ ru = peers[u][v] /\ rv = peers[v][u]
          /\ tu = tab[u] /\ tv = tab[v]
    OBVIOUS
  <2>2. LineT(l) /\ u \in l.ends /\ v \in l.ends /\ l.phase[u] = "new" /\ OpenedBy(l, k, u, v)
    BY <1>2, <2>1 DEF Base, Typed
  <2>3. Alive(l)
    <3>1. /\ l.old = {} /\ l.lost = {} /\ l.ends = {u, v} /\ \A w \in l.ends : k.phase[w] # "gone"
          /\ k.phase = [l.phase EXCEPT ![u] = "up"]
      BY <1>2, <1>5, <2>1 DEF Alive, OpenedBy
    <3>2. l.phase \in [l.ends -> {"new", "up", "gone"}]
      BY <2>1, LineIs DEF Base
    <3> QED
      BY <2>2, <3>1, <3>2 DEF Alive
  <2>4. Dir(c, l, u, v, ru, rv, tu) /\ Dir(c, l, v, u, rv, ru, tv)
    BY <1>2, <2>1, <2>2, <2>3 DEF Lively, DirOf
  <2>5. Dir(c, k, u, v, r, rv, tu)
    BY <1>2, <2>2, <2>3, <2>4, GreetDir
  <2>6. Dir(c, k, v, u, rv, r, tv)
    BY <1>2, <1>3, <2>2, <2>3, <2>4, OpenDir
  <2>7. peers'[v][u] = rv /\ peers'[u][v] = r
    BY <1>2, <1>3, <2>1
  <2>8. DirOf(c, u, v)'
    BY <1>2, <2>1, <2>5, <2>7 DEF DirOf
  <2>9. DirOf(c, v, u)'
    BY <1>2, <2>1, <2>6, <2>7 DEF DirOf
  <2>10. \/ x = u /\ y = v
         \/ x = v /\ y = u
    BY <1>2, <1>5 DEF OpenedBy
  <2> QED
    BY <1>5, <2>8, <2>9, <2>10
<1> QED
  BY <1>4, <1>5

LEMMA DisconnectedLively ==
  ASSUME Base, Lively, NEW u \in Users, NEW c \in Lines, Disconnected(u, c)
  PROVE  Lively'
<1>1. PICK v : v = Far(u, c)
  OBVIOUS
<1>2. /\ tab' = tab /\ v \in Users /\ u # v /\ lines[c].ends = {u, v}
      /\ peers' = [peers EXCEPT ![u][v] = NoRecord]
      /\ IF lines[c].phase[v] = "gone" THEN lines'[c] = Free
         ELSE EndedBy(lines[c], lines'[c], u)
      /\ \A d \in Lines \ {c} :
           IF d \in {peers[u][v].via, plays[u][v]}
           THEN SilencedBy(lines[d], lines'[d], u, d = plays[u][v])
           ELSE lines'[d] = lines[d]
  BY <1>1, DisconnectedIs
<1>3. \A a, b \in Users : <<a, b>> # <<u, v>> => peers'[a][b] = peers[a][b]
  BY <1>2 DEF Base, Typed
<1> SUFFICES ASSUME NEW d \in Lines, Alive(lines'[d]), NEW x \in lines'[d].ends,
                    NEW y \in lines'[d].ends, x # y
             PROVE  DirOf(d, x, y)'
  BY DEF Lively
<1>4. d # c
  <2>1. ASSUME d = c PROVE FALSE
    <3>1. lines'[c] # Free
      BY <2>1, NewLines
    <3>2. EndedBy(lines[c], lines'[c], u)
      BY <1>2, <3>1
    <3>3. lines[c].phase \in [lines[c].ends -> {"new", "up", "gone"}]
      BY LineIs DEF Base
    <3>4. lines'[c].phase[u] = "gone" /\ u \in lines'[c].ends
      BY <1>2, <3>2, <3>3 DEF EndedBy
    <3> QED
      BY <2>1, <3>4 DEF Alive
  <2> QED
    BY <2>1
<1>5. d \notin {peers[u][v].via, plays[u][v]}
  <2>1. ASSUME d \in {peers[u][v].via, plays[u][v]} PROVE FALSE
    <3>1. u \in lines'[d].lost
      BY <1>2, <1>4, <2>1 DEF SilencedBy
    <3> QED
      BY <3>1 DEF Alive
  <2> QED
    BY <2>1
<1>6. lines'[d] = lines[d] /\ peers[u][v].via # d
  BY <1>2, <1>4, <1>5
<1> QED
  BY <1>2, <1>3, <1>6, OtherRecord

LEMMA StreamLively ==
  ASSUME Base, Lively, NEW u \in Users, NEW c \in Lines, StreamArrives(u, c)
  PROVE  Lively'
<1>1. PICK v : v = Far(u, c)
  OBVIOUS
<1>2. /\ tab' = tab /\ peers' = peers /\ v \in Users /\ u # v /\ lines[c].ends = {u, v}
      /\ u \in lines[c].offered
      /\ StreamedBy(lines[c], lines'[c], u, Speaker(u), plays[u][v] = c)
      /\ \A d \in Lines \ {c} : IF d = plays[u][v] THEN LostBy(lines[d], lines'[d], u)
                                ELSE lines'[d] = lines[d]
  BY <1>1, StreamIs
<1> SUFFICES ASSUME NEW d \in Lines, Alive(lines'[d]), NEW x \in lines'[d].ends,
                    NEW y \in lines'[d].ends, x # y
             PROVE  DirOf(d, x, y)'
  BY DEF Lively
<1>3. SameTalk(lines[d], lines'[d], x, y)
  <2>1. CASE d = c
    <3>1. /\ Like(lines[c], lines'[c]) /\ lines'[c].inbox = lines[c].inbox
          /\ lines'[c].sound = [lines[c].sound EXCEPT ![u] = Speaker(u)]
          /\ lines'[c].offered = lines[c].offered \ {u} /\ y \in lines[c].ends
      BY <1>2, <2>1 DEF StreamedBy, Like
    <3>2. Speaker(u) # "none"
      BY DEF Speaker
    <3>3. lines[c].sound \in [lines[c].ends -> Sounds]
      BY LineIs DEF Base
    <3>4. Streamed(lines'[c], y) <=> Streamed(lines[c], y)
      BY <1>2, <3>1, <3>2, <3>3 DEF Streamed
    <3> QED
      BY <2>1, <3>1, <3>4 DEF SameTalk, Like
  <2>2. CASE d # c
    BY <1>2, <2>2 DEF LostBy, Like, SameTalk, Streamed
  <2> QED
    BY <2>1, <2>2
<1> QED
  BY <1>2, <1>3, LivelyFrame

(* A message m to u is heard, its record becomes su, and a reply may go to  *)
(* v. *)
Talked(l, k, u, v, m, reply, of) ==
  /\ k.phase = l.phase /\ k.sound = l.sound /\ k.offered = of /\ m \in Message
  /\ After(l.inbox[u], m, k.inbox[u])
  /\ IF reply = "nothing" THEN k.inbox[v] = l.inbox[v]
     ELSE Before(l.inbox[v], reply, k.inbox[v])
RecordThen(c, m, ru, su) ==
  /\ su.via = ru.via /\ (su.connected <=> ru.connected \/ m = "sendHandshake")
  /\ su.audio <=> IF m \in {"on", "off"} THEN m = "on" ELSE ru.audio
Replied(m, reply, t) ==
  /\ m = "sendHandshake" => reply = "receivedHandshake"
  /\ m = "receivedHandshake" => reply = IF t.mic /\ t.granted THEN "nothing" ELSE "off"
  /\ m \in {"on", "off"} => reply = "nothing"

LEMMA TalkIs ==
  ASSUME NEW l, NEW k, NEW u, NEW v, LineT(l), u \in l.ends, v \in l.ends, u # v, Alive(l),
         l.inbox[u] # <<>>, NEW m, m = Head(l.inbox[u]), NEW of,
         NEW reply \in Message \cup {"nothing"}, ReceivedBy(l, k, u, v, reply, of)
  PROVE  Talked(l, k, u, v, m, reply, of)
<1>1. l \in Line(l.ends) /\ l.phase[v] # "gone"
  BY DEF LineT, Alive
<1>2. l.inbox \in [l.ends -> Seq(Message)]
  BY <1>1 DEF Line
<1>3. PICK q, p : q = l.inbox[u] /\ p = l.inbox[v]
  OBVIOUS
<1>4. q \in Seq(Message) /\ p \in Seq(Message) /\ m = Head(q) /\ q # <<>> /\ m \in Message
  BY <1>2, <1>3
<1>5. k.inbox[u] = Tail(q) /\ k.inbox[v] = IF reply = "nothing" THEN p ELSE Append(p, reply)
  BY <1>1, <1>2, <1>3 DEF ReceivedBy, Taken
<1>6. After(q, m, k.inbox[u])
  BY <1>4, <1>5, Tailed
<1>7. reply # "nothing" => Before(p, reply, k.inbox[v])
  BY <1>4, <1>5, Appended
<1> QED
  BY <1>3, <1>4, <1>5, <1>6, <1>7 DEF Talked, ReceivedBy, Like

LEMMA TakeDir ==
  ASSUME NEW c, NEW l, NEW k, NEW u, NEW v, NEW ru, NEW rv, NEW t, NEW su, NEW m, NEW reply, NEW of,
         u # v, l.phase[u] = "up", Talked(l, k, u, v, m, reply, of), RecordThen(c, m, ru, su),
         ru.via = c, Dir(c, l, v, u, rv, ru, t), m = "sendHandshake" => reply = "receivedHandshake",
         u \in of <=> u \in l.offered, reply \in Message \cup {"nothing"}
  PROVE  Dir(c, k, v, u, rv, su, t)
<1>1. k.phase = l.phase /\ k.sound = l.sound /\ k.offered = of /\ m \in Message
  BY DEF Talked
<1>2. PICK q, r, p, s : q = l.inbox[u] /\ r = k.inbox[u] /\ p = l.inbox[v] /\ s = k.inbox[v]
  OBVIOUS
<1>3. /\ \A n \in Message : Carries(q, n) <=> n = m \/ Carries(r, n)
      /\ LastlyOn(q) <=> LastlyOn(r) \/ (m = "on" /\ ~Carries(r, "off"))
      /\ LastlyOff(q) <=> LastlyOff(r) \/ (m = "off" /\ ~Carries(r, "on"))
      /\ Early(r) => Early(q) \/ m = "sendHandshake"
  BY <1>2 DEF Talked, After
<1>4. /\ \A n \in Message : Carries(p, n) => Carries(s, n)
      /\ m = "sendHandshake" => Carries(s, "receivedHandshake")
  BY <1>2 DEF Talked, Before, Message
<1>5. Knows(c, k, u, su) <=> Knows(c, l, u, ru) \/ m = "sendHandshake"
  BY <1>1 DEF Knows, RecordThen
<1>6. Knows(c, k, v, rv) <=> Knows(c, l, v, rv)
  BY <1>1 DEF Knows
<1>7. (Drawn(l, u, ru) <=> ru.audio) /\ (Drawn(k, u, su) <=> su.audio)
  BY <1>1 DEF Drawn
<1>8. WillShow(k, u, su) <=> WillShow(l, u, ru)
  <2>1. CASE m = "on"
    BY <1>2, <1>3, <1>7, <2>1 DEF WillShow, RecordThen, Message
  <2>2. CASE m = "off"
    BY <1>2, <1>3, <1>7, <2>2 DEF WillShow, RecordThen, Message
  <2>3. CASE m \notin {"on", "off"}
    BY <1>2, <1>3, <1>7, <2>3 DEF WillShow, RecordThen, Message
  <2> QED
    BY <2>1, <2>2, <2>3
<1>9. WillHide(k, u, su) <=> WillHide(l, u, ru)
  <2>1. CASE m = "on"
    BY <1>2, <1>3, <1>7, <2>1 DEF WillHide, RecordThen, Message
  <2>2. CASE m = "off"
    BY <1>2, <1>3, <1>7, <2>2 DEF WillHide, RecordThen, Message
  <2>3. CASE m \notin {"on", "off"}
    BY <1>2, <1>3, <1>7, <2>3 DEF WillHide, RecordThen, Message
  <2> QED
    BY <2>1, <2>2, <2>3
<1>10. Streamed(k, u) <=> Streamed(l, u)
  BY <1>1 DEF Streamed
<1>11. Shook(k, v, u) => Shook(l, v, u)
  <2> SUFFICES ASSUME Shook(k, v, u) PROVE Shook(l, v, u)
    OBVIOUS
  <2>1. l.phase[v] = "up" /\ ~Carries(r, "sendHandshake") /\ ~Carries(s, "receivedHandshake")
    BY <1>1, <1>2 DEF Shook
  <2>2. m # "sendHandshake"
    BY <1>4, <2>1
  <2>3. ~Carries(q, "sendHandshake") /\ ~Carries(p, "receivedHandshake")
    BY <1>3, <1>4, <2>1, <2>2 DEF Message
  <2> QED
    BY <1>2, <2>1, <2>3 DEF Shook
<1>12. k.phase[v] = "up" => Carries(r, "sendHandshake") \/ Knows(c, k, u, su)
  BY <1>1, <1>2, <1>3, <1>5 DEF Dir, Message
<1>13. Early(r) => Knows(c, k, u, su)
  BY <1>2, <1>3, <1>5 DEF Dir
<1>14. su.via = c
  BY DEF RecordThen
<1> QED
  BY <1>2, <1>6, <1>8, <1>9, <1>10, <1>11, <1>12, <1>13, <1>14 DEF Dir

LEMMA ReplyDir ==
  ASSUME NEW c, NEW l, NEW k, NEW u, NEW v, NEW ru, NEW rv, NEW t, NEW su, NEW m, NEW reply, NEW of,
         u # v, l.phase[u] = "up", l.phase[v] \in {"new", "up"},
         Talked(l, k, u, v, m, reply, of), RecordThen(c, m, ru, su),
         ru.via = c, Dir(c, l, u, v, ru, rv, t),
         m = "receivedHandshake" => Knows(c, l, u, ru), Replied(m, reply, t),
         v \in of <=> v \in l.offered \/ (m = "receivedHandshake" /\ t.granted),
         reply \in Message \cup {"nothing"}
  PROVE  Dir(c, k, u, v, su, rv, t)
<1>1. k.phase = l.phase /\ k.sound = l.sound /\ k.offered = of /\ m \in Message
  BY DEF Talked
<1>2. PICK q, r, p, s : q = l.inbox[u] /\ r = k.inbox[u] /\ p = l.inbox[v] /\ s = k.inbox[v]
  OBVIOUS
<1>3. \A n \in Message : Carries(q, n) <=> n = m \/ Carries(r, n)
  BY <1>2 DEF Talked, After
<1>4. /\ reply = "nothing" => s = p
      /\ reply # "nothing" =>
           /\ \A n \in Message : Carries(s, n) <=> Carries(p, n) \/ n = reply
           /\ LastlyOn(s) <=> reply = "on" \/ (LastlyOn(p) /\ reply # "off")
           /\ LastlyOff(s) <=> reply = "off" \/ (LastlyOff(p) /\ reply # "on")
           /\ Early(s) => Early(p) \/ (reply = "receivedHandshake" /\ ~Carries(p, "sendHandshake"))
  BY <1>2 DEF Talked, Before
<1>5. Knows(c, l, u, ru) => Knows(c, k, u, su)
  BY <1>1 DEF Knows, RecordThen
<1>6. Knows(c, k, v, rv) <=> Knows(c, l, v, rv)
  BY <1>1 DEF Knows
<1>7. Drawn(k, v, rv) <=> Drawn(l, v, rv)
  BY <1>1 DEF Drawn
<1>8. l.phase[u] = "up" => Carries(s, "sendHandshake") \/ Knows(c, k, v, rv)
  BY <1>2, <1>4, <1>6 DEF Dir, Message
<1>9. Early(s) => Knows(c, k, v, rv)
  BY <1>2, <1>4, <1>6 DEF Dir
<1>10. CASE m = "receivedHandshake"
  <2>1. Knows(c, k, u, su)
    BY <1>5, <1>10
  <2>2. Streamed(k, v) <=> Streamed(l, v) \/ t.granted
    BY <1>1, <1>10 DEF Streamed
  <2>3. CASE t.mic /\ t.granted
    <3>1. s = p
      BY <1>4, <1>10, <2>3 DEF Replied
    <3>2. ~WillHide(k, v, rv)
      <4>1. ~WillHide(l, v, rv)
        BY <2>3 DEF Dir
      <4> QED
        BY <1>2, <1>7, <3>1, <4>1 DEF WillHide
    <3> QED
      BY <1>1, <1>2, <1>8, <1>9, <2>1, <2>2, <2>3, <3>1, <3>2 DEF Dir
  <2>4. CASE ~(t.mic /\ t.granted)
    <3>1. reply = "off"
      BY <1>10, <2>4 DEF Replied
    <3>2. Carries(s, "off") /\ ~LastlyOn(s)
      BY <1>4, <3>1 DEF Message
    <3>3. ~WillShow(k, v, rv)
      BY <1>2, <3>2 DEF WillShow
    <3> QED
      BY <1>1, <1>2, <1>8, <1>9, <2>1, <2>2, <2>4, <3>3 DEF Dir
  <2> QED
    BY <2>3, <2>4
<1>11. CASE m # "receivedHandshake"
  <2>1. Streamed(k, v) <=> Streamed(l, v)
    BY <1>1, <1>11 DEF Streamed
  <2>2. reply \in {"nothing", "receivedHandshake"}
    BY <1>1, <1>11 DEF Replied, Message
  <2>3. /\ \A n \in {"on", "off", "sendHandshake"} : Carries(s, n) <=> Carries(p, n)
        /\ (LastlyOn(s) <=> LastlyOn(p)) /\ (LastlyOff(s) <=> LastlyOff(p))
    BY <1>4, <2>2 DEF Message
  <2>4. (WillShow(k, v, rv) <=> WillShow(l, v, rv)) /\ (WillHide(k, v, rv) <=> WillHide(l, v, rv))
    BY <1>2, <1>7, <2>3 DEF WillShow, WillHide
  <2>5. Shook(k, u, v) => Shook(l, u, v)
    <3>1. Carries(q, "receivedHandshake") <=> Carries(r, "receivedHandshake")
      BY <1>3, <1>11 DEF Message
    <3> QED
      BY <1>1, <1>2, <2>3, <3>1 DEF Shook
  <2> QED
    BY <1>1, <1>2, <1>5, <1>8, <1>9, <2>1, <2>4, <2>5 DEF Dir
<1> QED
  BY <1>10, <1>11

LEMMA HeardThen ==
  ASSUME NEW c, NEW m \in Message, NEW ru \in Record, ru.via = c, NEW su, su = HeardRecord(ru, c, m)
  PROVE  RecordThen(c, m, ru, su)
<1>1. CASE m = "receivedHandshake"
  BY <1>1 DEF HeardRecord, RecordThen
<1>2. CASE m = "sendHandshake"
  BY <1>2 DEF HeardRecord, RecordThen, Record
<1>3. CASE m \in {"on", "off"}
  <2>1. su = [ru EXCEPT !.audio = (m = "on")]
    BY <1>3 DEF HeardRecord
  <2>2. (m = "on") \in BOOLEAN
    OBVIOUS
  <2> QED
    BY <1>3, <2>1, <2>2 DEF RecordThen, Record
<1> QED
  BY <1>1, <1>2, <1>3 DEF Message

LEMMA ReceiveLively ==
  ASSUME Base, Lively, NEW u \in Users, NEW c \in Lines, Receive(u, c)
  PROVE  Lively'
<1>1. PICK v, m : v = Far(u, c) /\ m = Head(lines[c].inbox[u])
  OBVIOUS
<1>2. PICK reply, of, su :
        /\ reply = Reply(u, m) /\ of = OfferedNow(u, v, lines[c].offered, m)
        /\ su = HeardRecord(peers[u][v], c, m)
  OBVIOUS
<1>3. /\ tab' = tab /\ v \in Users /\ u # v /\ lines[c].ends = {u, v} /\ lines[c].phase[u] = "up"
      /\ lines[c].inbox[u] # <<>> /\ m \in Message
      /\ ReceivedBy(lines[c], lines'[c], u, v, reply, of)
      /\ \A d \in Lines \ {c} : lines'[d] = lines[d]
      /\ peers' = [peers EXCEPT ![u][v] = su]
  <2>1. /\ tab' = tab /\ v \in Users /\ u # v /\ lines[c].ends = {u, v} /\ lines[c].phase[u] = "up"
        /\ lines[c].inbox[u] # <<>> /\ m \in Message
        /\ \A d \in Lines \ {c} : lines'[d] = lines[d]
    BY <1>1, ReceiveIs
  <2>2. ReceivedBy(lines[c], lines'[c], u, v, Reply(u, m), OfferedNow(u, v, lines[c].offered, m))
    BY <1>1, ReceiveIs
  <2>3. peers' = [peers EXCEPT ![u][v] = HeardRecord(peers[u][v], c, m)]
    BY <1>1, ReceiveIs
  <2> QED
    BY <1>2, <2>1, <2>2, <2>3
<1>4. /\ peers'[u][v] = su
      /\ \A a, b \in Users : <<a, b>> # <<u, v>> => peers'[a][b] = peers[a][b]
  BY <1>3 DEF Base, Typed
<1> SUFFICES ASSUME NEW d \in Lines, Alive(lines'[d]), NEW x \in lines'[d].ends,
                    NEW y \in lines'[d].ends, x # y
             PROVE  DirOf(d, x, y)'
  BY DEF Lively
<1>5. CASE d # c
  <2>1. lines'[d] = lines[d] /\ x \in Users /\ y \in Users
    BY <1>3, <1>5, LineIs DEF Base
  <2>2. ASSUME peers[u][v].via # c PROVE peers' = peers
    <3>1. su = peers[u][v]
      BY <1>2, <2>2 DEF HeardRecord
    <3> QED
      BY <1>3, <3>1 DEF Base, Typed
  <2>3. CASE peers[u][v].via # c
    BY <1>3, <2>1, <2>2, <2>3, TalkItself, LivelyFrame
  <2>4. CASE peers[u][v].via = c
    BY <1>3, <1>4, <1>5, <2>1, <2>4, OtherRecord
  <2> QED
    BY <2>3, <2>4
<1>6. CASE d = c
  <2>1. PICK l, k, ru, rv, tu, tv :
          /\ l = lines[c] /\ k = lines'[c] /\ ru = peers[u][v] /\ rv = peers[v][u]
          /\ tu = tab[u] /\ tv = tab[v]
    OBVIOUS
  <2>2. /\ LineT(l) /\ u \in l.ends /\ v \in l.ends /\ l.phase[u] = "up" /\ l.inbox[u] # <<>>
        /\ m = Head(l.inbox[u]) /\ ReceivedBy(l, k, u, v, reply, of)
    BY <1>1, <1>3, <2>1 DEF Base, Typed
  <2>3. Alive(l)
    BY <1>6, <2>1, <2>2, AliveBefore DEF ReceivedBy, Like
  <2>4. Dir(c, l, u, v, ru, rv, tu) /\ Dir(c, l, v, u, rv, ru, tv)
    BY <1>3, <2>1, <2>2, <2>3 DEF Lively, DirOf
  <2>5. reply \in Message \cup {"nothing"}
    BY <1>2 DEF Reply, Message
  <2>6. Talked(l, k, u, v, m, reply, of)
    BY <1>3, <2>2, <2>3, <2>5, TalkIs
  <2>7. ru.via = c
    BY <2>2, <2>4 DEF Dir
  <2>8. RecordThen(c, m, ru, su)
    <3>1. ru \in Record
      BY <1>3, <2>1 DEF Base, Typed
    <3> QED
      BY <1>2, <1>3, <2>1, <2>7, <3>1, HeardThen
  <2>9. Replied(m, reply, tu)
    BY <1>2, <2>1 DEF Replied, Reply, SendsOff
  <2>10. tu.in
    <3>1. u \notin l.old
      BY <2>3 DEF Alive
    <3> QED
      BY <2>1, <2>2, <3>1 DEF Base, Away
  <2>11. /\ u \in of <=> u \in l.offered
         /\ v \in of <=> v \in l.offered \/ (m = "receivedHandshake" /\ tu.granted)
    BY <1>2, <1>3, <2>1, <2>10 DEF OfferedNow
  <2>12. m = "receivedHandshake" => Knows(c, l, u, ru)
    <3>1. After(l.inbox[u], m, k.inbox[u])
      BY <2>6 DEF Talked
    <3>2. m = "receivedHandshake" => Early(l.inbox[u])
      BY <3>1 DEF After
    <3> QED
      BY <2>4, <3>2 DEF Dir
  <2>13. l.phase[v] \in {"new", "up"}
    BY <2>2, <2>3 DEF LineT, Line, Alive
  <2>14. Dir(c, k, u, v, su, rv, tu)
    BY <1>3, <2>2, <2>4, <2>5, <2>6, <2>7, <2>8, <2>9, <2>11, <2>12, <2>13, ReplyDir
  <2>15. Dir(c, k, v, u, rv, su, tv)
    <3>1. m = "sendHandshake" => reply = "receivedHandshake"
      BY <2>9 DEF Replied
    <3> QED
      BY <1>3, <2>2, <2>4, <2>5, <2>6, <2>7, <2>8, <2>11, <3>1, TakeDir
  <2>16. peers'[v][u] = rv
    BY <1>3, <1>4, <2>1
  <2>17. DirOf(c, u, v)'
    BY <1>3, <1>4, <2>1, <2>14, <2>16 DEF DirOf
  <2>18. DirOf(c, v, u)'
    BY <1>3, <1>4, <2>1, <2>15, <2>16 DEF DirOf
  <2>19. \/ x = u /\ y = v
         \/ x = v /\ y = u
    BY <1>3, <1>6 DEF ReceivedBy, Like
  <2> QED
    BY <1>6, <2>17, <2>18, <2>19
<1> QED
  BY <1>5, <1>6

(* A click: v, which has shaken hands with u, is told m; if it has not, or  *)
(* nothing is said, it makes no difference to v. *)
LEMMA TellDir ==
  ASSUME NEW c, NEW l, NEW k, NEW u, NEW v, NEW ru, NEW rv, NEW t, NEW w, NEW m \in {"on", "off"},
         LineT(l), u \in l.ends, v \in l.ends, u # v, Dir(c, l, u, v, ru, rv, t),
         k.phase = l.phase, k.inbox = [l.inbox EXCEPT ![v] = Append(@, m)],
         Streamed(k, v) <=> Streamed(l, v), Knows(c, l, u, ru),
         w.mic <=> m = "on", w.granted = t.granted
  PROVE  Dir(c, k, u, v, ru, rv, w)
<1>1. l.inbox \in [l.ends -> Seq(Message)]
  BY DEF LineT, Line
<1>2. PICK p, s : p = l.inbox[v] /\ s = Append(p, m)
  OBVIOUS
<1>3. p \in Seq(Message) /\ m \in Message /\ k.inbox[v] = s /\ k.inbox[u] = l.inbox[u]
  BY <1>1, <1>2 DEF Message
<1>4. Before(p, m, s)
  BY <1>2, <1>3, Appended
<1>5. /\ \A n \in Message : Carries(s, n) <=> Carries(p, n) \/ n = m
      /\ (m = "on" => ~LastlyOff(s)) /\ (m = "off" => ~LastlyOn(s))
      /\ Early(s) => Early(p)
  BY <1>4 DEF Before
<1>6. (Knows(c, k, u, ru) <=> Knows(c, l, u, ru)) /\ (Knows(c, k, v, rv) <=> Knows(c, l, v, rv))
  BY DEF Knows
<1>7. WillShow(k, v, rv) => w.mic
  BY <1>3, <1>5 DEF WillShow
<1>8. WillHide(k, v, rv) => ~w.mic
  BY <1>3, <1>5 DEF WillHide
<1>9. Shook(k, u, v) => Shook(l, u, v)
  BY <1>2, <1>3, <1>5 DEF Shook, Message
<1>10. k.phase[u] = "up" => Carries(s, "sendHandshake") \/ Knows(c, k, v, rv)
  BY <1>2, <1>5, <1>6 DEF Dir, Message
<1>11. Early(s) => Knows(c, k, v, rv)
  BY <1>2, <1>5, <1>6 DEF Dir
<1> QED
  BY <1>3, <1>6, <1>7, <1>8, <1>9, <1>10, <1>11 DEF Dir

LEMMA UntoldDir ==
  ASSUME NEW c, NEW l, NEW k, NEW u, NEW v, NEW ru, NEW rv, NEW t, NEW w,
         Dir(c, l, u, v, ru, rv, t), SameTalk(l, k, u, v), ~Knows(c, l, u, ru),
         w.granted = t.granted
  PROVE  Dir(c, k, u, v, ru, rv, w)
<1>1. Shook(k, u, v) <=> Shook(l, u, v)
  BY DEF Shook, SameTalk
<1>2. Knows(c, k, v, rv) <=> Knows(c, l, v, rv)
  BY DEF Knows, SameTalk
<1>3. WillHide(k, v, rv) <=> WillHide(l, v, rv)
  BY DEF WillHide, Drawn, SameTalk
<1>4. ~Shook(k, u, v) /\ ~WillHide(k, v, rv)
  BY <1>1, <1>3 DEF Dir
<1> QED
  BY <1>2, <1>4 DEF Dir, SameTalk

LEMMA ControlsLively ==
  ASSUME Base, Heard, Lively, NEW u \in Users, VoiceControls(u)
  PROVE  Lively'
<1>1. PICK heard \in BOOLEAN, said \in BOOLEAN, s \in Sounds, m \in {"on", "off"} :
        Clicked(u, heard, s, said, m)
  BY ControlsAre
<1>2. /\ peers' = peers /\ tab' \in [Users -> Panel] /\ \A x \in Users \ {u} : tab'[x] = tab[x]
      /\ tab'[u].granted = tab[u].granted
      /\ heard => s # "none"
      /\ IF said THEN m = IF tab'[u].mic THEN "on" ELSE "off" ELSE tab'[u].mic = tab[u].mic
      /\ Turned(u, heard, s, said, m)
  BY <1>1 DEF Clicked
<1> SUFFICES ASSUME NEW d \in Lines, Alive(lines'[d]), NEW x \in lines'[d].ends,
                    NEW y \in lines'[d].ends, x # y
             PROVE  DirOf(d, x, y)'
  BY DEF Lively
<1>3. CASE u \notin lines[d].ends
  <2>1. lines'[d] = lines[d]
    BY <1>2, <1>3 DEF Turned
  <2>2. x \in Users /\ y \in Users /\ x # u
    BY <1>3, <2>1, LineIs DEF Base
  <2> QED
    BY <1>2, <2>1, <2>2, TalkItself, LivelyFrame
<1>4. CASE u \in lines[d].ends
  <2>1. PICK l, k, f, playing, told :
          /\ l = lines[d] /\ k = lines'[d] /\ f = Far(u, d)
          /\ playing = (heard /\ IsPlayed(u, d)) /\ told = (said /\ IsTold(u, d))
    OBVIOUS
  <2>2. TurnedBy(l, k, u, f, playing, s, told, m)
    BY <1>2, <1>4, <2>1 DEF Turned
  <2>3. LineT(l) /\ f \in Users /\ f # u /\ l.ends = {u, f} /\ u \in l.ends /\ f \in l.ends
    BY <1>4, <2>1, FarIs DEF Base, Typed
  <2>4. /\ k.ends = l.ends /\ k.phase = l.phase /\ l.old \subseteq k.old /\ l.lost \subseteq k.lost
        /\ k.offered = l.offered /\ k.sound = IF playing THEN [l.sound EXCEPT ![u] = s] ELSE l.sound
    BY <2>2 DEF TurnedBy, Like
  <2>5. Alive(l)
    BY <2>1, <2>4, AliveBefore
  <2>6. k.inbox = IF told THEN [l.inbox EXCEPT ![f] = Append(@, m)] ELSE l.inbox
    BY <2>2, <2>3, <2>5 DEF TurnedBy, Alive
  <2>7. l \in Line(l.ends)
    BY <2>3 DEF LineT
  <2>8. /\ l.inbox \in [l.ends -> Seq(Message)] /\ l.sound \in [l.ends -> Sounds]
    BY <2>7 DEF Line
  <2>9. \/ x = u /\ y = f
        \/ x = f /\ y = u
    BY <2>1, <2>3, <2>4
  <2>10. CASE x = f /\ y = u
    <3>1. k.inbox[u] = l.inbox[u]
      BY <2>3, <2>6, <2>8
    <3>2. Carries(k.inbox[f], "receivedHandshake") <=> Carries(l.inbox[f], "receivedHandshake")
      <4>1. CASE told
        <5>1. PICK p, q : p = l.inbox[f] /\ q = k.inbox[f]
          OBVIOUS
        <5>2. p \in Seq(Message) /\ m \in Message /\ q = Append(p, m)
          BY <2>3, <2>6, <2>8, <4>1, <5>1 DEF Message
        <5>3. Before(p, m, q)
          BY <5>2, Appended
        <5> QED
          BY <5>1, <5>3 DEF Before, Message
      <4>2. CASE ~told
        BY <2>6, <4>2
      <4> QED
        BY <4>1, <4>2
    <3>3. Streamed(k, u) <=> Streamed(l, u)
      <4>1. CASE playing
        <5>1. HeardOn(lines[d], u, IsPlayed(u, d), tab[u]) /\ IsPlayed(u, d) /\ heard
          BY <1>4, <2>1, <4>1 DEF Heard
        <5>2. l.sound[u] # "none" /\ s # "none"
          BY <1>2, <2>1, <5>1 DEF HeardOn
        <5> QED
          BY <2>3, <2>4, <2>8, <4>1, <5>2 DEF Streamed
      <4>2. CASE ~playing
        BY <2>4, <4>2 DEF Streamed
      <4> QED
        BY <4>1, <4>2
    <3>4. SameTalk(lines[d], lines'[d], x, y)
      BY <2>1, <2>4, <2>10, <3>1, <3>2, <3>3 DEF SameTalk
    <3>5. tab'[x] = tab[x]
      BY <1>2, <2>3, <2>10
    <3> QED
      BY <1>2, <3>4, <3>5, LivelyFrame
  <2>11. CASE x = u /\ y = f
    <3>1. Streamed(k, f) <=> Streamed(l, f)
      BY <2>3, <2>4, <2>8 DEF Streamed
    <3>2. PICK ru, rv, t, w : ru = peers[u][f] /\ rv = peers[f][u] /\ t = tab[u] /\ w = tab'[u]
      OBVIOUS
    <3>3. Dir(d, l, u, f, ru, rv, t)
      BY <2>1, <2>3, <2>5, <3>2 DEF Lively, DirOf
    <3>4. w.mic \in BOOLEAN /\ w.granted = t.granted
      BY <1>2, <3>2 DEF Panel
    <3>5. IsTold(u, d) => Knows(d, l, u, ru)
      <4>1. ASSUME IsTold(u, d) PROVE l.phase[u] = "up"
        <5>1. peers[u][f].via = d
          BY <2>1, <4>1 DEF IsTold
        <5> QED
          BY <2>1, <2>3, <5>1, PeersAssumption DEF Base, Placed, RecordGood, At
      <4> QED
        BY <2>1, <3>2, <4>1 DEF IsTold, Knows
    <3>6. Knows(d, l, u, ru) => IsTold(u, d)
      BY <2>1, <3>2 DEF IsTold, Knows
    <3>7. CASE told
      <4>1. Knows(d, l, u, ru) /\ (w.mic <=> m = "on")
        BY <1>2, <2>1, <3>2, <3>4, <3>5, <3>7
      <4>2. k.inbox = [l.inbox EXCEPT ![f] = Append(@, m)]
        BY <2>6, <3>7
      <4>3. Dir(d, k, u, f, ru, rv, w)
        BY <2>3, <2>4, <3>1, <3>3, <3>4, <4>1, <4>2, TellDir
      <4> QED
        BY <1>2, <2>1, <2>11, <3>2, <4>3 DEF DirOf
    <3>8. CASE ~told
      <4>1. SameTalk(l, k, u, f)
        BY <2>4, <2>6, <3>1, <3>8 DEF SameTalk
      <4>2. CASE ~Knows(d, l, u, ru)
        <5>1. Dir(d, k, u, f, ru, rv, w)
          BY <3>3, <3>4, <4>1, <4>2, UntoldDir
        <5> QED
          BY <1>2, <2>1, <2>11, <3>2, <5>1 DEF DirOf
      <4>3. CASE Knows(d, l, u, ru)
        <5>1. tab'[x].mic = tab[x].mic /\ tab'[x].granted = tab[x].granted
          BY <1>2, <2>1, <2>11, <3>6, <3>8, <4>3
        <5> QED
          BY <1>2, <2>1, <2>11, <4>1, <5>1, LivelyFrame
      <4> QED
        BY <4>2, <4>3
    <3> QED
      BY <3>7, <3>8
  <2> QED
    BY <2>9, <2>10, <2>11
<1> QED
  BY <1>3, <1>4

LEMMA LivelyStep == Base /\ Heard /\ Lively /\ [Next]_vars => Lively'
<1> SUFFICES ASSUME Base, Heard, Lively, [Next]_vars PROVE Lively'
  OBVIOUS
<1>1. CASE \E u \in Users, g \in BOOLEAN : Join(u, g)
  BY <1>1, JoinLively
<1>2. CASE \E u \in Users : Leave(u) \/ MoveOn(u)
  BY <1>2, CloseLively
<1>3. CASE \E u \in Users : VoiceControls(u)
  BY <1>3, ControlsLively
<1>4. CASE \E u, v \in Users : HubPeer(u, v)
  BY <1>4, HubPeerLively
<1>5. CASE \E u, v \in Users : TimerFires(u, v)
  BY <1>5, TimerLively
<1>6. CASE \E u, v \in Users, c \in Lines : Dial(u, v, c)
  BY <1>6, DialLively
<1>7. CASE \E u \in Users, c \in Lines : Connected(u, c)
  BY <1>7, ConnectedLively
<1>8. CASE \E u \in Users, c \in Lines : Disconnected(u, c)
  BY <1>8, DisconnectedLively
<1>9. CASE \E u \in Users, c \in Lines : Receive(u, c)
  BY <1>9, ReceiveLively
<1>10. CASE \E u \in Users, c \in Lines : StreamArrives(u, c)
  BY <1>10, StreamLively
<1>11. CASE UNCHANGED vars
  BY <1>11 DEF vars, Lively, DirOf
<1> QED
  BY <1>1, <1>2, <1>3, <1>4, <1>5, <1>6, <1>7, <1>8, <1>9, <1>10, <1>11 DEF Next

LEMMA LivelyHolds == Spec => []Lively
BY BaseHolds, HeardHolds, LivelyBegins, LivelyStep, PTL DEF Spec

(* Two ends that have said all they had to say know each other, by the      *)
(* records that draw them. *)
LEMMA AgreedKnow ==
  ASSUME Base, Lively, NEW u \in Users, NEW v \in Users, NEW c \in Lines, Agreed(u, v, c)
  PROVE  /\ u \in lines[c].ends /\ v \in lines[c].ends /\ Alive(lines[c])
         /\ lines[c].phase[v] = "up" /\ Shook(lines[c], u, v)
         /\ lines[c].inbox[v] = <<>> /\ DirOf(c, u, v)
         /\ peers[v][u].via = c /\ peers[v][u].connected /\ peers[v][u].listed
<1>1. /\ u # v /\ u \in lines[c].ends /\ v \in lines[c].ends /\ lines[c].old = {} /\ lines[c].lost = {}
      /\ lines[c].phase[u] = "up" /\ lines[c].phase[v] = "up"
      /\ lines[c].inbox[u] = <<>> /\ lines[c].inbox[v] = <<>>
  BY DEF Agreed, Up, Ends
<1>2. Alive(lines[c])
  <2>1. lines[c].ends = {u, v}
    BY <1>1, FarIs DEF Base
  <2> QED
    BY <1>1, <2>1 DEF Alive
<1>3. DirOf(c, u, v)
  BY <1>1, <1>2 DEF Lively
<1>4. Shook(lines[c], u, v)
  BY <1>1, Nothing DEF Shook
<1>5. Knows(c, lines[c], v, peers[v][u])
  BY <1>1, <1>3, Nothing DEF DirOf, Dir
<1>6. peers[v][u].listed
  BY <1>1, <1>2, RecordOf
<1> QED
  BY <1>1, <1>2, <1>3, <1>4, <1>5, <1>6 DEF Knows

LEMMA RosterIs ==
  ASSUME NEW u \in Users, NEW v \in Users, u # v, peers[v][u].listed, peers[v][u].audio \in BOOLEAN
  PROVE  /\ DrawnOn(RosterOf(v), u) <=> peers[v][u].audio
         /\ DrawnOff(RosterOf(v), u) <=> ~peers[v][u].audio
         /\ DrawnOff(RosterOf(u), u) <=> ~(tab[u].mic /\ tab[u].granted)
<1>1. u \in DOMAIN RosterOf(v) /\ RosterOf(v)[u] = peers[v][u].audio
  BY DEF RosterOf, PeerViews
<1>2. u \in DOMAIN RosterOf(u) /\ RosterOf(u)[u] = (tab[u].mic /\ tab[u].granted)
  BY DEF RosterOf, PeerViews
<1> QED
  BY <1>1, <1>2 DEF DrawnOn, DrawnOff

(* Once the messages of a line are through, either end lists the other as   *)
(* connected and draws the other's microphone as the other draws it, however *)
(* the buttons were clicked while the hands were shaken (voiceSession.js    *)
(* setMicrophoneEnabled and attachPeer).                                    *)
THEOREM MicrophonesAgree == Spec => []MicrophoneShown
<1>1. ASSUME Base, Lively, NEW u \in Users, NEW v \in Users, NEW c \in Lines, Agreed(u, v, c)
      PROVE  /\ peers[v][u].via = c /\ peers[v][u].connected
             /\ DrawnOn(RosterOf(v), u) => tab[u].mic
             /\ DrawnOff(RosterOf(v), u) => DrawnOff(RosterOf(u), u)
  <2>1. /\ lines[c].phase[v] = "up" /\ Shook(lines[c], u, v) /\ lines[c].inbox[v] = <<>>
        /\ DirOf(c, u, v)
        /\ peers[v][u].via = c /\ peers[v][u].connected /\ peers[v][u].listed
    BY <1>1, AgreedKnow
  <2>2. u # v /\ peers[v][u].audio \in BOOLEAN
    BY <1>1 DEF Agreed, Base, Typed, Record
  <2>3. /\ WillShow(lines[c], v, peers[v][u]) <=> peers[v][u].audio
        /\ WillHide(lines[c], v, peers[v][u]) <=> ~peers[v][u].audio
    BY <2>1, Nothing DEF WillShow, WillHide, Drawn
  <2>4. /\ peers[v][u].audio => tab[u].mic
        /\ ~peers[v][u].audio => ~(tab[u].mic /\ tab[u].granted)
    BY <2>1, <2>3 DEF DirOf, Dir
  <2> QED
    BY <2>1, <2>2, <2>4, RosterIs
<1>2. Base /\ Lively => MicrophoneShown
  BY <1>1 DEF MicrophoneShown
<1> QED
  BY <1>2, BaseHolds, LivelyHolds, PTL

(* Once the streams have arrived as well, everybody hears who has a         *)
(* microphone, off or on (voiceSession.js attachPeer).                      *)
THEOREM StreamsArrive == Spec => []EverybodyHeard
<1>1. ASSUME Base, Lively, NEW u \in Users, NEW v \in Users, NEW c \in Lines, Agreed(u, v, c),
             lines[c].offered = {}
      PROVE  lines[c].sound[v] # "none" <=> tab[u].granted
  <2>1. Shook(lines[c], u, v) /\ DirOf(c, u, v)
    BY <1>1, AgreedKnow
  <2>2. Streamed(lines[c], v) <=> tab[u].granted
    BY <2>1 DEF DirOf, Dir
  <2> QED
    BY <1>1, <2>2 DEF Streamed
<1>2. Base /\ Lively => EverybodyHeard
  BY <1>1 DEF EverybodyHeard
<1> QED
  BY <1>2, BaseHolds, LivelyHolds, PTL
=============================================================================
