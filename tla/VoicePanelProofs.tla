--------------------------- MODULE VoicePanelProofs ---------------------------
(* Proofs about the voice panel of one tab, for every set of rooms and       *)
(* every number of clicks and upsets: its types, and that session and panel *)
(* agree and keep nothing late. The invariant is about the tab in the       *)
(* middle of a handler as much as between two, because a handler closes the *)
(* session, runs what waited for that and only then shows the result.       *)
EXTENDS VoicePanel, FiniteSetTheorems, WellFoundedInduction, TLAPS

-----------------------------------------------------------------------------
(* The tab as a record, whole: what one handler hands to the next.          *)
Tab == [mode : Modes, held : Places, stream : Nat, link : Nat, dying : Nat,
        callbacks : Seq(Callback), due : Seq(Callback),
        running : SUBSET (Nat \ {None}), open : SUBSET (Nat \ {None}),
        replaced : [streams : SUBSET Nat, links : SUBSET Nat],
        room : Places, initialized : BOOLEAN, audioOn : BOOLEAN,
        swarmInitialized : BOOLEAN, connectPending : BOOLEAN, prompt : Places,
        connects : SUBSET [room : Rooms, id : Nat], turn : Nat, beat : Places,
        outbox : SUBSET Post, mounted : BOOLEAN]

(* A join names a room and a turn that has come. *)
Valid(c, k) == c.do = "join" => c.room \in Rooms /\ c.turn <= k
(* A join that no later click has overtaken is among the callbacks q. *)
IsJoin(c, k) == c.do = "join" /\ c.turn = k
Awaits(q, k) == \E i \in DOMAIN q : IsJoin(q[i], k)

(* What holds of a tab in the middle of a handler as well.                  *)
Sane(t) ==
  /\ t \in Tab
  /\ IsFiniteSet(t.running) /\ IsFiniteSet(t.open) /\ IsFiniteSet(t.connects)
  /\ t.turn <= 2 * MaxClicks
  /\ \A i \in DOMAIN t.callbacks : Valid(t.callbacks[i], t.turn)
  /\ \A i \in DOMAIN t.due : Valid(t.due[i], t.turn)
  /\ t.mode # "closing" => t.callbacks = <<>> /\ t.dying = None
  /\ t.mode # "active" => t.stream = None /\ t.link = None /\ t.held = NoRoom
  /\ t.running \subseteq {t.stream} \cup t.replaced.streams
  /\ t.open \subseteq {t.link, t.dying} \cup t.replaced.links

(* While the session closes, a panel that still shows a room waits for a    *)
(* join that is going to happen.                                            *)
Agrees(t) ==
  t.mounted => IF t.mode = "closing"
               THEN t.room = NoRoom \/ Awaits(t.callbacks, t.turn)
               ELSE t.held = t.room
(* Every turn the user did not take ended a stay that a click had begun.    *)
Earned(t, clicks) ==
  t.turn + (IF t.room # NoRoom \/ Awaits(t.callbacks, t.turn) THEN 1 ELSE 0)
    <= 2 * clicks
Settled(t, clicks) ==
  Sane(t) /\ t.due = <<>> /\ Agrees(t) /\ Earned(t, clicks)

IndInv ==
  /\ Settled(tab, spent.clicks) /\ tab.outbox = {}
  /\ posts \subseteq Post /\ events \subseteq Change
  /\ server \in Places /\ goal \in Places
  /\ spent \in [clicks : 0..MaxClicks, upsets : Nat]

(* The fields that only a join, a closing or an arrival changes are the     *)
(* same in u as in t.                                                       *)
Same(u, t) ==
  /\ u.mode = t.mode /\ u.held = t.held /\ u.stream = t.stream
  /\ u.link = t.link /\ u.dying = t.dying /\ u.callbacks = t.callbacks
  /\ u.due = t.due /\ u.running = t.running /\ u.open = t.open
  /\ u.replaced = t.replaced /\ u.room = t.room /\ u.turn = t.turn
  /\ u.mounted = t.mounted
(* An active session is in the room its panel shows. *)
Shown(t) == t.mounted /\ t.mode = "active" => t.held = t.room

-----------------------------------------------------------------------------
(* What a handler writes to some fields of a tab leaves a tab: a lemma for  *)
(* each group of fields that is written together. A request for a hub:      *)
LEMMA AskedTab ==
  ASSUME NEW t \in Tab, NEW s \in SUBSET [room : Rooms, id : Nat]
  PROVE  [t EXCEPT !.connectPending = TRUE, !.connects = s] \in Tab
BY Zenon DEF Tab

(* a callback that waits: *)
LEMMA QueuedTab ==
  ASSUME NEW t \in Tab, NEW q \in Seq(Callback)
  PROVE  [t EXCEPT !.callbacks = q] \in Tab
BY Zenon DEF Tab

(* the end of a closing: *)
LEMMA FreedTab ==
  ASSUME NEW t \in Tab, NEW m \in Modes, NEW o \in SUBSET (Nat \ {None}),
         NEW l \in Nat, NEW q \in Seq(Callback), NEW e \in Seq(Callback)
  PROVE  [t EXCEPT !.mode = m, !.open = o, !.dying = l, !.due = q,
                   !.callbacks = e] \in Tab
BY Zenon DEF Tab

(* the turn of a click: *)
LEMMA TurnedTab ==
  ASSUME NEW t \in Tab, NEW k \in Nat, NEW r \in Places, NEW pending \in BOOLEAN
  PROVE  [t EXCEPT !.turn = k, !.beat = r, !.connectPending = pending] \in Tab
BY Zenon DEF Tab

(* a panel without a room: *)
LEMMA EmptiedTab ==
  ASSUME NEW t \in Tab, NEW r \in Places
  PROVE  [t EXCEPT !.room = r, !.initialized = FALSE,
                   !.swarmInitialized = FALSE, !.audioOn = FALSE] \in Tab
BY Zenon DEF Tab

(* a panel that has gone: *)
LEMMA GoneTab ==
  ASSUME NEW t \in Tab, NEW r \in Places
  PROVE  [t EXCEPT !.mounted = FALSE, !.beat = r] \in Tab
BY Zenon DEF Tab

(* and a microphone or a connection that has come. *)
LEMMA StreamTab ==
  ASSUME NEW t \in Tab, NEW s \in Nat, NEW live \in SUBSET (Nat \ {None}),
         NEW rep \in [streams : SUBSET Nat, links : SUBSET Nat]
  PROVE  [t EXCEPT !.stream = s, !.running = live, !.replaced = rep] \in Tab
BY Zenon DEF Tab

LEMMA LinkTab ==
  ASSUME NEW t \in Tab, NEW l \in Nat, NEW live \in SUBSET (Nat \ {None}),
         NEW rep \in [streams : SUBSET Nat, links : SUBSET Nat]
  PROVE  [t EXCEPT !.link = l, !.open = live, !.replaced = rep] \in Tab
BY Zenon DEF Tab

-----------------------------------------------------------------------------
(* A set of numbers that is not empty has a least one: what stands in for   *)
(* induction on the number of callbacks that ran.                           *)
LEMMA LeastNumber ==
  ASSUME NEW T, T \subseteq Nat, T # {}
  PROVE  \E k \in T : \A j \in T : k <= j
<1>1. PICK k \in T : \A j \in T : <<j, k>> \notin OpToRel(<, Nat)
  BY WFMin, NatLessThanWellFounded, Zenon
<1>2. \A j \in T : ~(j < k)
  BY <1>1, Zenon DEF OpToRel
<1>3. QED BY <1>2

(* f[n] is the tab after the first n of the callbacks d ran on b. *)
Runs(f, b, d, N) ==
  f = [n \in 0..N |-> IF n = 0 THEN b ELSE RunCallback(f[n - 1], d[n])]

(* Callbacks d can be run one after the other on b, however many they are.  *)
LEMMA RunsExist ==
  ASSUME NEW b, NEW d, NEW N \in Nat
  PROVE  \E f : Runs(f, b, d, N)
<1> DEFINE T == {k \in Nat : ~\E f : Runs(f, b, d, k)}
<1>1. SUFFICES ASSUME T # {} PROVE FALSE
  OBVIOUS
<1>2. PICK k \in T : \A j \in T : k <= j
  BY <1>1, LeastNumber
<1>3. CASE k = 0
  <2> DEFINE g == [n \in 0..0 |-> b]
  <2>1. Runs(g, b, d, 0)
    BY DEF Runs
  <2> QED BY <2>1, <1>2, <1>3
<1>4. CASE k # 0
  <2>1. k \in Nat /\ k - 1 \in Nat /\ k - 1 \notin T
    <3>1. k \in Nat
      OBVIOUS
    <3>2. k - 1 \in Nat /\ ~(k <= k - 1)
      BY <3>1, <1>4
    <3> HIDE DEF T
    <3> QED BY <3>1, <3>2, <1>2
  <2>2. PICK f : Runs(f, b, d, k - 1)
    BY <2>1
  <2> DEFINE g == [n \in 0..k |->
                     IF n = k THEN RunCallback(f[k - 1], d[k]) ELSE f[n]]
  <2>3. \A n \in 0..k - 1 : g[n] = f[n]
    BY <2>1
  <2>4. ASSUME NEW n \in 0..k
        PROVE  g[n] = IF n = 0 THEN b ELSE RunCallback(g[n - 1], d[n])
    <3>1. CASE n = k
      BY <3>1, <2>1, <2>3, <1>4
    <3>2. CASE n # k
      BY <3>2, <2>1, <2>2, <2>3 DEF Runs
    <3> QED BY <3>1, <3>2
  <2>5. Runs(g, b, d, k)
    BY <2>4 DEF Runs
  <2> QED BY <2>5, <1>2
<1> QED BY <1>3, <1>4

(* RunCallbacks is the last of the tabs that its callbacks leave in turn.   *)
LEMMA RunsInTurn ==
  ASSUME NEW t, t.due \in Seq(Callback)
  PROVE  \E f : /\ f[0] = [t EXCEPT !.due = <<>>]
                /\ \A n \in 1..Len(t.due) : f[n] = RunCallback(f[n - 1], t.due[n])
                /\ RunCallbacks(t) = f[Len(t.due)]
<1>1. PICK N : N = Len(t.due)
  OBVIOUS
<1>2. N \in Nat
  BY <1>1
<1>3. PICK b : b = [t EXCEPT !.due = <<>>]
  OBVIOUS
<1>4. PICK d : d = t.due
  OBVIOUS
<1> DEFINE ran == CHOOSE f : Runs(f, b, d, N)
<1>5. \E f : Runs(f, b, d, N)
  BY <1>2, RunsExist
<1>6. Runs(ran, b, d, N)
  BY <1>5
<1>7. RunCallbacks(t) = ran[N]
  BY <1>1, <1>3, <1>4 DEF RunCallbacks, Runs
<1> HIDE DEF ran
<1>8. ran[0] = b
  BY <1>2, <1>6 DEF Runs
<1>9. \A n \in 1..N : ran[n] = RunCallback(ran[n - 1], d[n])
  BY <1>2, <1>6 DEF Runs
<1> QED BY <1>1, <1>3, <1>4, <1>7, <1>8, <1>9

(* A new resource bears a number no live one has. *)
LEMMA FreshIsNew ==
  ASSUME NEW used, IsFiniteSet(used)
  PROVE  Fresh(used) \in Nat \ {None} /\ Fresh(used) \notin used
<1>1. Cardinality(used) \in Nat
  BY FS_CardinalityType
<1>2. PICK m : m = Cardinality(used) + 1
  OBVIOUS
<1>3. IsFiniteSet(1..m) /\ Cardinality(1..m) = m
  BY <1>1, <1>2, FS_Interval
<1>4. ~(1..m \subseteq used)
  BY <1>1, <1>2, <1>3, FS_Subset
<1>5. \E n \in 1..m : n \notin used
  BY <1>4
<1>6. Fresh(used) \in 1..m /\ Fresh(used) \notin used
  BY <1>2, <1>5 DEF Fresh
<1> QED BY <1>1, <1>2, <1>6 DEF None

-----------------------------------------------------------------------------
(* Rooms are places, and None is a number. *)
LEMMA PlacesKnown == Rooms \subseteq Places /\ NoRoom \in Places /\ NoRoom \notin Rooms
BY RoomsAssumption DEF Places

(* A tab whose other fields changed is as sane as before, and agrees and    *)
(* counts its turns as before.                                              *)
LEMMA SameKeeps ==
  ASSUME NEW t, NEW u, Sane(t), u \in Tab, IsFiniteSet(u.connects), Same(u, t)
  PROVE  /\ Sane(u)
         /\ Agrees(t) => Agrees(u)
         /\ \A n \in Nat : Earned(t, n) => Earned(u, n)
BY DEF Sane, Same, Agrees, Earned

(* A request is put in the outbox, and nothing else happens. *)
LEMMA AnnounceSame ==
  ASSUME NEW t, t \in Tab, t.turn <= 2 * MaxClicks, NEW r \in Places
  PROVE  Announce(t, r) \in Tab /\ Same(Announce(t, r), t)
         /\ Announce(t, r).connects = t.connects
<1>1. [room |-> r, turn |-> t.turn] \in Post
  BY BoundsAssumption DEF Post, Tab
<1>2. t.outbox \cup {[room |-> r, turn |-> t.turn]} \in SUBSET Post
  BY <1>1 DEF Tab
<1>3. Announce(t, r) \in Tab
  BY <1>2 DEF Announce, Tab
<1> QED BY <1>3 DEF Announce, Tab, Same

(* What every change of state ends in asks for a permission or for a hub;   *)
(* the session is not started by it, unless it is idle while a room shows.  *)
LEMMA RenderSame ==
  ASSUME NEW t, Sane(t), ~(t.mounted /\ t.mode = "idle" /\ t.room # NoRoom)
  PROVE  Render(t) \in Tab /\ Same(Render(t), t) /\ IsFiniteSet(Render(t).connects)
<1> USE DEF Sane
<1>1. CASE ~t.mounted
  BY <1>1 DEF Render, Same
<1>2. CASE t.mounted /\ NeedsMicrophone(t)
  BY <1>2 DEF Render, RequestPerms, Same, Tab
<1>3. CASE t.mounted /\ ~NeedsMicrophone(t) /\ NeedsConnection(t)
  <2>1. t.room \in Rooms /\ ~CanStart(t, t.room)
    BY <1>3 DEF NeedsConnection, CanStart, Tab, Places
  <2>2. CASE ~IsActive(t, t.room)
    BY <2>1, <2>2, <1>3 DEF Render, ConnectToSwarm, Same
  <2>3. CASE IsActive(t, t.room)
    <3>1. PICK ids : ids = {d.id : d \in t.connects}
      OBVIOUS
    <3>2. IsFiniteSet(ids)
      <4>1. PICK f : f = [d \in t.connects |-> d.id]
        OBVIOUS
      <4>2. f \in Surjection(t.connects, ids)
        BY <3>1, <4>1 DEF Surjection
      <4> QED BY <4>2, FS_Surjection
    <3>3. PICK c : c = [room |-> t.room, id |-> Fresh(ids)]
      OBVIOUS
    <3>4. c \in [room : Rooms, id : Nat]
      BY <2>1, <3>2, <3>3, FreshIsNew
    <3>5. PICK s : s = t.connects \cup {c}
      OBVIOUS
    <3>6. s \subseteq [room : Rooms, id : Nat] /\ IsFiniteSet(s)
      BY <3>4, <3>5, FS_AddElement DEF Tab
    <3>7. Render(t) = [t EXCEPT !.connectPending = TRUE, !.connects = s]
      BY <1>3, <2>1, <2>3, <3>1, <3>3, <3>5 DEF Render, ConnectToSwarm, Tab
    <3>8. s \in SUBSET [room : Rooms, id : Nat] /\ t \in Tab
      BY <3>6
    <3>9. Render(t) \in Tab
      <4>1. [t EXCEPT !.connectPending = TRUE, !.connects = s] \in Tab
        BY <3>8, AskedTab, Zenon
      <4> QED BY <3>7, <4>1, Zenon
    <3>10. Same(Render(t), t) /\ Render(t).connects = s
      BY <3>7 DEF Tab, Same
    <3> QED BY <3>6, <3>9, <3>10
  <2> QED BY <2>2, <2>3
<1>4. CASE t.mounted /\ ~NeedsMicrophone(t) /\ ~NeedsConnection(t)
  BY <1>4 DEF Render, Same
<1> QED BY <1>1, <1>2, <1>3, <1>4

(* Between two handlers, too. *)
LEMMA SameSettled ==
  ASSUME NEW t, NEW n \in Nat, Settled(t, n),
         NEW u, u \in Tab, IsFiniteSet(u.connects), Same(u, t)
  PROVE  Settled(u, n)
<1>1. u.due = <<>>
  BY DEF Same, Settled
<1> QED BY <1>1, SameKeeps DEF Settled

LEMMA RenderSettled ==
  ASSUME NEW t, NEW n \in Nat, Settled(t, n), NEW u, u = Render(t)
  PROVE  Settled(u, n) /\ Same(u, t)
<1>1. ~(t.mounted /\ t.mode = "idle" /\ t.room # NoRoom)
  BY DEF Settled, Sane, Agrees, Tab
<1>2. u \in Tab /\ Same(u, t) /\ IsFiniteSet(u.connects)
  BY <1>1, RenderSame DEF Settled
<1> QED BY <1>2, SameSettled

LEMMA AnnounceSettled ==
  ASSUME NEW t, NEW n \in Nat, Settled(t, n), NEW r \in Places,
         NEW u, u = Announce(t, r)
  PROVE  Settled(u, n) /\ Same(u, t)
<1>1. u \in Tab /\ Same(u, t) /\ u.connects = t.connects
  BY AnnounceSame DEF Settled, Sane
<1> QED BY <1>1, SameSettled DEF Settled, Sane

-----------------------------------------------------------------------------
(* A join that goes on has the session and the panel in its room. *)
LEMMA EnterEnters ==
  ASSUME NEW t, Sane(t), t.mode = "idle", NEW r \in Rooms, NEW u, u = Enter(t, r)
  PROVE  /\ Sane(u) /\ u.mode = "active" /\ u.held = r /\ u.room = r
         /\ u.due = t.due /\ u.turn = t.turn /\ u.mounted = t.mounted
<1>1. PICK s : s = [StartSession(t, r) EXCEPT !.room = r, !.initialized = FALSE,
                      !.swarmInitialized = FALSE, !.audioOn = TRUE]
  OBVIOUS
<1>2. s \in Tab
  BY <1>1, PlacesKnown DEF StartSession, Tab, Sane, Modes
<1>3. /\ s.mode = "active" /\ s.held = r /\ s.room = r /\ s.due = t.due
      /\ s.turn = t.turn /\ s.mounted = t.mounted /\ s.stream = t.stream
      /\ s.link = t.link /\ s.dying = t.dying /\ s.callbacks = t.callbacks
      /\ s.running = t.running /\ s.open = t.open /\ s.replaced = t.replaced
      /\ s.connects = t.connects
  BY <1>1 DEF StartSession, Tab, Sane
<1>4. Sane(s)
  BY <1>2, <1>3 DEF Sane
<1>5. PICK v : v = Render(s)
  OBVIOUS
<1>6. v \in Tab /\ Same(v, s) /\ IsFiniteSet(v.connects)
  BY <1>3, <1>4, <1>5, RenderSame
<1>7. Sane(v)
  BY <1>4, <1>6, SameKeeps
<1>8. PICK w : w = [v EXCEPT !.beat = r]
  OBVIOUS
<1>9. w \in Tab /\ Same(w, v) /\ w.connects = v.connects
  BY <1>8, <1>6, PlacesKnown DEF Tab, Same
<1>10. Sane(w)
  BY <1>6, <1>7, <1>9, SameKeeps
<1>11. u = Announce(w, r)
  BY <1>1, <1>5, <1>8 DEF Enter, StartPresence
<1>12. u \in Tab /\ Same(u, w) /\ u.connects = w.connects
  BY <1>10, <1>11, AnnounceSame, PlacesKnown DEF Sane
<1>13. Sane(u)
  BY <1>10, <1>12, SameKeeps DEF Sane
<1> QED BY <1>13, <1>12, <1>9, <1>6, <1>3 DEF Same

-----------------------------------------------------------------------------
(* What callback c does to tab t once the session is free: only the join of *)
(* the latest turn enters a room, and it does unless the panel has gone or  *)
(* another one entered before it.                                           *)
After(t, c, u) ==
  /\ Sane(u) /\ u.mode # "closing" /\ Shown(u)
  /\ u.due = t.due /\ u.turn = t.turn /\ u.mounted = t.mounted
  /\ u.mode = "idle" =>
       t.mode = "idle" /\ u.room = t.room /\ ~(t.mounted /\ IsJoin(c, t.turn))
  /\ u.room # t.room \/ u.mode # t.mode => IsJoin(c, t.turn)

LEMMA RunCallbackOnce ==
  ASSUME NEW t, Sane(t), t.mode # "closing", Shown(t),
         NEW c \in Callback, Valid(c, t.turn), NEW u, u = RunCallback(t, c)
  PROVE  After(t, c, u)
<1>0. t.mode \in Modes
  BY DEF Sane, Tab
<1>1. PICK p : p = [t EXCEPT !.connectPending = FALSE]
  OBVIOUS
<1>2. p \in Tab /\ Same(p, t) /\ p.connects = t.connects
  BY <1>1 DEF Sane, Tab, Same
<1>3. Sane(p)
  BY <1>2, SameKeeps DEF Sane
<1>4. CASE c.do = "join"
  <2>1. u = FinishJoin(t, c.room, c.turn) /\ c.room \in Rooms
    BY <1>4 DEF RunCallback, Valid
  <2>2. CASE c.turn # t.turn
    BY <2>1, <2>2 DEF FinishJoin, After, IsJoin, Sane
  <2>3. CASE c.turn = t.turn /\ (~t.mounted \/ ~CanStart(p, c.room))
    <3>1. u = p
      BY <2>1, <2>3, <1>1 DEF FinishJoin, CanStart
    <3>2. ~t.mounted \/ t.mode # "idle"
      BY <2>1, <2>3, <1>2, RoomsAssumption DEF CanStart, Same
    <3> QED BY <3>1, <3>2, <1>2, <1>3 DEF After, Same, Shown
  <2>4. CASE c.turn = t.turn /\ t.mounted /\ CanStart(p, c.room)
    <3>1. PICK r \in Rooms : r = c.room
      BY <2>1
    <3>2. u = Enter(p, r) /\ p.mode = "idle"
      BY <3>1, <2>1, <2>4, <1>1 DEF FinishJoin, CanStart
    <3>3. /\ Sane(u) /\ u.mode = "active" /\ u.held = r /\ u.room = r
          /\ u.due = p.due /\ u.turn = p.turn /\ u.mounted = p.mounted
      BY <3>2, <1>3, EnterEnters
    <3> QED BY <3>3, <2>4, <1>2, <1>4 DEF After, Same, Shown, IsJoin
  <2> QED BY <2>2, <2>3, <2>4
<1>5. CASE c.do = "unlock"
  <2>1. u = p
    BY <1>5, <1>1 DEF RunCallback
  <2> QED BY <2>1, <1>2, <1>3, <1>5 DEF After, Same, Shown, IsJoin
<1>6. CASE c.do # "join" /\ c.do # "unlock"
  <2>1. u = t
    BY <1>6 DEF RunCallback
  <2> QED BY <2>1, <1>6 DEF After, IsJoin
<1> QED BY <1>4, <1>5, <1>6

(* The callbacks of a session that is free, run to the last: the induction  *)
(* is on how many of them ran, by the least number at which it would fail.  *)
Ran(t, n, u) ==
  /\ Sane(u) /\ u.mode # "closing" /\ Shown(u)
  /\ u.due = <<>> /\ u.turn = t.turn /\ u.mounted = t.mounted
  /\ u.mode = "idle" =>
       /\ t.mode = "idle" /\ u.room = t.room
       /\ \A i \in 1..n : ~(t.mounted /\ IsJoin(t.due[i], t.turn))
  /\ u.room # t.room \/ u.mode # t.mode =>
       \E i \in 1..n : IsJoin(t.due[i], t.turn)

LEMMA RunCallbacksRun ==
  ASSUME NEW t, Sane(t), t.mode # "closing", Shown(t)
  PROVE  Ran(t, Len(t.due), RunCallbacks(t))
<1>1. t.due \in Seq(Callback) /\ Len(t.due) \in Nat
  BY DEF Sane, Tab
<1>2. PICK f : /\ f[0] = [t EXCEPT !.due = <<>>]
               /\ \A n \in 1..Len(t.due) : f[n] = RunCallback(f[n - 1], t.due[n])
               /\ RunCallbacks(t) = f[Len(t.due)]
  BY <1>1, RunsInTurn
<1> DEFINE T == {n \in 0..Len(t.due) : ~Ran(t, n, f[n])}
<1>3. SUFFICES ASSUME T # {} PROVE FALSE
  BY <1>1, <1>2
<1>4. PICK n \in T : \A j \in T : n <= j
  <2>1. T \subseteq Nat
    BY <1>1
  <2> HIDE DEF T
  <2> QED BY <1>3, <2>1, LeastNumber
<1>5. CASE n = 0
  <2>1. PICK b : b = [t EXCEPT !.due = <<>>]
    OBVIOUS
  <2>2. b \in Tab /\ b.due = <<>>
    BY <2>1 DEF Sane, Tab
  <2>3. /\ b.mode = t.mode /\ b.held = t.held /\ b.stream = t.stream
        /\ b.link = t.link /\ b.dying = t.dying /\ b.callbacks = t.callbacks
        /\ b.running = t.running /\ b.open = t.open /\ b.replaced = t.replaced
        /\ b.room = t.room /\ b.turn = t.turn /\ b.mounted = t.mounted
        /\ b.connects = t.connects
    BY <2>1 DEF Sane, Tab
  <2>4. Sane(b)
    BY <2>2, <2>3 DEF Sane
  <2>5. Ran(t, 0, b)
    BY <2>2, <2>3, <2>4 DEF Ran, Shown
  <2> QED BY <2>1, <2>5, <1>2, <1>5
<1>6. CASE n # 0
  <2>1. n \in 1..Len(t.due) /\ n - 1 \in 0..Len(t.due) /\ n \in Nat /\ n - 1 \notin T
    <3>1. n \in 0..Len(t.due)
      OBVIOUS
    <3>2. n \in 1..Len(t.due) /\ n - 1 \in 0..Len(t.due) /\ ~(n <= n - 1) /\ n \in Nat
      BY <3>1, <1>1, <1>6
    <3> HIDE DEF T
    <3> QED BY <3>2, <1>4
  <2>2. PICK v : v = f[n - 1]
    OBVIOUS
  <2>3. Ran(t, n - 1, v)
    BY <2>1, <2>2
  <2>4. PICK c : c = t.due[n]
    OBVIOUS
  <2>5. c \in Callback /\ Valid(c, t.turn)
    BY <2>1, <2>4, <1>1 DEF Sane
  <2>6. PICK u : u = RunCallback(v, c)
    OBVIOUS
  <2>7. After(v, c, u)
    BY <2>3, <2>5, <2>6, RunCallbackOnce DEF Ran
  <2>8. \A i \in 1..n : i = n \/ i \in 1..n - 1
    BY <2>1
  <2>9. Ran(t, n, u)
    <3>1. /\ Sane(u) /\ u.mode # "closing" /\ Shown(u)
          /\ u.due = <<>> /\ u.turn = t.turn /\ u.mounted = t.mounted
      BY <2>3, <2>7 DEF Ran, After
    <3>2. ASSUME u.mode = "idle"
          PROVE  /\ t.mode = "idle" /\ u.room = t.room
                 /\ \A i \in 1..n : ~(t.mounted /\ IsJoin(t.due[i], t.turn))
      BY <3>2, <2>3, <2>4, <2>7, <2>8 DEF Ran, After
    <3>3. ASSUME u.room # t.room \/ u.mode # t.mode
          PROVE  \E i \in 1..n : IsJoin(t.due[i], t.turn)
      <4>1. CASE u.room # v.room \/ u.mode # v.mode
        <5>1. IsJoin(c, t.turn)
          BY <4>1, <2>3, <2>7 DEF Ran, After
        <5> QED BY <5>1, <2>1, <2>4
      <4>2. CASE u.room = v.room /\ u.mode = v.mode
        <5>1. \E i \in 1..n - 1 : IsJoin(t.due[i], t.turn)
          BY <4>2, <3>3, <2>3 DEF Ran
        <5>2. \A i \in 1..n - 1 : i \in 1..n
          BY <2>1
        <5> QED BY <5>1, <5>2
      <4> QED BY <4>1, <4>2
    <3> QED BY <3>1, <3>2, <3>3 DEF Ran
  <2> QED BY <2>1, <2>2, <2>4, <2>6, <2>9, <1>2
<1> QED BY <1>5, <1>6

(* Without callbacks nothing runs. *)
LEMMA NothingRuns ==
  ASSUME NEW t, Sane(t), t.due = <<>>, NEW u, u = RunCallbacks(t)
  PROVE  Sane(u) /\ Same(u, t)
<1>1. u = [t EXCEPT !.due = <<>>]
  BY RunsInTurn DEF Sane, Tab
<1>2. u \in Tab /\ Same(u, t) /\ u.connects = t.connects
  BY <1>1 DEF Sane, Tab, Same
<1> QED BY <1>2, SameKeeps DEF Sane

-----------------------------------------------------------------------------
(* The closing is over: the session is free and its callbacks are due. *)
LEMMA FinishFrees ==
  ASSUME NEW t, Sane(t), t.mode = "closing", NEW u, u = Finish(t)
  PROVE  /\ Sane(u) /\ u.mode = "idle" /\ u.due = t.callbacks
         /\ u.room = t.room /\ u.turn = t.turn /\ u.mounted = t.mounted
<1> USE DEF Sane
<1>0. PICK o \in SUBSET t.open : o = t.open \ {t.dying}
  OBVIOUS
<1>1. u \in Tab
  <2>1. o \in SUBSET (Nat \ {None}) /\ None \in Nat /\ "idle" \in Modes
    BY DEF Tab, None, Modes
  <2>2. PICK q, e : q = t.callbacks /\ e = <<>>
    OBVIOUS
  <2>3. t \in Tab /\ q \in Seq(Callback) /\ e \in Seq(Callback)
    BY <2>2 DEF Tab
  <2>4. u = [t EXCEPT !.mode = "idle", !.open = o, !.dying = None,
                      !.due = q, !.callbacks = e]
    BY <1>0, <2>2 DEF Finish, Tab
  <2> HIDE DEF Sane
  <2>5. [t EXCEPT !.mode = "idle", !.open = o, !.dying = None,
                  !.due = q, !.callbacks = e] \in Tab
    BY <2>1, <2>3, FreedTab, Zenon
  <2> QED BY <2>4, <2>5, Zenon
<1>2. /\ u.mode = "idle" /\ u.due = t.callbacks /\ u.callbacks = <<>>
      /\ u.dying = None /\ u.open = t.open \ {t.dying}
      /\ u.room = t.room /\ u.turn = t.turn /\ u.mounted = t.mounted
      /\ u.stream = t.stream /\ u.link = t.link /\ u.held = t.held
      /\ u.running = t.running /\ u.replaced = t.replaced
      /\ u.connects = t.connects
  BY DEF Finish, Tab
<1>3. IsFiniteSet(u.open)
  BY <1>0, <1>2, FS_Subset
<1>4. u.open \subseteq {u.link, u.dying} \cup u.replaced.links
  BY <1>2
<1> QED BY <1>1, <1>2, <1>3, <1>4

(* Closing either leaves the session waiting, with callback c behind those  *)
(* that wait already, or leaves it free with c due.                         *)
LEMMA CloseCloses ==
  ASSUME NEW t, Sane(t), t.due = <<>>, NEW c \in Callback, Valid(c, t.turn),
         NEW atOnce \in BOOLEAN, NEW u, u = Close(t, c, atOnce)
  PROVE  /\ Sane(u) /\ u.room = t.room /\ u.turn = t.turn /\ u.mounted = t.mounted
         /\ \/ /\ u.mode = "closing" /\ u.due = <<>>
               /\ \A k \in Nat :
                    Awaits(u.callbacks, k) <=> Awaits(t.callbacks, k) \/ IsJoin(c, k)
            \/ u.mode = "idle" /\ u.due = <<c>>
<1>1. CASE t.mode = "closing"
  <2>1. PICK q : q = Append(t.callbacks, c)
    OBVIOUS
  <2>2. t.callbacks \in Seq(Callback)
    BY DEF Sane, Tab
  <2>3. /\ q \in Seq(Callback) /\ Len(q) = Len(t.callbacks) + 1
        /\ \A i \in 1..Len(t.callbacks) : q[i] = t.callbacks[i]
        /\ q[Len(q)] = c /\ Len(t.callbacks) \in Nat
        /\ DOMAIN q = 1..Len(q) /\ DOMAIN t.callbacks = 1..Len(t.callbacks)
    BY <2>1, <2>2
  <2>4. \A i \in DOMAIN q : i \in DOMAIN t.callbacks \/ i = Len(q)
    BY <2>3
  <2>5. u = [t EXCEPT !.callbacks = q]
    BY <1>1, <2>1 DEF Close
  <2>6. u \in Tab
    <3>1. t \in Tab
      BY DEF Sane
    <3>2. [t EXCEPT !.callbacks = q] \in Tab
      BY <2>3, <3>1, QueuedTab, Zenon
    <3> QED BY <2>5, <3>2, Zenon
  <2>7. /\ u.callbacks = q /\ u.mode = t.mode /\ u.held = t.held
        /\ u.stream = t.stream /\ u.link = t.link /\ u.dying = t.dying
        /\ u.due = t.due /\ u.running = t.running /\ u.open = t.open
        /\ u.replaced = t.replaced /\ u.room = t.room /\ u.turn = t.turn
        /\ u.mounted = t.mounted /\ u.connects = t.connects
    BY <2>5 DEF Sane, Tab
  <2>8. \A i \in DOMAIN q : Valid(q[i], t.turn)
    BY <2>3, <2>4 DEF Sane
  <2>9. Sane(u)
    BY <1>1, <2>6, <2>7, <2>8 DEF Sane
  <2>10. ASSUME NEW k \in Nat
         PROVE  Awaits(q, k) <=> Awaits(t.callbacks, k) \/ IsJoin(c, k)
    <3>1. Len(q) \in DOMAIN q /\ \A i \in DOMAIN t.callbacks : i \in DOMAIN q
      BY <2>3
    <3> QED BY <2>3, <2>4, <3>1 DEF Awaits
  <2> QED BY <1>1, <2>7, <2>9, <2>10
<1>2. CASE t.mode # "closing"
  <2>1. PICK q : q = <<c>>
    OBVIOUS
  <2>2. q \in Seq(Callback) /\ DOMAIN q = {1} /\ q[1] = c
    BY <2>1
  <2>3. PICK v : v = [t EXCEPT !.mode = "closing", !.callbacks = q,
                        !.running = @ \ {t.stream}, !.stream = None,
                        !.dying = t.link, !.link = None, !.held = NoRoom]
    OBVIOUS
  <2>4. v \in Tab
    BY <2>2, <2>3, PlacesKnown DEF Sane, Tab, Modes, None
  <2>5. /\ v.mode = "closing" /\ v.callbacks = q /\ v.stream = None
        /\ v.running = t.running \ {t.stream} /\ v.dying = t.link
        /\ v.link = None /\ v.held = NoRoom /\ v.due = t.due
        /\ v.open = t.open /\ v.replaced = t.replaced /\ v.room = t.room
        /\ v.turn = t.turn /\ v.mounted = t.mounted /\ v.connects = t.connects
    BY <2>3 DEF Sane, Tab
  <2>6. IsFiniteSet(v.running)
    <3>1. PICK s \in SUBSET t.running : s = t.running \ {t.stream}
      OBVIOUS
    <3> QED BY <3>1, <2>5, FS_Subset DEF Sane
  <2>7. v.running \subseteq {v.stream} \cup v.replaced.streams
    BY <2>5 DEF Sane
  <2>8. v.open \subseteq {v.link, v.dying} \cup v.replaced.links
    BY <2>5, <1>2 DEF Sane, Tab
  <2>9. Sane(v)
    BY <2>2, <2>4, <2>5, <2>6, <2>7, <2>8 DEF Sane
  <2>10. CASE t.link = None \/ atOnce
    <3>1. u = Finish(v)
      BY <1>2, <2>1, <2>3, <2>10 DEF Close, Finish
    <3>2. /\ Sane(u) /\ u.mode = "idle" /\ u.due = v.callbacks
          /\ u.room = v.room /\ u.turn = v.turn /\ u.mounted = v.mounted
      BY <3>1, <2>5, <2>9, FinishFrees
    <3> QED BY <3>2, <2>1, <2>5
  <2>11. CASE ~(t.link = None \/ atOnce)
    <3>1. u = v
      BY <1>2, <2>1, <2>3, <2>11 DEF Close
    <3>2. ASSUME NEW k \in Nat
          PROVE  Awaits(u.callbacks, k) <=> Awaits(t.callbacks, k) \/ IsJoin(c, k)
      <4>1. t.callbacks = <<>> /\ DOMAIN t.callbacks = {}
        BY <1>2 DEF Sane
      <4> QED BY <4>1, <3>1, <2>2, <2>5 DEF Awaits
    <3> QED BY <3>1, <3>2, <2>5, <2>9
  <2> QED BY <2>10, <2>11
<1> QED BY <1>1, <1>2

(* Tab u is tab t after closing with callback c and running what is due at  *)
(* once because of that.                                                    *)
Closed(t, c, u) ==
  /\ Sane(u) /\ u.due = <<>> /\ u.turn = t.turn /\ u.mounted = t.mounted
  /\ u.mode = "closing" =>
       /\ u.room = t.room
       /\ Awaits(u.callbacks, u.turn)
            <=> Awaits(t.callbacks, t.turn) \/ IsJoin(c, t.turn)
  /\ u.mode # "closing" =>
       /\ Shown(u) /\ u.callbacks = <<>>
       /\ u.mode = "idle" =>
            u.room = t.room /\ ~(t.mounted /\ IsJoin(c, t.turn))
       /\ u.room # t.room \/ u.mode # "idle" => IsJoin(c, t.turn)

LEMMA CloseAndRun ==
  ASSUME NEW t, Sane(t), t.due = <<>>, NEW c \in Callback, Valid(c, t.turn),
         NEW atOnce \in BOOLEAN, NEW u, u = RunCallbacks(Close(t, c, atOnce))
  PROVE  Closed(t, c, u)
<1>1. PICK v : v = Close(t, c, atOnce)
  OBVIOUS
<1>2. /\ Sane(v) /\ v.room = t.room /\ v.turn = t.turn /\ v.mounted = t.mounted
      /\ \/ /\ v.mode = "closing" /\ v.due = <<>>
            /\ \A k \in Nat :
                 Awaits(v.callbacks, k) <=> Awaits(t.callbacks, k) \/ IsJoin(c, k)
         \/ v.mode = "idle" /\ v.due = <<c>>
  BY <1>1, CloseCloses
<1>3. u = RunCallbacks(v)
  BY <1>1
<1>4. CASE v.mode = "closing" /\ v.due = <<>>
  <2>1. Sane(u) /\ Same(u, v)
    BY <1>2, <1>3, <1>4, NothingRuns
  <2>2. t.turn \in Nat
    BY DEF Sane, Tab
  <2> QED BY <2>1, <2>2, <1>2, <1>4 DEF Same, Closed
<1>5. CASE v.mode = "idle" /\ v.due = <<c>>
  <2>1. Ran(v, Len(v.due), u)
    BY <1>2, <1>3, <1>5, RunCallbacksRun DEF Shown
  <2>2. Len(v.due) = 1 /\ v.due[1] = c /\ 1..1 = {1}
    BY <1>5
  <2> QED BY <2>1, <2>2, <1>2, <1>5 DEF Ran, Sane, Closed
<1> QED BY <1>2, <1>4, <1>5

-----------------------------------------------------------------------------
(* A click or another tab begins a turn: no join that waits is of it. *)
Turned(t, pending) ==
  [t EXCEPT !.turn = @ + 1, !.beat = NoRoom, !.connectPending = pending]

LEMMA NextTurn ==
  ASSUME NEW t, Sane(t), t.turn + 1 <= 2 * MaxClicks, NEW pending \in BOOLEAN,
         NEW p, p = Turned(t, pending)
  PROVE  /\ Sane(p) /\ p.turn = t.turn + 1 /\ p.room = t.room /\ p.due = t.due
         /\ p.mounted = t.mounted /\ ~Awaits(p.callbacks, p.turn)
<1>1. p \in Tab
  <2>1. PICK k \in Nat : k = t.turn + 1
    BY DEF Sane, Tab
  <2>2. p = [t EXCEPT !.turn = k, !.beat = NoRoom, !.connectPending = pending]
    BY <2>1 DEF Turned
  <2>3. t \in Tab
    BY DEF Sane
  <2>4. NoRoom \in Places
    BY PlacesKnown
  <2>5. [t EXCEPT !.turn = k, !.beat = NoRoom, !.connectPending = pending] \in Tab
    BY <2>3, <2>4, TurnedTab, Zenon
  <2> QED BY <2>2, <2>5, Zenon
<1>2. /\ p.turn = t.turn + 1 /\ p.mode = t.mode /\ p.held = t.held
      /\ p.stream = t.stream /\ p.link = t.link /\ p.dying = t.dying
      /\ p.callbacks = t.callbacks /\ p.due = t.due /\ p.running = t.running
      /\ p.open = t.open /\ p.replaced = t.replaced /\ p.room = t.room
      /\ p.mounted = t.mounted /\ p.connects = t.connects
  BY DEF Turned, Sane, Tab
<1>3. t.turn \in Nat
  BY DEF Sane, Tab
<1>4. /\ \A i \in DOMAIN t.callbacks : t.callbacks[i] \in Callback
      /\ \A i \in DOMAIN t.due : t.due[i] \in Callback
  BY DEF Sane, Tab
<1>5. \A c \in Callback : Valid(c, t.turn) => Valid(c, p.turn) /\ ~IsJoin(c, p.turn)
  BY <1>2, <1>3 DEF Valid, IsJoin, Callback
<1>6. Sane(p)
  BY <1>1, <1>2, <1>4, <1>5 DEF Sane
<1>7. ~Awaits(p.callbacks, p.turn)
  BY <1>2, <1>4, <1>5 DEF Sane, Awaits
<1> QED BY <1>2, <1>6, <1>7

(* The kinds of callbacks. *)
LEMMA JoinCallback ==
  ASSUME NEW k \in Nat, NEW r \in Rooms,
         NEW c, c = [do |-> "join", room |-> r, turn |-> k]
  PROVE  c \in Callback /\ Valid(c, k) /\ IsJoin(c, k)
BY PlacesKnown DEF Callback, Valid, IsJoin

LEMMA OtherCallbacks ==
  ASSUME NEW k, NEW c,
         c \in {Nothing, [do |-> "unlock", room |-> NoRoom, turn |-> 0]}
  PROVE  c \in Callback /\ Valid(c, k) /\ ~IsJoin(c, k)
BY PlacesKnown DEF Nothing, Callback, Valid, IsJoin

(* The panel forgets its room while the session closes or is free. *)
LEMMA ResetSettles ==
  ASSUME NEW t, NEW n \in Nat, Sane(t), t.due = <<>>, t.mounted,
         t.mode # "active", ~Awaits(t.callbacks, t.turn), t.turn <= 2 * n,
         NEW u, u = ResetActiveRoom(t)
  PROVE  Settled(u, n)
<1>1. u \in Tab
  <2>1. u = [t EXCEPT !.room = NoRoom, !.initialized = FALSE,
                      !.swarmInitialized = FALSE, !.audioOn = FALSE]
    BY DEF ResetActiveRoom
  <2>2. t \in Tab
    BY DEF Sane
  <2>3. NoRoom \in Places
    BY PlacesKnown
  <2>4. [t EXCEPT !.room = NoRoom, !.initialized = FALSE,
                  !.swarmInitialized = FALSE, !.audioOn = FALSE] \in Tab
    BY <2>2, <2>3, EmptiedTab, Zenon
  <2> QED BY <2>1, <2>4, Zenon
<1>2. /\ u.room = NoRoom /\ u.mode = t.mode /\ u.held = t.held
      /\ u.stream = t.stream /\ u.link = t.link /\ u.dying = t.dying
      /\ u.callbacks = t.callbacks /\ u.due = t.due /\ u.running = t.running
      /\ u.open = t.open /\ u.replaced = t.replaced /\ u.turn = t.turn
      /\ u.mounted = t.mounted /\ u.connects = t.connects
  BY DEF ResetActiveRoom, Sane, Tab
<1>3. Sane(u)
  BY <1>1, <1>2 DEF Sane
<1>4. Agrees(u)
  BY <1>2, <1>3 DEF Agrees, Sane
<1>5. Earned(u, n)
  BY <1>2 DEF Earned, Sane, Tab
<1> QED BY <1>2, <1>3, <1>4, <1>5 DEF Settled

(* What a settled tab has spent of the clicks. *)
LEMMA SettledTurn ==
  ASSUME NEW t, NEW n \in Nat, Settled(t, n)
  PROVE  /\ t.turn \in Nat /\ t.turn <= 2 * n /\ t.due = <<>> /\ Sane(t)
         /\ t.room # NoRoom => t.turn + 1 <= 2 * n
<1>1. t.due = <<>> /\ Sane(t) /\ Earned(t, n)
  BY DEF Settled
<1>2. t.turn \in Nat
  BY <1>1 DEF Sane, Tab
<1> QED BY <1>1, <1>2 DEF Earned

-----------------------------------------------------------------------------
(* One lemma per handler: it leaves a settled tab settled. A click pays for *)
(* two turns, its own and the one that may end the stay it begins.          *)
LEMMA JoinSettles ==
  ASSUME NEW t, NEW n \in Nat, Settled(t, n), n + 1 <= MaxClicks, NEW r \in Rooms,
         NEW atOnce \in BOOLEAN, NEW u, u = JoinRoom(t, r, atOnce)
  PROVE  Settled(u, n + 1)
<1>1. t.turn \in Nat /\ t.turn <= 2 * n /\ t.due = <<>> /\ Sane(t)
  BY SettledTurn
<1>2. PICK p : p = Turned(t, TRUE)
  OBVIOUS
<1>3. t.turn + 1 <= 2 * MaxClicks
  BY <1>1, BoundsAssumption
<1>4. /\ Sane(p) /\ p.turn = t.turn + 1 /\ p.room = t.room /\ p.due = t.due
      /\ p.mounted = t.mounted /\ ~Awaits(p.callbacks, p.turn)
  BY <1>1, <1>2, <1>3, NextTurn
<1>5. PICK c : c = [do |-> "join", room |-> r, turn |-> p.turn]
  OBVIOUS
<1>6. p.turn \in Nat /\ c \in Callback /\ Valid(c, p.turn) /\ IsJoin(c, p.turn)
  BY <1>1, <1>4, <1>5, JoinCallback
<1>7. u = RunCallbacks(Close(p, c, atOnce))
  BY <1>2, <1>5 DEF JoinRoom, Turned
<1>8. /\ Sane(u) /\ u.due = <<>> /\ u.turn = p.turn /\ u.mounted = p.mounted
      /\ u.mode = "closing" => Awaits(u.callbacks, u.turn)
      /\ u.mode # "closing" => Shown(u) /\ (u.mode = "idle" => ~u.mounted)
  <2>1. Closed(p, c, u)
    BY <1>1, <1>4, <1>6, <1>7, CloseAndRun
  <2> QED BY <2>1, <1>6 DEF Closed
<1>9. Agrees(u)
  BY <1>8 DEF Agrees, Shown, Sane, Tab, Modes
<1>10. Earned(u, n + 1)
  BY <1>1, <1>4, <1>8 DEF Earned
<1> QED BY <1>8, <1>9, <1>10 DEF Settled

LEMMA LeaveSettles ==
  ASSUME NEW t, NEW n \in Nat, Settled(t, n), n + 1 <= MaxClicks, t.mounted,
         NEW atOnce \in BOOLEAN, NEW u, u = LeaveRoom(t, atOnce)
  PROVE  Settled(u, n + 1)
<1>1. t.turn \in Nat /\ t.turn <= 2 * n /\ t.due = <<>> /\ Sane(t)
  BY SettledTurn
<1>2. PICK p : p = Turned(t, FALSE)
  OBVIOUS
<1>3. t.turn + 1 <= 2 * MaxClicks
  BY <1>1, BoundsAssumption
<1>4. /\ Sane(p) /\ p.turn = t.turn + 1 /\ p.room = t.room /\ p.due = t.due
      /\ p.mounted = t.mounted /\ ~Awaits(p.callbacks, p.turn)
  BY <1>1, <1>2, <1>3, NextTurn
<1>5. PICK q : q = Announce(p, NoRoom)
  OBVIOUS
<1>6. q \in Tab /\ Same(q, p) /\ q.connects = p.connects
  BY <1>4, <1>5, AnnounceSame, PlacesKnown DEF Sane
<1>7. Sane(q)
  BY <1>4, <1>6, SameKeeps DEF Sane
<1>8. /\ q.turn = t.turn + 1 /\ q.turn \in Nat /\ q.due = <<>> /\ q.mounted
      /\ ~Awaits(q.callbacks, q.turn)
  BY <1>1, <1>4, <1>6 DEF Same
<1>9. PICK c \in Callback : c = Nothing /\ Valid(c, q.turn) /\ ~IsJoin(c, q.turn)
  BY OtherCallbacks
<1>10. PICK v : v = RunCallbacks(Close(q, c, atOnce))
  OBVIOUS
<1>11. /\ Sane(v) /\ v.due = <<>> /\ v.turn = q.turn /\ v.mounted
       /\ v.mode # "active" /\ ~Awaits(v.callbacks, v.turn)
  <2>1. Closed(q, c, v)
    BY <1>7, <1>8, <1>9, <1>10, CloseAndRun
  <2> QED BY <2>1, <1>8, <1>9 DEF Closed, Awaits
<1>12. u = ResetActiveRoom(v)
  BY <1>2, <1>5, <1>9, <1>10 DEF LeaveRoom, Turned
<1>13. v.turn <= 2 * (n + 1)
  BY <1>1, <1>8, <1>11
<1> QED BY <1>11, <1>12, <1>13, ResetSettles

LEMMA DisconnectSettles ==
  ASSUME NEW t, NEW n \in Nat, Settled(t, n), n <= MaxClicks, t.mounted,
         t.room # NoRoom, NEW atOnce \in BOOLEAN, NEW u, u = DisconnectLocal(t, atOnce)
  PROVE  Settled(u, n)
<1>1. t.turn \in Nat /\ t.turn + 1 <= 2 * n /\ t.due = <<>> /\ Sane(t)
  BY SettledTurn
<1>2. PICK p : p = Turned(t, TRUE)
  OBVIOUS
<1>3. t.turn + 1 <= 2 * MaxClicks
  BY <1>1, BoundsAssumption
<1>4. /\ Sane(p) /\ p.turn = t.turn + 1 /\ p.room = t.room /\ p.due = t.due
      /\ p.mounted = t.mounted /\ ~Awaits(p.callbacks, p.turn)
  BY <1>1, <1>2, <1>3, NextTurn
<1>5. PICK c : c = [do |-> "unlock", room |-> NoRoom, turn |-> 0]
  OBVIOUS
<1>6. p.turn \in Nat /\ c \in Callback /\ Valid(c, p.turn) /\ ~IsJoin(c, p.turn)
  BY <1>1, <1>4, <1>5, OtherCallbacks
<1>7. PICK v : v = RunCallbacks(Close(p, c, atOnce))
  OBVIOUS
<1>8. /\ Sane(v) /\ v.due = <<>> /\ v.turn = p.turn /\ v.mounted
      /\ v.mode # "active" /\ ~Awaits(v.callbacks, v.turn)
  <2>1. Closed(p, c, v)
    BY <1>1, <1>4, <1>6, <1>7, CloseAndRun
  <2> QED BY <2>1, <1>4, <1>6 DEF Closed, Awaits
<1>9. u = ResetActiveRoom(v)
  BY <1>2, <1>5, <1>7 DEF DisconnectLocal, Turned
<1> QED BY <1>1, <1>4, <1>8, <1>9, ResetSettles

(* The panel goes away: its session is closed all the same. *)
LEMMA UnmountSettles ==
  ASSUME NEW t, NEW n \in Nat, Settled(t, n), NEW atOnce \in BOOLEAN,
         NEW p, p = [t EXCEPT !.mounted = FALSE, !.beat = NoRoom],
         NEW u, u = RunCallbacks(Close(p, Nothing, atOnce))
  PROVE  Settled(u, n + 1)
<1>1. t.turn \in Nat /\ t.turn <= 2 * n /\ t.due = <<>> /\ Sane(t)
  BY SettledTurn
<1>2. p \in Tab
  <2>1. t \in Tab
    BY <1>1 DEF Sane
  <2>2. NoRoom \in Places
    BY PlacesKnown
  <2>3. [t EXCEPT !.mounted = FALSE, !.beat = NoRoom] \in Tab
    BY <2>1, <2>2, GoneTab, Zenon
  <2> QED BY <2>3, Zenon
<1>3. /\ ~p.mounted /\ p.turn = t.turn /\ p.mode = t.mode /\ p.held = t.held
      /\ p.stream = t.stream /\ p.link = t.link /\ p.dying = t.dying
      /\ p.callbacks = t.callbacks /\ p.due = t.due /\ p.running = t.running
      /\ p.open = t.open /\ p.replaced = t.replaced /\ p.room = t.room
      /\ p.connects = t.connects
  BY <1>1 DEF Sane, Tab
<1>4. Sane(p)
  BY <1>1, <1>2, <1>3 DEF Sane
<1>5. PICK c \in Callback : c = Nothing /\ Valid(c, p.turn)
  BY OtherCallbacks
<1>6. u = RunCallbacks(Close(p, c, atOnce))
  BY <1>5
<1>7. Sane(u) /\ u.due = <<>> /\ u.turn = p.turn /\ u.mounted = p.mounted
  <2>1. Closed(p, c, u)
    BY <1>1, <1>3, <1>4, <1>5, <1>6, CloseAndRun
  <2> QED BY <2>1 DEF Closed
<1>8. Agrees(u)
  BY <1>3, <1>7 DEF Agrees
<1>9. Earned(u, n + 1)
  BY <1>1, <1>3, <1>7 DEF Earned
<1> QED BY <1>7, <1>8, <1>9 DEF Settled

(* The swarm is closed: the last join that no click overtook goes on. *)
LEMMA SwarmSettles ==
  ASSUME NEW t, NEW n \in Nat, Settled(t, n), t.mode = "closing",
         NEW u, u = RunCallbacks(Finish(t))
  PROVE  Settled(u, n)
<1>1. PICK v : v = Finish(t)
  OBVIOUS
<1>2. /\ Sane(v) /\ v.mode = "idle" /\ v.due = t.callbacks
      /\ v.room = t.room /\ v.turn = t.turn /\ v.mounted = t.mounted
  BY <1>1, FinishFrees DEF Settled
<1>3. Ran(v, Len(v.due), u)
  BY <1>1, <1>2, RunCallbacksRun DEF Shown
<1>4. DOMAIN v.due = 1..Len(v.due)
  BY <1>2 DEF Sane, Tab
<1>5. /\ u.mode = "idle" => u.room = t.room /\ ~(t.mounted /\ Awaits(t.callbacks, t.turn))
      /\ u.room # t.room => Awaits(t.callbacks, t.turn)
  BY <1>2, <1>3, <1>4 DEF Ran, Awaits
<1>6. /\ Sane(u) /\ u.due = <<>> /\ u.mode \in {"idle", "active"} /\ Shown(u)
      /\ u.turn = t.turn /\ u.mounted = t.mounted /\ ~Awaits(u.callbacks, u.turn)
  BY <1>2, <1>3 DEF Ran, Sane, Tab, Modes, Awaits
<1>7. Agrees(u)
  BY <1>5, <1>6 DEF Agrees, Shown, Settled, Sane
<1>8. Earned(u, n)
  BY <1>5, <1>6 DEF Earned, Settled, Sane, Tab
<1> QED BY <1>6, <1>7, <1>8 DEF Settled

(* The microphone is kept only by a session that is still in its room. *)
LEMMA StreamSettles ==
  ASSUME NEW t, NEW n \in Nat, Settled(t, n), NEW r \in Places,
         NEW u, u = SetStream(t, r)
  PROVE  Settled(u, n) /\ u.room = t.room
<1>1. CASE ~IsActive(t, r)
  BY <1>1 DEF SetStream
<1>2. CASE IsActive(t, r)
  <2>0. Sane(t) /\ t \in Tab
    BY DEF Settled, Sane
  <2>1. PICK s : s = Fresh(t.running)
    OBVIOUS
  <2>2. s \in Nat \ {None}
    BY <2>0, <2>1, FreshIsNew DEF Sane
  <2>3. PICK live : live = t.running \cup {s}
    OBVIOUS
  <2>4. live \in SUBSET (Nat \ {None}) /\ IsFiniteSet(live)
    BY <2>0, <2>2, <2>3, FS_AddElement DEF Sane, Tab
  <2>5. PICK old : old = t.replaced.streams \cup ({t.stream} \ {None})
    OBVIOUS
  <2>6. old \in SUBSET Nat
    BY <2>0, <2>5 DEF Tab
  <2>7. PICK rep : rep = [t.replaced EXCEPT !.streams = old]
    OBVIOUS
  <2>8. /\ rep \in [streams : SUBSET Nat, links : SUBSET Nat]
         /\ rep.streams = old /\ rep.links = t.replaced.links
    BY <2>0, <2>6, <2>7 DEF Tab
  <2>9. u = [t EXCEPT !.stream = s, !.running = live, !.replaced = rep]
    BY <1>2, <2>0, <2>1, <2>3, <2>5, <2>7 DEF SetStream, SetStreamAlways, Tab
  <2>10. u \in Tab
    <3>1. s \in Nat
      BY <2>2
    <3>2. [t EXCEPT !.stream = s, !.running = live, !.replaced = rep] \in Tab
      BY <2>0, <2>4, <2>8, <3>1, StreamTab, Zenon
    <3> QED BY <2>9, <3>2, Zenon
  <2>11. /\ u.stream = s /\ u.running = live /\ u.replaced.streams = old
        /\ u.replaced.links = t.replaced.links /\ u.mode = t.mode
        /\ u.held = t.held /\ u.link = t.link /\ u.dying = t.dying
        /\ u.callbacks = t.callbacks /\ u.due = t.due /\ u.open = t.open
        /\ u.room = t.room /\ u.turn = t.turn /\ u.mounted = t.mounted
        /\ u.connects = t.connects
    BY <2>0, <2>8, <2>9 DEF Tab
  <2>12. live \subseteq {s} \cup old
    BY <2>0, <2>3, <2>5 DEF Sane, Tab
  <2>13. Sane(u)
    BY <1>2, <2>0, <2>4, <2>10, <2>11, <2>12 DEF Sane, IsActive
  <2>14. Agrees(u) /\ Earned(u, n)
    BY <2>11 DEF Settled, Agrees, Earned
  <2> QED BY <2>11, <2>13, <2>14 DEF Settled
<1> QED BY <1>1, <1>2

(* The connection is kept only by a session and a panel that are still in   *)
(* its room.                                                                *)
LEMMA LinkSettles ==
  ASSUME NEW t, NEW n \in Nat, Settled(t, n), NEW r \in Places,
         NEW u, u = Connect(t, r)
  PROVE  Settled(u, n) /\ u.connects = t.connects
<1>1. CASE ~StillWanted(t, r)
  BY <1>1 DEF Connect
<1>2. CASE StillWanted(t, r)
  <2>0. Sane(t) /\ t \in Tab
    BY DEF Settled, Sane
  <2>1. PICK l : l = Fresh(t.open)
    OBVIOUS
  <2>2. l \in Nat \ {None}
    BY <2>0, <2>1, FreshIsNew DEF Sane
  <2>3. PICK live : live = t.open \cup {l}
    OBVIOUS
  <2>4. live \in SUBSET (Nat \ {None}) /\ IsFiniteSet(live)
    BY <2>0, <2>2, <2>3, FS_AddElement DEF Sane, Tab
  <2>5. PICK old : old = t.replaced.links \cup ({t.link} \ {None})
    OBVIOUS
  <2>6. old \in SUBSET Nat
    BY <2>0, <2>5 DEF Tab
  <2>7. PICK rep : rep = [t.replaced EXCEPT !.links = old]
    OBVIOUS
  <2>8. /\ rep \in [streams : SUBSET Nat, links : SUBSET Nat]
         /\ rep.links = old /\ rep.streams = t.replaced.streams
    BY <2>0, <2>6, <2>7 DEF Tab
  <2>9. u = [t EXCEPT !.link = l, !.open = live, !.replaced = rep]
    BY <1>2, <2>0, <2>1, <2>3, <2>5, <2>7 DEF Connect, ConnectStale, Tab
  <2>10. u \in Tab
    <3>1. l \in Nat
      BY <2>2
    <3>2. [t EXCEPT !.link = l, !.open = live, !.replaced = rep] \in Tab
      BY <2>0, <2>4, <2>8, <3>1, LinkTab, Zenon
    <3> QED BY <2>9, <3>2, Zenon
  <2>11. /\ u.link = l /\ u.open = live /\ u.replaced.links = old
        /\ u.replaced.streams = t.replaced.streams /\ u.mode = t.mode
        /\ u.held = t.held /\ u.stream = t.stream /\ u.dying = t.dying
        /\ u.callbacks = t.callbacks /\ u.due = t.due /\ u.running = t.running
        /\ u.room = t.room /\ u.turn = t.turn /\ u.mounted = t.mounted
        /\ u.connects = t.connects
    BY <2>0, <2>8, <2>9 DEF Tab
  <2>12. live \subseteq {l, t.dying} \cup old
    BY <2>0, <2>3, <2>5 DEF Sane, Tab
  <2>13. Sane(u)
    BY <1>2, <2>0, <2>4, <2>10, <2>11, <2>12 DEF Sane, StillWanted, IsActive
  <2>14. Agrees(u) /\ Earned(u, n)
    BY <2>11 DEF Settled, Agrees, Earned
  <2> QED BY <2>11, <2>13, <2>14 DEF Settled
<1> QED BY <1>1, <1>2

-----------------------------------------------------------------------------
(* What a handler leaves is the tab, and its requests are on their way. *)
LEMMA HandledKeeps ==
  ASSUME NEW u, NEW n \in Nat, Settled(u, n), posts \subseteq Post, Handled(u)
  PROVE  Settled(tab', n) /\ tab'.outbox = {} /\ posts' \subseteq Post
<1>1. PICK v : v = [u EXCEPT !.outbox = {}]
  OBVIOUS
<1>2. v \in Tab /\ Same(v, u) /\ v.connects = u.connects /\ v.outbox = {}
  BY <1>1 DEF Settled, Sane, Tab, Same
<1>3. Settled(v, n)
  BY <1>2, SameSettled DEF Settled, Sane
<1>4. tab' = v /\ posts' = posts \cup u.outbox
  BY <1>1 DEF Handled
<1>5. u.outbox \subseteq Post
  BY DEF Settled, Sane, Tab
<1> QED BY <1>2, <1>3, <1>4, <1>5

(* A click or an upset is spent, within its bound. *)
LEMMA ClickSpent ==
  ASSUME spent \in [clicks : 0..MaxClicks, upsets : Nat], Spend("clicks", MaxClicks)
  PROVE  /\ spent.clicks \in Nat /\ spent.clicks + 1 <= MaxClicks
         /\ spent'.clicks = spent.clicks + 1
         /\ spent' \in [clicks : 0..MaxClicks, upsets : Nat]
BY BoundsAssumption DEF Spend
LEMMA UpsetSpent ==
  ASSUME spent \in [clicks : 0..MaxClicks, upsets : Nat], Spend("upsets", MaxUpsets)
  PROVE  /\ spent'.clicks = spent.clicks
         /\ spent' \in [clicks : 0..MaxClicks, upsets : Nat]
BY DEF Spend

(* The server moves the user to a place and reports a change. *)
LEMMA MoveKeeps ==
  ASSUME events \subseteq Change, NEW r \in Places, MoveTo(r)
  PROVE  events' \subseteq Change /\ server' \in Places
BY DEF MoveTo

-----------------------------------------------------------------------------
LEMMA InitHolds == Init => IndInv
<1> SUFFICES ASSUME Init PROVE IndInv
  OBVIOUS
<1>1. <<>> \in Seq(Callback) /\ {None, 0} \subseteq Nat
  BY DEF None
<1>2. tab \in Tab
  BY <1>1, PlacesKnown DEF Init, Tab, Modes
<1>3. IsFiniteSet({})
  BY FS_EmptySet
<1>4. Settled(tab, spent.clicks) /\ tab.outbox = {}
  BY <1>2, <1>3, BoundsAssumption
     DEF Init, Settled, Sane, Agrees, Earned, Awaits
<1> QED BY <1>4, PlacesKnown, BoundsAssumption DEF Init, IndInv

LEMMA IndInvHolds == IndInv /\ [Next]_vars => IndInv'
<1> SUFFICES ASSUME IndInv, [Next]_vars PROVE IndInv'
  OBVIOUS
<1>0. /\ Settled(tab, spent.clicks) /\ tab.outbox = {} /\ tab \in Tab /\ Sane(tab)
      /\ posts \subseteq Post /\ events \subseteq Change
      /\ server \in Places /\ goal \in Places
      /\ spent \in [clicks : 0..MaxClicks, upsets : Nat]
      /\ spent.clicks \in Nat /\ spent.clicks <= MaxClicks
  BY BoundsAssumption DEF IndInv, Settled, Sane
<1> DEFINE n == spent.clicks
           TabKept(m) == Settled(tab', m) /\ tab'.outbox = {} /\ posts' \subseteq Post
<1>1. ASSUME NEW r \in Rooms, NEW atOnce \in BOOLEAN, ClickJoin(r, atOnce)
      PROVE  IndInv'
  <2>1. /\ n + 1 <= MaxClicks /\ spent'.clicks = n + 1
        /\ spent' \in [clicks : 0..MaxClicks, upsets : Nat]
    BY <1>0, <1>1, ClickSpent DEF ClickJoin
  <2>2. PICK u : u = JoinRoom(tab, r, atOnce)
    OBVIOUS
  <2>3. Settled(u, n + 1)
    BY <1>0, <2>1, <2>2, JoinSettles
  <2>4. TabKept(n + 1)
    BY <1>0, <1>1, <2>2, <2>3, HandledKeeps DEF ClickJoin
  <2>5. events' = events /\ server' = server /\ goal' \in Places
    BY <1>1, PlacesKnown DEF ClickJoin
  <2> QED BY <1>0, <2>1, <2>4, <2>5 DEF IndInv
<1>2. ASSUME NEW atOnce \in BOOLEAN, ClickLeave(atOnce) PROVE IndInv'
  <2>1. /\ n + 1 <= MaxClicks /\ spent'.clicks = n + 1
        /\ spent' \in [clicks : 0..MaxClicks, upsets : Nat]
    BY <1>0, <1>2, ClickSpent DEF ClickLeave
  <2>2. PICK u : u = LeaveRoom(tab, atOnce)
    OBVIOUS
  <2>3. Settled(u, n + 1)
    BY <1>0, <1>2, <2>1, <2>2, LeaveSettles DEF ClickLeave
  <2>4. TabKept(n + 1)
    BY <1>0, <1>2, <2>2, <2>3, HandledKeeps DEF ClickLeave
  <2>5. events' = events /\ server' = server /\ goal' \in Places
    BY <1>2, PlacesKnown DEF ClickLeave
  <2> QED BY <1>0, <2>1, <2>4, <2>5 DEF IndInv
<1>3. ASSUME NEW atOnce \in BOOLEAN, Unmount(atOnce) PROVE IndInv'
  <2>1. /\ n + 1 <= MaxClicks /\ spent'.clicks = n + 1
        /\ spent' \in [clicks : 0..MaxClicks, upsets : Nat]
    BY <1>0, <1>3, ClickSpent DEF Unmount
  <2>2. PICK p : p = [tab EXCEPT !.mounted = FALSE, !.beat = NoRoom]
    OBVIOUS
  <2>3. PICK u : u = RunCallbacks(Close(p, Nothing, atOnce))
    OBVIOUS
  <2>4. Settled(u, n + 1)
    BY <1>0, <2>2, <2>3, UnmountSettles
  <2>5. Handled(u)
    BY <1>3, <2>2, <2>3 DEF Unmount
  <2>6. TabKept(n + 1)
    BY <1>0, <2>4, <2>5, HandledKeeps
  <2>7. events' = events /\ server' = server /\ goal' \in Places
    BY <1>3, PlacesKnown DEF Unmount
  <2> QED BY <1>0, <2>1, <2>6, <2>7 DEF IndInv
<1>4. CASE ToggleMicrophone
  <2>1. spent'.clicks = n /\ spent' \in [clicks : 0..MaxClicks, upsets : Nat]
    BY <1>0, <1>4, UpsetSpent DEF ToggleMicrophone
  <2>2. PICK t : t = [tab EXCEPT !.audioOn = ~@]
    OBVIOUS
  <2>3. t \in Tab /\ Same(t, tab) /\ t.connects = tab.connects
    <3>1. tab \in Tab
      BY <1>0
    <3>2. t \in Tab
      BY <2>2, <3>1 DEF Tab
    <3>3. Same(t, tab) /\ t.connects = tab.connects
      BY <2>2, <3>1 DEF Tab, Same
    <3> QED BY <3>2, <3>3
  <2>4. Settled(t, n)
    BY <1>0, <2>3, SameSettled DEF Sane
  <2>5. PICK v : v = Render(t)
    OBVIOUS
  <2>6. Settled(v, n)
    BY <1>0, <2>4, <2>5, RenderSettled
  <2>7. PICK u : u = Announce(v, tab.room)
    OBVIOUS
  <2>8. Settled(u, n)
    BY <1>0, <2>6, <2>7, AnnounceSettled DEF Tab
  <2>9. TabKept(n)
    BY <1>0, <1>4, <2>2, <2>5, <2>7, <2>8, HandledKeeps DEF ToggleMicrophone
  <2> QED BY <1>0, <1>4, <2>1, <2>9 DEF IndInv, ToggleMicrophone
<1>5. ASSUME NEW granted \in BOOLEAN, MediaSettles(granted) PROVE IndInv'
  <2>1. PICK r \in Places : r = tab.prompt
    BY <1>0 DEF Tab
  <2>2. PICK t : t = IF granted THEN SetStream(tab, r) ELSE tab
    OBVIOUS
  <2>3. Settled(t, n)
    BY <1>0, <2>2, StreamSettles
  <2>4. PICK v : v = [t EXCEPT !.initialized = TRUE]
    OBVIOUS
  <2>5. Settled(v, n)
    <3>1. v \in Tab /\ Same(v, t) /\ v.connects = t.connects
      BY <2>3, <2>4 DEF Settled, Sane, Tab, Same
    <3> QED BY <1>0, <2>3, <3>1, SameSettled DEF Settled, Sane
  <2>6. PICK w : w = Render(v)
    OBVIOUS
  <2>7. Settled(w, n)
    BY <1>0, <2>5, <2>6, RenderSettled
  <2>8. PICK x : x = Announce(w, r)
    OBVIOUS
  <2>9. Settled(x, n)
    BY <1>0, <2>7, <2>8, AnnounceSettled
  <2>10. PICK u : /\ u = t \/ u = x
                  /\ Handled([u EXCEPT !.prompt = NoRoom])
    BY <1>5, <2>1, <2>2, <2>4, <2>6, <2>8 DEF MediaSettles
  <2>11. PICK y : y = [u EXCEPT !.prompt = NoRoom]
    OBVIOUS
  <2>12. Settled(y, n)
    <3>1. Settled(u, n)
      BY <2>3, <2>9, <2>10
    <3>2. y \in Tab /\ Same(y, u) /\ y.connects = u.connects
      BY <2>11, <3>1, PlacesKnown DEF Settled, Sane, Tab, Same
    <3> QED BY <1>0, <3>1, <3>2, SameSettled DEF Settled, Sane
  <2>13. TabKept(n)
    BY <1>0, <2>10, <2>11, <2>12, HandledKeeps
  <2> QED BY <1>0, <1>5, <2>13 DEF IndInv, MediaSettles
<1>6. ASSUME NEW c \in tab.connects, HubCreated(c) PROVE IndInv'
  <2>1. PICK r \in Places : r = c.room
    BY <1>0, PlacesKnown DEF Tab
  <2>2. PICK t : t = Connect(tab, r)
    OBVIOUS
  <2>3. Settled(t, n) /\ t.connects = tab.connects
    BY <1>0, <2>2, LinkSettles
  <2>4. PICK cs \in SUBSET tab.connects : cs = tab.connects \ {c}
    OBVIOUS
  <2>5. IsFiniteSet(cs) /\ cs \in SUBSET [room : Rooms, id : Nat]
    BY <1>0, <2>4, FS_Subset DEF Sane, Tab
  <2>6. PICK u : u = [t EXCEPT !.connects = cs, !.connectPending = FALSE]
    OBVIOUS
  <2>7. Settled(u, n)
    <3>1. u \in Tab /\ Same(u, t) /\ u.connects = cs
      BY <2>3, <2>5, <2>6 DEF Settled, Sane, Tab, Same
    <3> QED BY <1>0, <2>3, <2>5, <3>1, SameSettled
  <2>8. Handled(u)
    BY <1>6, <2>1, <2>2, <2>3, <2>4, <2>6 DEF HubCreated
  <2>9. TabKept(n)
    BY <1>0, <2>7, <2>8, HandledKeeps
  <2> QED BY <1>0, <1>6, <2>9 DEF IndInv, HubCreated
<1>7. ASSUME NEW c \in tab.connects, HubFails(c) PROVE IndInv'
  <2>1. spent'.clicks = n /\ spent' \in [clicks : 0..MaxClicks, upsets : Nat]
    BY <1>0, <1>7, UpsetSpent DEF HubFails
  <2>2. PICK cs \in SUBSET tab.connects : cs = tab.connects \ {c}
    OBVIOUS
  <2>3. IsFiniteSet(cs) /\ cs \in SUBSET [room : Rooms, id : Nat]
    BY <1>0, <2>2, FS_Subset DEF Sane, Tab
  <2>4. PICK u : u = [tab EXCEPT !.connects = cs, !.connectPending = FALSE]
    OBVIOUS
  <2>5. u \in Tab /\ Same(u, tab) /\ u.connects = cs /\ u.outbox = {}
    BY <1>0, <2>3, <2>4 DEF Tab, Same
  <2>6. Settled(u, n)
    BY <1>0, <2>3, <2>5, SameSettled
  <2>7. tab' = u
    BY <1>7, <2>2, <2>4 DEF HubFails
  <2> QED BY <1>0, <1>7, <2>1, <2>5, <2>6, <2>7 DEF IndInv, HubFails
<1>8. CASE SwarmCloses
  <2>1. PICK u : u = RunCallbacks(Finish(tab))
    OBVIOUS
  <2>2. Settled(u, n)
    BY <1>0, <1>8, <2>1, SwarmSettles DEF SwarmCloses
  <2>3. TabKept(n)
    BY <1>0, <1>8, <2>1, <2>2, HandledKeeps DEF SwarmCloses
  <2> QED BY <1>0, <1>8, <2>3 DEF IndInv, SwarmCloses
<1>9. CASE HubData
  <2>1. PICK t : t = [tab EXCEPT !.swarmInitialized = TRUE]
    OBVIOUS
  <2>2. t \in Tab /\ Same(t, tab) /\ t.connects = tab.connects
    BY <1>0, <2>1 DEF Tab, Same
  <2>3. Settled(t, n)
    BY <1>0, <2>2, SameSettled DEF Sane
  <2>4. PICK u : u = Render(t)
    OBVIOUS
  <2>5. Settled(u, n)
    BY <1>0, <2>3, <2>4, RenderSettled
  <2>6. TabKept(n)
    BY <1>0, <1>9, <2>1, <2>4, <2>5, HandledKeeps DEF HubData
  <2> QED BY <1>0, <1>9, <2>6 DEF IndInv, HubData
<1>10. CASE DirectoryArrives
  <2>1. PICK u : u = Render(tab)
    OBVIOUS
  <2>2. Settled(u, n)
    BY <1>0, <2>1, RenderSettled
  <2>3. TabKept(n)
    BY <1>0, <1>10, <2>1, <2>2, HandledKeeps DEF DirectoryArrives
  <2> QED BY <1>0, <1>10, <2>3 DEF IndInv, DirectoryArrives
<1>11. CASE Heartbeat
  <2>1. PICK u : u = Announce(tab, tab.beat)
    OBVIOUS
  <2>2. Settled(u, n)
    BY <1>0, <2>1, AnnounceSettled DEF Tab
  <2>3. TabKept(n)
    BY <1>0, <1>11, <2>1, <2>2, HandledKeeps DEF Heartbeat
  <2> QED BY <1>0, <1>11, <2>3 DEF IndInv, Heartbeat
<1>12. ASSUME NEW p \in posts, PostArrives(p) PROVE IndInv'
  <2>1. p.room \in Places
    BY <1>0 DEF Post
  <2>2. events' \subseteq Change /\ server' \in Places
    BY <1>0, <1>12, <2>1, MoveKeeps DEF PostArrives
  <2> QED BY <1>0, <1>12, <2>2 DEF IndInv, PostArrives
<1>13. ASSUME NEW p \in posts, PostFails(p) PROVE IndInv'
  <2>1. spent'.clicks = n /\ spent' \in [clicks : 0..MaxClicks, upsets : Nat]
    BY <1>0, <1>13, UpsetSpent DEF PostFails
  <2> QED BY <1>0, <1>13, <2>1 DEF IndInv, PostFails
<1>14. ASSUME NEW r \in Places, OtherTabMoves(r) PROVE IndInv'
  <2>1. spent'.clicks = n /\ spent' \in [clicks : 0..MaxClicks, upsets : Nat]
    BY <1>0, <1>14, UpsetSpent DEF OtherTabMoves
  <2>2. events' \subseteq Change /\ server' \in Places
    BY <1>0, <1>14, MoveKeeps DEF OtherTabMoves
  <2> QED BY <1>0, <1>14, <2>1, <2>2 DEF IndInv, OtherTabMoves
<1>15. CASE PresenceExpires
  BY <1>0, <1>15, PlacesKnown DEF IndInv, PresenceExpires
<1>16. ASSUME NEW e \in events, NEW atOnce \in BOOLEAN, EventArrives(e, atOnce)
       PROVE  IndInv'
  <2>1. CASE Exclusive(e)
    <3>1. PICK u : u = DisconnectLocal(tab, atOnce)
      OBVIOUS
    <3>2. Settled(u, n)
      BY <1>0, <2>1, <3>1, DisconnectSettles DEF Exclusive
    <3>3. TabKept(n)
      BY <1>0, <1>16, <2>1, <3>1, <3>2, HandledKeeps DEF EventArrives
    <3> QED BY <1>0, <1>16, <2>1, <3>3, PlacesKnown DEF IndInv, EventArrives
  <2>2. CASE ~Exclusive(e)
    BY <1>0, <1>16, <2>2 DEF IndInv, EventArrives
  <2> QED BY <2>1, <2>2
<1>17. CASE UNCHANGED vars
  BY <1>0, <1>17 DEF IndInv, vars, Settled, Sane, Agrees, Earned
<1> QED BY <1>1, <1>2, <1>3, <1>4, <1>5, <1>6, <1>7, <1>8, <1>9, <1>10, <1>11,
           <1>12, <1>13, <1>14, <1>15, <1>16, <1>17 DEF Next

LEMMA IndInvAlways == Spec => []IndInv
BY InitHolds, IndInvHolds, PTL DEF Spec

-----------------------------------------------------------------------------
(* Every variable keeps to its type; a turn is told from every other one by *)
(* a number bounded by the clicks (voiceRoomController.js joinSequence).    *)
THEOREM TypeCorrect == Spec => []TypeOK
<1>1. IndInv => TypeOK
  <2> SUFFICES ASSUME IndInv PROVE TypeOK
    OBVIOUS
  <2>1. tab \in Tab /\ tab.due = <<>> /\ tab.outbox = {}
    BY DEF IndInv, Settled, Sane
  <2>2. \A i \in DOMAIN tab.callbacks : tab.callbacks[i] \in Callback
    BY <2>1 DEF Tab
  <2> QED BY <2>1, <2>2 DEF IndInv, Tab, TypeOK
<1> QED BY <1>1, IndInvAlways, PTL

(* A mounted panel shows a room exactly while its session holds it, unless  *)
(* the session is closing (audio_group_call.jsx activeRoom, voiceSession.js *)
(* roomId): whatever clicks, swarms that close late and other tabs do       *)
(* meanwhile.                                                               *)
THEOREM PanelShowsSession == Spec => []RoomsAgree
<1>1. IndInv => RoomsAgree
  BY DEF IndInv, Settled, Agrees, RoomsAgree
<1> QED BY <1>1, IndInvAlways, PTL

(* A microphone or a hub that arrives late is not kept (voiceSession.js     *)
(* setStream and connect): what runs or is open is the session's, is the    *)
(* hub it is closing, or was replaced by another of its own.                *)
THEOREM LateArrivalsDropped == Spec => []NothingLateKept
<1>1. IndInv => NothingLateKept
  BY DEF IndInv, Settled, Sane, NothingLateKept
<1> QED BY <1>1, IndInvAlways, PTL

(* A tab is in two swarms only after a hub it asked for twice replaced the  *)
(* first (voiceSession.js connect): there is no other way to be connected   *)
(* to two, the swarm that is closing included.                              *)
SwarmsOnlyByReplacement == tab.replaced.links = {} => OneSwarm

THEOREM OneSwarmUnlessReplaced == Spec => []SwarmsOnlyByReplacement
<1>1. IndInv => SwarmsOnlyByReplacement
  <2> SUFFICES ASSUME IndInv, tab.replaced.links = {} PROVE Cardinality(tab.open) <= 1
    BY DEF SwarmsOnlyByReplacement, OneSwarm
  <2>1. /\ IsFiniteSet(tab.open) /\ None \notin tab.open
        /\ tab.open \subseteq {tab.link, tab.dying}
        /\ tab.link = None \/ tab.dying = None
    BY DEF IndInv, Settled, Sane, Tab
  <2>2. PICK x : tab.open \subseteq {x}
    BY <2>1
  <2>3. IsFiniteSet({x}) /\ Cardinality({x}) = 1
    BY FS_Singleton
  <2> QED BY <2>2, <2>3, FS_Subset
<1> QED BY <1>1, IndInvAlways, PTL
=============================================================================
