------------------------- MODULE SignalSessionsProofs -------------------------
(***************************************************************************)
(* For any users, rooms, handlers and limits: the session map and the room  *)
(* index agree, only users who have been in a room get into its session,    *)
(* and the limit on direct calls holds, however handlers interleave.        *)
(***************************************************************************)
EXTENDS SignalSessions, FiniteSetTheorems, TLAPS

-----------------------------------------------------------------------------
(* The operations of the store.                                             *)

(* What every operation keeps: typed, consistent, finite. *)
GoodStore(st) == st \in Store /\ Consistent(st) /\ IsFiniteSet(st.sessions)

(* The sessions that count for DirectCallsLimited. *)
Direct(st, u) == {s \in st.sessions : s.owner = u /\ s.room = NoRoomID}

(* A session of after is one of before, for the same room. *)
Old(before, s) == \E t \in before.sessions : s.id = t.id /\ s.room = t.room

(* The operation adds no id, no direct session and, but for who in the     *)
(* room r, no participant of a room.                                        *)
NothingNew(before, after, r, who) ==
  /\ \A s \in after.sessions : Old(before, s)
  /\ \A u \in Users : Direct(after, u) \subseteq Direct(before, u)
  /\ \A s \in after.sessions : s.room # NoRoomID =>
       \/ s.room = r /\ s.members = who
       \/ \E t \in before.sessions : s.room = t.room /\ s.members = t.members

LEMMA DropGood ==
  ASSUME NEW st, GoodStore(st), NEW gone \in SUBSET st.sessions, NEW r, NEW who
  PROVE  GoodStore(Drop(st, gone)) /\ NothingNew(st, Drop(st, gone), r, who)
<1> DEFINE d == Drop(st, gone)
<1>1. /\ d.sessions = st.sessions \ gone
      /\ d.index = [x \in RoomIDs |->
                      IF \E s \in gone : s.room = x THEN NoSession ELSE st.index[x]]
      /\ d = [sessions |-> d.sessions, index |-> d.index]
  BY DEF Drop
<1>2. IsFiniteSet(d.sessions)
  BY <1>1, FS_Subset DEF GoodStore
<1>3. d \in Store
  BY <1>1 DEF GoodStore, Store, NoSession
<1>4. Consistent(d)
  <2> USE DEF GoodStore, Consistent, Store, Session, NoSession
  <2>1. \A s, t \in d.sessions : s.id = t.id => s = t
    BY <1>1
  <2>2. ASSUME NEW x \in RoomIDs, d.index[x] # NoSession
        PROVE  \E s \in d.sessions : s.id = d.index[x] /\ s.room = x
    <3>1. d.index[x] = st.index[x] /\ \A s \in gone : s.room # x
      BY <1>1, <2>2
    <3> QED
      BY <1>1, <2>2, <3>1
  <2>3. ASSUME NEW s \in d.sessions, s.room # NoRoomID
        PROVE  d.index[s.room] = s.id
    <3>1. s \in st.sessions /\ s \notin gone /\ st.index[s.room] = s.id /\ s.room \in RoomIDs
      BY <1>1, <2>3
    <3>2. \A t \in gone : t.room # s.room
      BY <3>1, <2>3
    <3> QED
      BY <1>1, <3>1, <3>2
  <2> QED
    BY <2>1, <2>2, <2>3
<1>5. NothingNew(st, d, r, who)
  BY <1>1 DEF NothingNew, Direct, Old
<1> QED
  BY <1>2, <1>3, <1>4, <1>5 DEF GoodStore

LEMMA PruneGood ==
  ASSUME NEW st, GoodStore(st), NEW now, NEW r, NEW who
  PROVE  GoodStore(PruneExpired(st, now)) /\ NothingNew(st, PruneExpired(st, now), r, who)
  BY DropGood DEF PruneExpired

(* Replace on the session the index names. *)
LEMMA ReplaceGood ==
  ASSUME NEW st, GoodStore(st), NEW r \in RoomIDs, st.index[r] # NoSession,
         NEW who \in SUBSET Users
  PROVE  /\ GoodStore(Replace(st, st.index[r], who))
         /\ NothingNew(st, Replace(st, st.index[r], who), r, who)
         /\ Replace(st, st.index[r], who).index = st.index
<1> DEFINE id == st.index[r]
           New(s) == IF s.id = id THEN [s EXCEPT !.members = who] ELSE s
           new == {New(s) : s \in st.sessions}
           d == Replace(st, id, who)
<1>1. d = [st EXCEPT !.sessions = new]
  BY Zenon DEF Replace
<1>2. /\ d.sessions = new
      /\ d.index = st.index
      /\ d = [sessions |-> new, index |-> st.index]
  <2> HIDE DEF new, d
  <2> QED
    BY <1>1 DEF GoodStore, Store
<1>3. \A s \in st.sessions : s \in Session
  BY DEF GoodStore, Store
<1>4. \A s \in st.sessions :
        /\ New(s) \in Session
        /\ New(s).id = s.id /\ New(s).room = s.room /\ New(s).owner = s.owner
        /\ New(s).members = IF s.id = id THEN who ELSE s.members
  BY <1>3 DEF Session
<1>5. IsFiniteSet(new)
  <2>1. PICK old \in st.sessions : old.id = id
    BY DEF GoodStore, Consistent
  <2>2. \A s \in st.sessions : s.id = id => s = old
    BY <2>1 DEF GoodStore, Consistent
  <2>3. new \subseteq st.sessions \cup {New(old)}
    BY <2>2
  <2> HIDE DEF new, New
  <2> QED
    BY <2>3, FS_AddElement, FS_Subset DEF GoodStore
<1>6. d \in Store
  <2>1. \A t \in new : t \in Session
    BY <1>4
  <2> HIDE DEF new, New, d
  <2> QED
    BY <1>2, <2>1 DEF GoodStore, Store
<1>7. \A t \in d.sessions : \E s \in st.sessions : t = New(s)
  BY <1>2
<1>8. \A s \in st.sessions : New(s) \in d.sessions
  BY <1>2
<1>9. Consistent(d)
  <2> HIDE DEF New, new, d
  <2>1. \A s, t \in d.sessions : s.id = t.id => s = t
    BY <1>4, <1>7 DEF GoodStore, Consistent
  <2>2. \A x \in RoomIDs : d.index[x] # NoSession =>
          \E s \in d.sessions : s.id = d.index[x] /\ s.room = x
    BY <1>2, <1>4, <1>8 DEF GoodStore, Consistent
  <2>3. \A s \in d.sessions : s.room # NoRoomID => d.index[s.room] = s.id
    BY <1>2, <1>4, <1>7 DEF GoodStore, Consistent
  <2> QED
    BY <2>1, <2>2, <2>3 DEF Consistent
<1>10. NothingNew(st, d, r, who)
  <2>1. r # NoRoomID
    BY DomainAssumption DEF NoRoomID
  <2>2. \A s \in st.sessions : s.id = id => s.room = r
    BY DEF GoodStore, Consistent
  <2>3. \A s \in st.sessions : s.id # id => New(s) = s
    OBVIOUS
  <2> HIDE DEF New, new, d
  <2>4. ASSUME NEW u \in Users, NEW t \in Direct(d, u) PROVE t \in Direct(st, u)
    <3>1. PICK s \in st.sessions : t = New(s)
      BY <1>7, <2>4 DEF Direct
    <3> QED
      BY <3>1, <2>1, <2>2, <2>3, <2>4, <1>4 DEF Direct
  <2>5. ASSUME NEW t \in d.sessions, t.room # NoRoomID
        PROVE  \/ t.room = r /\ t.members = who
               \/ \E s \in st.sessions : t.room = s.room /\ t.members = s.members
    BY <1>4, <1>7, <2>2, <2>5
  <2>6. \A t \in d.sessions : Old(st, t)
    BY <1>4, <1>7 DEF Old
  <2> QED
    BY <2>4, <2>5, <2>6 DEF NothingNew
<1> QED
  BY <1>2, <1>5, <1>6, <1>9, <1>10 DEF GoodStore

(* A session with a fresh id joins a good store. *)
LEMMA AddGood ==
  ASSUME NEW st, GoodStore(st), NEW new \in Session,
         \A s \in st.sessions : s.id # new.id,
         new.room # NoRoomID => st.index[new.room] = NoSession,
         NEW d,
         d = [sessions |-> st.sessions \cup {new},
              index    |-> IF new.room = NoRoomID THEN st.index
                           ELSE [st.index EXCEPT ![new.room] = new.id]]
  PROVE  GoodStore(d)
<1> USE DEF GoodStore, Consistent, Store, Session, NoSession
<1>1. d.sessions = st.sessions \cup {new}
  OBVIOUS
<1>2. IsFiniteSet(d.sessions)
  BY <1>1, FS_AddElement
<1>3. /\ new.id \in Nat \ {0} /\ new.room \in RoomIDs \cup {NoRoomID}
      /\ d.index \in [RoomIDs -> Nat]
  BY DomainAssumption DEF NoRoomID
<1>8. \A x \in RoomIDs : d.index[x] = IF x = new.room THEN new.id ELSE st.index[x]
  BY DomainAssumption DEF NoRoomID
<1>4. d \in Store
  BY <1>1, <1>3
<1>5. \A s, t \in d.sessions : s.id = t.id => s = t
  BY <1>1
<1>6. \A x \in RoomIDs : d.index[x] # NoSession =>
        \E s \in d.sessions : s.id = d.index[x] /\ s.room = x
  BY <1>1, <1>3, <1>8
<1>7. ASSUME NEW s \in d.sessions, s.room # NoRoomID PROVE d.index[s.room] = s.id
  <2>1. CASE s = new
    BY <1>3, <1>8, <1>7, <2>1
  <2>2. CASE s \in st.sessions
    <3>0. s \in Session
      BY <2>2
    <3>1. s.room \in RoomIDs /\ st.index[s.room] = s.id /\ s.id # 0
      BY <1>7, <2>2, <3>0
    <3>2. s.room # new.room
      BY <1>7, <3>1
    <3>3. d.index[s.room] = st.index[s.room]
      BY ONLY <1>8, <3>1, <3>2
    <3> QED
      BY <3>1, <3>3
  <2> QED
    BY <1>1, <2>1, <2>2
<1> QED
  BY <1>2, <1>4, <1>5, <1>6, <1>7

-----------------------------------------------------------------------------
(* The critical sections of the store, each from a good store to a good one *)
(* What ForVoiceRoom makes of a store: ids up to the fresh one, and nobody  *)
(* new in the session of a room but the who in that of r.                  *)
GrantGood(st, d, r, who, id) ==
  /\ GoodStore(d)
  /\ \A s \in d.sessions : (s.id < id /\ Old(st, s)) \/ (s.id = id /\ d.index[r] = id)
  /\ \A u \in Users : Direct(d, u) \subseteq Direct(st, u)
  /\ \A s \in d.sessions : s.room # NoRoomID =>
       \/ s.room = r /\ s.members = who
       \/ \E t \in st.sessions : s.room = t.room /\ s.members = t.members

LEMMA ForVoiceRoomGood ==
  ASSUME NEW st, GoodStore(st), NEW owner \in Users, NEW r \in RoomIDs,
         NEW who \in SUBSET Users, NEW id \in Nat \ {0}, NEW now \in Nat,
         \A s \in st.sessions : s.id < id
  PROVE  GrantGood(st, ForVoiceRoom(st, owner, r, who, id, now), r, who, id)
<1> SUFFICES ASSUME NEW d, d = ForVoiceRoom(st, owner, r, who, id, now)
             PROVE  GrantGood(st, d, r, who, id)
  OBVIOUS
<1> USE DEF GrantGood
<1> DEFINE p == PruneExpired(st, now)
           new == NewSession(id, owner, r, who, now)
<1>1. GoodStore(p) /\ NothingNew(st, p, r, who)
  BY PruneGood
<1>2. /\ p.index[r] # NoSession => d = Replace(p, p.index[r], who)
      /\ p.index[r] = NoSession /\ owner \notin who => d = p
      /\ p.index[r] = NoSession /\ owner \in who =>
           d = [sessions |-> p.sessions \cup {new}, index |-> [p.index EXCEPT ![r] = id]]
  BY Zenon DEF ForVoiceRoom
<1>3. /\ new \in Session
      /\ new.id = id /\ new.room = r /\ new.members = who
  BY SessionAssumption DEF NewSession, Session
<1>4. r # NoRoomID
  BY DomainAssumption DEF NoRoomID
<1> HIDE DEF p, new
<1>5. \A s \in p.sessions : s.id < id /\ Old(st, s)
  BY <1>1 DEF NothingNew, Old
<1>6. CASE p.index[r] # NoSession
  <2>1. GoodStore(d) /\ NothingNew(p, d, r, who)
    BY <1>1, <1>2, <1>6, ReplaceGood
  <2> QED
    BY <1>1, <1>5, <2>1 DEF NothingNew, Old
<1>7. CASE p.index[r] = NoSession /\ owner \notin who
  BY <1>1, <1>2, <1>5, <1>7 DEF NothingNew
<1>8. CASE p.index[r] = NoSession /\ owner \in who
  <2>1. d = [sessions |-> p.sessions \cup {new}, index |-> [p.index EXCEPT ![r] = id]]
    BY <1>2, <1>8
  <2>2. \A s \in p.sessions : s.id # new.id
    <3>1. \A s \in p.sessions : s.id \in Nat
      BY <1>1 DEF GoodStore, Store, Session
    <3> QED
      BY <1>3, <1>5, <3>1
  <2>3. d = [sessions |-> p.sessions \cup {new},
             index |-> IF new.room = NoRoomID THEN p.index
                       ELSE [p.index EXCEPT ![new.room] = new.id]]
    BY <1>3, <1>4, <2>1
  <2>4. GoodStore(d)
    BY <1>1, <1>3, <1>8, <2>2, <2>3, AddGood
  <2>5. d.sessions = p.sessions \cup {new} /\ d.index[r] = id
    BY <1>1, <2>1 DEF GoodStore, Store
  <2>6. \A u \in Users : Direct(d, u) \subseteq Direct(p, u)
    BY <1>3, <1>4, <2>5 DEF Direct
  <2> QED
    BY <1>1, <1>3, <1>5, <2>4, <2>5, <2>6 DEF NothingNew
<1> QED
  BY <1>6, <1>7, <1>8

LEMMA SyncGood ==
  ASSUME NEW st, GoodStore(st), NEW r \in RoomIDs, NEW who \in SUBSET Users
  PROVE  GoodStore(Sync(st, r, who)) /\ NothingNew(st, Sync(st, r, who), r, who)
<1>1. CASE st.index[r] = NoSession
  <2>1. Sync(st, r, who) = st
    BY <1>1, Zenon DEF Sync
  <2> QED
    BY <2>1 DEF NothingNew, Old
<1>2. CASE st.index[r] # NoSession /\ who = {}
  <2> DEFINE gone == {s \in st.sessions : s.id = st.index[r]}
  <2>1. Sync(st, r, who) = Drop(st, gone)
    BY <1>2, Zenon DEF Sync
  <2>2. gone \in SUBSET st.sessions
    OBVIOUS
  <2> HIDE DEF gone
  <2> QED
    BY <2>1, <2>2, DropGood
<1>3. CASE st.index[r] # NoSession /\ who # {}
  <2>1. Sync(st, r, who) = Replace(st, st.index[r], who)
    BY <1>3, Zenon DEF Sync
  <2> QED
    BY <1>3, <2>1, ReplaceGood
<1> QED
  BY <1>1, <1>2, <1>3

LEMMA CloseGood ==
  ASSUME NEW st, GoodStore(st), NEW id, NEW u, NEW r, NEW who
  PROVE  GoodStore(CloseSession(st, id, u)) /\ NothingNew(st, CloseSession(st, id, u), r, who)
  BY DropGood DEF CloseSession

(* What Create makes of a store. *)
CreateKeeps(st, d, id) ==
  /\ GoodStore(d)
  /\ \A s \in d.sessions : (s.id < id /\ Old(st, s)) \/ s.id = id
  /\ \A u \in Users : Cardinality(Direct(d, u)) <= MaxPerOwner
  /\ \A s \in d.sessions : s.room # NoRoomID =>
       \E t \in st.sessions : s.room = t.room /\ s.members = t.members

(* A direct session is added below the limit and nowhere else. *)
LEMMA CreateGood ==
  ASSUME NEW st, GoodStore(st), NEW owner \in Users, NEW others \in SUBSET Users,
         NEW id \in Nat \ {0}, NEW now \in Nat,
         \A s \in st.sessions : s.id < id,
         \A u \in Users : Cardinality(Direct(st, u)) <= MaxPerOwner
  PROVE  CreateKeeps(st, Create(st, owner, others, id, now), id)
<1> SUFFICES ASSUME NEW d, d = Create(st, owner, others, id, now)
             PROVE  CreateKeeps(st, d, id)
  OBVIOUS
<1> USE DEF CreateKeeps
<1> DEFINE p == PruneExpired(st, now)
           new == NewSession(id, owner, NoRoomID, {owner} \cup others, now)
<1>1. GoodStore(p) /\ NothingNew(st, p, NoRoomID, {})
  BY PruneGood
<1>2. \/ d \in {st, p}
      \/ ~AtLimit(p, owner) /\ d = [p EXCEPT !.sessions = @ \cup {new}]
  BY Zenon DEF Create
<1>3. /\ new \in Session
      /\ new.id = id /\ new.owner = owner /\ new.room = NoRoomID
  BY SessionAssumption DEF NewSession, Session
<1> HIDE DEF p, new
<1>4. /\ \A s \in p.sessions : s.id < id /\ Old(st, s)
      /\ \A u \in Users : Direct(p, u) \subseteq Direct(st, u)
      /\ \A s \in p.sessions : s.room # NoRoomID =>
           \E t \in st.sessions : s.room = t.room /\ s.members = t.members
  BY <1>1 DEF NothingNew, Old
<1>5. ASSUME NEW u \in Users
      PROVE  /\ IsFiniteSet(Direct(p, u))
             /\ Cardinality(Direct(p, u)) \in Nat
             /\ Cardinality(Direct(p, u)) <= MaxPerOwner
  <2>1. IsFiniteSet(Direct(st, u))
    <3>1. Direct(st, u) \in SUBSET st.sessions
      BY DEF Direct
    <3> QED
      BY <3>1, FS_Subset DEF GoodStore
  <2>2. /\ IsFiniteSet(Direct(p, u))
        /\ Cardinality(Direct(p, u)) <= Cardinality(Direct(st, u))
    BY <1>4, <2>1, FS_Subset
  <2>3. Cardinality(Direct(p, u)) \in Nat /\ Cardinality(Direct(st, u)) \in Nat
    BY <2>1, <2>2, FS_CardinalityType
  <2> QED
    BY <2>2, <2>3, SessionAssumption
<1>6. CASE d \in {st, p}
  BY <1>1, <1>4, <1>5, <1>6 DEF Old
<1>7. CASE ~AtLimit(p, owner) /\ d = [p EXCEPT !.sessions = @ \cup {new}]
  <2>1. d.sessions = p.sessions \cup {new} /\ d.index = p.index
    BY <1>1, <1>7 DEF GoodStore, Store
  <2>2. d = [sessions |-> p.sessions \cup {new}, index |-> p.index]
    BY <1>1, <1>7 DEF GoodStore, Store
  <2>3. \A s \in p.sessions : s.id # new.id
    <3>1. \A s \in p.sessions : s.id \in Nat
      BY <1>1 DEF GoodStore, Store, Session
    <3> QED
      BY <1>3, <1>4, <3>1
  <2>4. GoodStore(d)
    <3>1. d = [sessions |-> p.sessions \cup {new},
               index |-> IF new.room = NoRoomID THEN p.index
                         ELSE [p.index EXCEPT ![new.room] = new.id]]
      BY <1>3, <2>2
    <3> QED
      BY <1>1, <1>3, <2>3, <3>1, AddGood
  <2>5. Cardinality(Direct(p, owner)) < MaxPerOwner
    <3>1. Direct(p, owner) \in SUBSET OwnedBy(p, owner)
      BY DEF Direct, OwnedBy
    <3>2. IsFiniteSet(OwnedBy(p, owner))
      <4>1. OwnedBy(p, owner) \in SUBSET p.sessions
        BY DEF OwnedBy
      <4> QED
        BY <1>1, <4>1, FS_Subset DEF GoodStore
    <3>3. Cardinality(Direct(p, owner)) <= Cardinality(OwnedBy(p, owner))
      BY <3>1, <3>2, FS_Subset
    <3>4. Cardinality(OwnedBy(p, owner)) \in Nat
      BY <3>2, FS_CardinalityType
    <3> QED
      BY <1>5, <1>7, <3>3, <3>4, SessionAssumption DEF AtLimit
  <2>6. ASSUME NEW u \in Users PROVE Cardinality(Direct(d, u)) <= MaxPerOwner
    <3>1. CASE u # owner
      <4>1. Direct(d, u) = Direct(p, u)
        BY <1>3, <2>1, <3>1 DEF Direct
      <4> QED
        BY <1>5, <4>1
    <3>2. CASE u = owner
      <4>1. Direct(d, u) = Direct(p, u) \cup {new}
        BY <1>3, <2>1, <3>2 DEF Direct
      <4>2. Cardinality(Direct(d, u)) <= Cardinality(Direct(p, u)) + 1
        <5>1. Cardinality(Direct(d, u)) =
                IF new \in Direct(p, u) THEN Cardinality(Direct(p, u))
                ELSE Cardinality(Direct(p, u)) + 1
          BY <1>5, <4>1, FS_AddElement
        <5> QED
          BY <1>5, <5>1
      <4>3. IsFiniteSet(Direct(d, u))
        BY <1>5, <4>1, FS_AddElement
      <4>4. Cardinality(Direct(d, u)) \in Nat
        BY <4>3, FS_CardinalityType
      <4> QED
        BY <1>5, <2>5, <3>2, <4>2, <4>4, SessionAssumption
    <3> QED
      BY <3>1, <3>2
  <2> QED
    BY <1>3, <1>4, <2>1, <2>4, <2>6
<1> QED
  BY <1>2, <1>6, <1>7

-----------------------------------------------------------------------------
(* The inductive invariant.  A list that is on its way to the session of a  *)
(* room names only users who have been there.                               *)
DomainGood ==
  /\ domain \in Domain
  /\ \A e \in domain.presence : <<e.user, e.room>> \in been

HandlerTypes ==
  /\ clock \in Nat
  /\ nextId \in Nat \ {0}
  /\ pc \in [Handlers -> {"idle", "read", "sync", "drop", "grant"}]
  /\ caller \in [Handlers -> Users \cup {NoUser}]
  /\ todo \in [Handlers -> Seq(RoomIDs)]
  /\ list \in [Handlers -> SUBSET Users]

ListsKnown ==
  \A h \in Handlers :
    /\ pc[h] # "idle" => todo[h] # << >>
    /\ pc[h] = "grant" => caller[h] \in Users
    /\ pc[h] \in {"sync", "grant"} => \A u \in list[h] : <<u, Head(todo[h])>> \in been

MembersKnown ==
  \A s \in store.sessions : s.room # NoRoomID => \A u \in s.members : <<u, s.room>> \in been

StoreGood ==
  /\ GoodStore(store)
  /\ \A s \in store.sessions : s.id < nextId
  /\ \A u \in Users : Cardinality(Direct(store, u)) <= MaxPerOwner

IndInv == DomainGood /\ HandlerTypes /\ ListsKnown /\ MembersKnown /\ StoreGood

LEMMA InitIndInv == Init => IndInv
<1> SUFFICES ASSUME Init PROVE IndInv
  OBVIOUS
<1>1. DomainGood
  <2>1. \A m \in domain.rooms : m \in Room
    <3>1. (CHOOSE v \in Users : TRUE) \in Users
      BY HandlerAssumption
    <3> QED
      BY <3>1 DEF Init, Room, LegacyGen
  <2>2. domain.presence = {} /\ domain = [rooms |-> domain.rooms, presence |-> {}]
    BY DEF Init
  <2> QED
    BY <2>1, <2>2 DEF DomainGood, Domain
<1>2. HandlerTypes /\ ListsKnown
  BY DEF Init, HandlerTypes, ListsKnown
<1>3. store.sessions = {} /\ store.index = [r \in RoomIDs |-> NoSession] /\ store \in Store
  BY DEF Init, EmptyStore, Store, NoSession
<1>4. MembersKnown
  BY <1>3 DEF MembersKnown
<1>5. GoodStore(store)
  BY <1>3, FS_EmptySet DEF GoodStore, Consistent
<1>6. \A u \in Users : Cardinality(Direct(store, u)) <= MaxPerOwner
  <2> TAKE u \in Users
  <2>1. Direct(store, u) = {}
    BY <1>3 DEF Direct
  <2> QED
    BY <2>1, FS_EmptySet, SessionAssumption
<1> QED
  BY <1>1, <1>2, <1>3, <1>4, <1>5, <1>6 DEF IndInv, StoreGood, Init

-----------------------------------------------------------------------------
(* Fewer direct sessions stay within the limit. *)
LEMMA FewerDirect ==
  ASSUME NEW st, GoodStore(st), NEW d,
         \A u \in Users : Cardinality(Direct(st, u)) <= MaxPerOwner,
         \A u \in Users : Direct(d, u) \subseteq Direct(st, u)
  PROVE  \A u \in Users : Cardinality(Direct(d, u)) <= MaxPerOwner
<1> TAKE u \in Users
<1>1. Direct(st, u) \in SUBSET st.sessions
  BY DEF Direct
<1>2. IsFiniteSet(Direct(st, u))
  BY <1>1, FS_Subset DEF GoodStore
<1>3. IsFiniteSet(Direct(d, u)) /\ Cardinality(Direct(d, u)) <= Cardinality(Direct(st, u))
  BY <1>2, FS_Subset
<1>4. Cardinality(Direct(d, u)) \in Nat /\ Cardinality(Direct(st, u)) \in Nat
  BY <1>2, <1>3, FS_CardinalityType
<1> QED
  BY <1>3, <1>4, SessionAssumption

(* Who is active in a room has been there. *)
LEMMA ActiveKnown ==
  ASSUME IndInv, NEW r
  PROVE  /\ Active(r) \in SUBSET Users
         /\ \A u \in Active(r) : <<u, r>> \in been
<1>1. Now.presence \subseteq domain.presence
  BY DEF Now, Pruned, PrunePresence, IndInv, DomainGood, Domain
<1> QED
  BY <1>1 DEF Active, Occupants, IndInv, DomainGood, Domain, Entry

(* A step of the store alone that adds nobody and no id. *)
LEMMA StoreStep ==
  ASSUME IndInv, GoodStore(store'), NEW r, NEW lst,
         NothingNew(store, store', r, lst),
         \A u \in lst : <<u, r>> \in been,
         been' = been, nextId' = nextId
  PROVE  MembersKnown' /\ StoreGood'
<1>1. \A u \in Users : Cardinality(Direct(store', u)) <= MaxPerOwner
  BY FewerDirect DEF NothingNew, IndInv, StoreGood
<1>2. \A s \in store'.sessions : s.id < nextId'
  BY DEF NothingNew, Old, IndInv, StoreGood
<1>3. MembersKnown'
  BY DEF NothingNew, IndInv, MembersKnown
<1>4. Direct(store, {})' = Direct(store', {})
  BY DEF Direct
<1>5. StoreGood'
  BY <1>1, <1>2 DEF StoreGood, Direct
<1> QED
  BY <1>3, <1>5

-----------------------------------------------------------------------------
(* Pruning keeps a domain a domain (prunePresence). *)
LEMMA PrunedTyped ==
  ASSUME NEW d \in Domain, NEW now
  PROVE  Pruned(d, now) \in Domain
BY DEF Pruned, PrunePresence, Domain

(* So does every mutation of the service. That its presence stays sound,    *)
(* too, is a theorem about the store; nothing here rests on it.             *)
LEMMA ApplyTyped ==
  ASSUME NEW d \in Domain, NEW q \in Mutation, NEW now \in Nat, NEW g \in Nat
  PROVE  Apply(d, q, now, g) \in Domain
<1>1. CASE q \in CreateRequest
  <2>1. Apply(d, q, now, g) = CreateRoom(d, q, g)
    BY <1>1 DEF Apply, CreateRequest
  <2>2. [id |-> q.room, creator |-> q.user, gen |-> g] \in Room
    BY <1>1, DomainAssumption DEF CreateRequest, Room
  <2> QED
    BY <2>1, <2>2 DEF CreateRoom, Domain
<1>2. CASE q \in DeleteRequest
  <2>1. Apply(d, q, now, g) = DeleteRoom(d, q)
    BY <1>2 DEF Apply, DeleteRequest
  <2> QED
    BY <2>1 DEF DeleteRoom, Domain
<1>3. CASE q \in PresenceRequest
  <2>1. Apply(d, q, now, g) = SetPresence(d, q, now)
    BY <1>3 DEF Apply, PresenceRequest
  <2>2. q.room # NoRoomID =>
          [room |-> q.room, user |-> q.user, exp |-> now + TTL, audio |-> q.audio] \in Entry
    BY <1>3, DomainAssumption DEF PresenceRequest, Entry
  <2> QED
    BY <2>1, <2>2 DEF SetPresence, Domain
<1> QED
  BY <1>1, <1>2, <1>3 DEF Mutation

(* Mutations of the domain, with the history of who was where. *)
LEMMA MutationStep ==
  ASSUME IndInv, NEW q \in Mutation, ~Refused(Now, q),
         domain' = Apply(Now, q, clock, LegacyGen),
         Record(domain'.presence)
  PROVE  DomainGood' /\ been \subseteq been'
<1>1. Now \in Domain
  BY PrunedTyped DEF Now, IndInv, DomainGood
<1>2. domain' \in Domain
  BY <1>1, ApplyTyped DEF IndInv, HandlerTypes, LegacyGen
<1>3. been \subseteq been' /\ \A e \in domain'.presence : <<e.user, e.room>> \in been'
  BY Zenon DEF Record
<1> QED
  BY <1>2, <1>3 DEF DomainGood

LEMMA SameStore ==
  ASSUME IndInv, UNCHANGED <<store, nextId>>, been \subseteq been'
  PROVE  MembersKnown' /\ StoreGood'
  BY DEF IndInv, MembersKnown, StoreGood, GoodStore, Consistent, Direct, Store, Session

(* The rooms a presence handler brings up to date. *)
LEMMA RoomsTyped ==
  ASSUME NEW previous \in SUBSET RoomIDs, NEW r \in RoomIDs \cup {NoRoomID}
  PROVE  RoomsToSync(previous, r) \in Seq(RoomIDs)
<1>1. ASSUME NEW S \in SUBSET RoomIDs PROVE OneOf(S) \in Seq(RoomIDs)
  <2>1. CASE S = {}
    BY <2>1 DEF OneOf
  <2>2. CASE S # {}
    <3>1. (CHOOSE x \in S : TRUE) \in RoomIDs
      BY <2>2
    <3> DEFINE c == CHOOSE x \in S : TRUE
    <3>2. OneOf(S) = <<c>>
      BY <2>2 DEF OneOf
    <3> HIDE DEF c
    <3>3. c \in RoomIDs
      BY <3>1 DEF c
    <3> QED
      BY <3>2, <3>3
  <2> QED
    BY <2>1, <2>2
<1>2. OneOf(previous) \in Seq(RoomIDs) /\ OneOf({r} \ {NoRoomID}) \in Seq(RoomIDs)
  BY <1>1
<1> QED
  BY <1>2 DEF RoomsToSync

LEMMA AnnounceStep ==
  ASSUME IndInv, NEW h \in Handlers, NEW u \in Users,
         NEW r \in RoomIDs \cup {NoRoomID}, Announce(h, u, r)
  PROVE  IndInv'
<1> DEFINE q == [kind |-> "presence", user |-> u, room |-> r, audio |-> TRUE]
           previous == {e.room : e \in EntriesOf(Now.presence, u)}
           rooms == RoomsToSync(previous, r)
<1>1. q \in Mutation
  BY DEF Mutation, PresenceRequest
<1>2. DomainGood' /\ been \subseteq been'
  BY <1>1, MutationStep DEF Announce
<1>3. rooms \in Seq(RoomIDs)
  <2>1. Now \in Domain
    BY PrunedTyped DEF Now, IndInv, DomainGood
  <2>2. previous \in SUBSET RoomIDs
    BY <2>1 DEF Domain, Entry, EntriesOf
  <2> QED
    BY <2>2, RoomsTyped
<1>4. /\ pc[h] = "idle"
      /\ Goto(h, IF rooms = << >> THEN "idle" ELSE "read", rooms)
      /\ UNCHANGED <<store, clock, nextId>>
  BY DEF Announce
<1> HIDE DEF rooms
<1>5. HandlerTypes' /\ ListsKnown'
  BY <1>2, <1>3, <1>4 DEF Goto, IndInv, HandlerTypes, ListsKnown
<1> QED
  BY <1>2, <1>4, <1>5, SameStore DEF IndInv

LEMMA DeleteStep ==
  ASSUME IndInv, NEW h \in Handlers, NEW u \in Users, NEW r \in RoomIDs, Delete(h, u, r)
  PROVE  IndInv'
<1>1. [kind |-> "delete", user |-> u, room |-> r] \in Mutation
  BY DEF Mutation, DeleteRequest
<1>2. DomainGood' /\ been \subseteq been'
  BY <1>1, MutationStep DEF Delete
<1>3. pc[h] = "idle" /\ Goto(h, "drop", <<r>>) /\ UNCHANGED <<store, clock, nextId>>
  BY DEF Delete
<1>4. HandlerTypes' /\ ListsKnown'
  BY <1>2, <1>3 DEF Goto, IndInv, HandlerTypes, ListsKnown
<1> QED
  BY <1>2, <1>3, <1>4, SameStore DEF IndInv

LEMMA CreateARoomStep ==
  ASSUME IndInv, NEW u \in Users, NEW r \in RoomIDs, CreateARoom(u, r)
  PROVE  IndInv'
<1> DEFINE q == [kind |-> "create", user |-> u, room |-> r]
<1>1. q \in Mutation /\ q \in CreateRequest
  BY DEF Mutation, CreateRequest, CreateARoom
<1>2. Now \in Domain
  BY PrunedTyped DEF Now, IndInv, DomainGood
<1>3. domain' \in Domain
  BY <1>1, <1>2, ApplyTyped DEF CreateARoom, IndInv, HandlerTypes, LegacyGen
<1>4. domain' = CreateRoom(Now, q, LegacyGen)
  BY <1>1 DEF CreateARoom, Apply
<1>5. domain'.presence = Now.presence /\ Now.presence \subseteq domain.presence
  BY <1>2, <1>4 DEF CreateRoom, Now, Pruned, PrunePresence, Domain, IndInv, DomainGood
<1>6. UNCHANGED <<store, clock, nextId, handlerVars, been>>
  BY DEF CreateARoom, historyVars
<1>7. DomainGood'
  BY <1>3, <1>5, <1>6 DEF DomainGood, IndInv
<1>8. HandlerTypes' /\ ListsKnown'
  BY <1>6 DEF handlerVars, IndInv, HandlerTypes, ListsKnown
<1> QED
  BY <1>6, <1>7, <1>8, SameStore DEF IndInv

LEMMA SameDomain ==
  ASSUME IndInv, UNCHANGED domain, been' = been
  PROVE  DomainGood'
  BY DEF IndInv, DomainGood

-----------------------------------------------------------------------------
(* The steps on the sessions. *)
LEMMA ReadStep ==
  ASSUME IndInv, NEW h \in Handlers, ReadParticipants(h) \/ (\E u \in Users, r \in RoomIDs : AskForRoomSession(h, u, r))
  PROVE  IndInv'
<1>1. UNCHANGED <<domain, store, clock, nextId, been>>
  BY DEF ReadParticipants, AskForRoomSession, historyVars
<1>2. DomainGood' /\ MembersKnown' /\ StoreGood'
  BY <1>1, SameDomain, SameStore
<1>3. CASE ReadParticipants(h)
  <2> DEFINE r == Head(todo[h])
             found == Active(r)
  <2>1. found \in SUBSET Users /\ \A u \in found : <<u, r>> \in been
    BY ActiveKnown
  <2>2. /\ pc[h] = "read"
        /\ list' = [list EXCEPT ![h] = found]
        /\ pc' = [pc EXCEPT ![h] = "sync"]
        /\ UNCHANGED <<caller, todo>>
    BY <1>3 DEF ReadParticipants
  <2> HIDE DEF found
  <2>3. HandlerTypes' /\ ListsKnown'
    BY <1>1, <2>1, <2>2 DEF IndInv, HandlerTypes, ListsKnown
  <2> QED
    BY <1>2, <2>3 DEF IndInv
<1>4. CASE \E u \in Users, r \in RoomIDs : AskForRoomSession(h, u, r)
  <2>1. PICK u \in Users, r \in RoomIDs : AskForRoomSession(h, u, r)
    BY <1>4
  <2> DEFINE found == Active(r)
  <2>2. found \in SUBSET Users /\ \A v \in found : <<v, r>> \in been
    BY ActiveKnown
  <2>3. /\ pc' = [pc EXCEPT ![h] = "grant"]
        /\ caller' = [caller EXCEPT ![h] = u]
        /\ todo' = [todo EXCEPT ![h] = <<r>>]
        /\ list' = [list EXCEPT ![h] = found]
    BY <2>1 DEF AskForRoomSession
  <2> HIDE DEF found
  <2>4. HandlerTypes' /\ ListsKnown'
    BY <1>1, <2>2, <2>3 DEF IndInv, HandlerTypes, ListsKnown
  <2> QED
    BY <1>2, <2>4 DEF IndInv
<1> QED
  BY <1>3, <1>4

LEMMA SyncStep ==
  ASSUME IndInv, NEW h \in Handlers, SyncParticipants(h)
  PROVE  IndInv'
<1> DEFINE r == Head(todo[h])
           rest == Tail(todo[h])
<1>1. todo[h] \in Seq(RoomIDs) /\ todo[h] # << >>
  BY DEF SyncParticipants, IndInv, HandlerTypes, ListsKnown
<1>2. r \in RoomIDs /\ rest \in Seq(RoomIDs)
  BY <1>1
<1>3. list[h] \in SUBSET Users /\ \A u \in list[h] : <<u, r>> \in been
  BY DEF SyncParticipants, IndInv, HandlerTypes, ListsKnown
<1>4. /\ store' = Sync(store, r, list[h])
      /\ Goto(h, IF rest = << >> THEN "idle" ELSE "read", rest)
      /\ UNCHANGED <<domain, clock, nextId, been>>
  BY DEF SyncParticipants, historyVars
<1>5. GoodStore(store') /\ NothingNew(store, store', r, list[h])
  BY <1>2, <1>3, <1>4, SyncGood DEF IndInv, StoreGood
<1> HIDE DEF r, rest
<1>6. MembersKnown' /\ StoreGood'
  BY <1>3, <1>4, <1>5, StoreStep
<1>7. HandlerTypes' /\ ListsKnown'
  BY <1>2, <1>4 DEF Goto, IndInv, HandlerTypes, ListsKnown
<1> QED
  BY <1>4, <1>6, <1>7, SameDomain DEF IndInv

LEMMA DropRoomStep ==
  ASSUME IndInv, NEW h \in Handlers, DropRoomSession(h)
  PROVE  IndInv'
<1> DEFINE r == Head(todo[h])
<1>1. todo[h] \in Seq(RoomIDs) /\ todo[h] # << >>
  BY DEF DropRoomSession, IndInv, HandlerTypes, ListsKnown
<1>2. r \in RoomIDs
  BY <1>1
<1>3. /\ store' = Sync(store, r, {})
      /\ Goto(h, "idle", << >>)
      /\ UNCHANGED <<domain, clock, nextId, been>>
  BY DEF DropRoomSession, historyVars
<1>4. GoodStore(store') /\ NothingNew(store, store', r, {})
  BY <1>2, <1>3, SyncGood DEF IndInv, StoreGood
<1> HIDE DEF r
<1>5. MembersKnown' /\ StoreGood'
  BY <1>3, <1>4, StoreStep
<1>6. HandlerTypes' /\ ListsKnown'
  BY <1>3 DEF Goto, IndInv, HandlerTypes, ListsKnown
<1> QED
  BY <1>3, <1>5, <1>6, SameDomain DEF IndInv

LEMMA GrantStep ==
  ASSUME IndInv, NEW h \in Handlers, GrantRoomSession(h)
  PROVE  IndInv'
<1> DEFINE r == Head(todo[h])
           u == caller[h]
<1>1. todo[h] \in Seq(RoomIDs) /\ todo[h] # << >>
  BY DEF GrantRoomSession, IndInv, HandlerTypes, ListsKnown
<1>2. /\ r \in RoomIDs /\ u \in Users /\ list[h] \in SUBSET Users
      /\ \A v \in list[h] : <<v, r>> \in been
  BY <1>1 DEF GrantRoomSession, IndInv, HandlerTypes, ListsKnown
<1>3. /\ store' = ForVoiceRoom(store, u, r, list[h], nextId, clock)
      /\ nextId' = IF store'.index[r] = nextId THEN nextId + 1 ELSE nextId
      /\ Goto(h, "idle", << >>)
      /\ UNCHANGED <<domain, clock, been>>
  BY DEF GrantRoomSession
<1> HIDE DEF r, u
<1>4. GrantGood(store, store', r, list[h], nextId)
  <2>1. /\ GoodStore(store) /\ nextId \in Nat \ {0} /\ clock \in Nat
        /\ \A s \in store.sessions : s.id < nextId
    BY DEF IndInv, StoreGood, HandlerTypes
  <2> QED
    BY <1>2, <1>3, <2>1, ForVoiceRoomGood
<1> USE DEF GrantGood
<1>5. MembersKnown'
  BY <1>2, <1>3, <1>4 DEF MembersKnown, IndInv
<1>6. StoreGood'
  <2>1. nextId' \in Nat /\ \A s \in store'.sessions : s.id < nextId'
    <3>1. \A s \in store'.sessions : s.id \in Nat
      BY <1>4 DEF GoodStore, Store, Session
    <3> QED
      BY <1>3, <1>4, <3>1 DEF IndInv, HandlerTypes
  <2>2. \A v \in Users : Cardinality(Direct(store', v)) <= MaxPerOwner
    BY <1>4, FewerDirect DEF IndInv, StoreGood
  <2> QED
    BY <1>4, <2>1, <2>2 DEF StoreGood, Direct
<1>7. HandlerTypes' /\ ListsKnown'
  BY <1>2, <1>3 DEF Goto, IndInv, HandlerTypes, ListsKnown
<1> QED
  BY <1>3, <1>5, <1>6, <1>7, SameDomain DEF IndInv

LEMMA CreateDirectStep ==
  ASSUME IndInv, NEW u \in Users, NEW others \in SUBSET Users, CreateDirect(u, others)
  PROVE  IndInv'
<1>1. /\ store' = Create(store, u, others, nextId, clock)
      /\ nextId' = IF \E s \in store'.sessions : s.id = nextId THEN nextId + 1 ELSE nextId
      /\ UNCHANGED <<domain, clock, handlerVars, been>>
  BY DEF CreateDirect, historyVars
<1>2. CreateKeeps(store, store', nextId)
  <2>1. /\ GoodStore(store) /\ nextId \in Nat \ {0} /\ clock \in Nat
        /\ \A s \in store.sessions : s.id < nextId
        /\ \A v \in Users : Cardinality(Direct(store, v)) <= MaxPerOwner
    BY DEF IndInv, StoreGood, HandlerTypes
  <2> QED
    BY <1>1, <2>1, CreateGood
<1> USE DEF CreateKeeps
<1>3. MembersKnown'
  BY <1>1, <1>2 DEF MembersKnown, IndInv
<1>4. StoreGood'
  <2>1. \A s \in store'.sessions : s.id < nextId'
    <3>1. \A s \in store'.sessions : s.id \in Nat
      BY <1>2 DEF GoodStore, Store, Session
    <3> QED
      BY <1>1, <1>2, <3>1 DEF IndInv, HandlerTypes
  <2> QED
    BY <1>2, <2>1 DEF StoreGood, Direct
<1>5. HandlerTypes' /\ ListsKnown'
  BY <1>1 DEF handlerVars, IndInv, HandlerTypes, ListsKnown
<1> QED
  BY <1>1, <1>3, <1>4, <1>5, SameDomain DEF IndInv

LEMMA PruneStep ==
  ASSUME IndInv, Authorize \/ (\E u \in Users, id \in 1..MaxIds : Close(u, id))
  PROVE  IndInv'
<1>1. UNCHANGED <<domain, clock, nextId, handlerVars, been>>
  BY DEF Authorize, Close, historyVars
<1>2. GoodStore(store') /\ NothingNew(store, store', NoRoomID, {})
  BY PruneGood, CloseGood DEF Authorize, Close, IndInv, StoreGood
<1>3. MembersKnown' /\ StoreGood'
  BY <1>1, <1>2, StoreStep
<1>4. HandlerTypes' /\ ListsKnown'
  BY <1>1 DEF handlerVars, IndInv, HandlerTypes, ListsKnown
<1> QED
  BY <1>1, <1>3, <1>4, SameDomain DEF IndInv

LEMMA IdleStep ==
  ASSUME IndInv, UNCHANGED vars \/ Tick
  PROVE  IndInv'
<1>1. UNCHANGED <<domain, store, nextId, handlerVars, been>> /\ clock' \in Nat
  BY DEF vars, Tick, historyVars, IndInv, HandlerTypes
<1>2. HandlerTypes' /\ ListsKnown'
  BY <1>1 DEF handlerVars, IndInv, HandlerTypes, ListsKnown
<1> QED
  BY <1>1, <1>2, SameDomain, SameStore DEF IndInv

LEMMA NextIndInv == IndInv /\ [Next]_vars => IndInv'
  BY AnnounceStep, DeleteStep, CreateARoomStep, ReadStep, SyncStep, DropRoomStep,
     GrantStep, CreateDirectStep, PruneStep, IdleStep DEF Next, Handle

LEMMA Inductive == Spec => []IndInv
  BY InitIndInv, NextIndInv, PTL DEF Spec

-----------------------------------------------------------------------------
(* A room has at most one session, which its index entry names, however     *)
(* requests interleave and sessions expire (signal_sessions.go).            *)
THEOREM IndexAgrees == Spec => []IndexSound
<1>1. IndInv => IndexSound
  BY DEF IndInv, StoreGood, GoodStore, IndexSound
<1> QED
  BY <1>1, Inductive, PTL

(* Lists of participants may be stored late and out of order, but nobody    *)
(* gets into the session of a room without having been there.               *)
THEOREM OnlyOccupantsTakePart == Spec => []NoStrangers
<1>1. IndInv => NoStrangers
  BY DEF IndInv, MembersKnown, NoStrangers, RoomSessions
<1> QED
  BY <1>1, Inductive, PTL

(* No user ever has more than MaxPerOwner sessions for direct calls         *)
(* (create in signal_sessions.go).                                          *)
THEOREM DirectCallsStayLimited == Spec => []DirectCallsLimited
<1>1. IndInv => DirectCallsLimited
  BY DEF IndInv, StoreGood, Direct, DirectCallsLimited
<1> QED
  BY <1>1, Inductive, PTL
-----------------------------------------------------------------------------
(* The type invariant: what the inductive invariant leaves to say of the    *)
(* clients' hubs and of the history.                                        *)
Hub == [room : RoomIDs \cup {NoRoomID}, session : Nat]

Histories == client \in [Users -> Hub] /\ been \subseteq Users \X RoomIDs

(* A mutation of the domain records users in rooms. *)
LEMMA RecordTyped ==
  ASSUME IndInv', Histories, Record(domain'.presence)
  PROVE  been' \subseteq Users \X RoomIDs
<1>1. \A e \in domain'.presence : e.user \in Users /\ e.room \in RoomIDs
  BY DEF IndInv, DomainGood, Domain, Entry
<1> QED
  BY <1>1 DEF Record, Histories

LEMMA HistoriesAnnounce ==
  ASSUME IndInv', Histories, NEW h \in Handlers, NEW u \in Users,
         NEW r \in RoomIDs \cup {NoRoomID}, Announce(h, u, r)
  PROVE  Histories'
<1>1. been' \subseteq Users \X RoomIDs
  BY RecordTyped DEF Announce
<1>2. client' = [client EXCEPT ![u] =
                   IF r = client[u].room THEN client[u] ELSE [room |-> r, session |-> NoSession]]
  BY DEF Announce
<1>3. client' \in [Users -> Hub]
  BY <1>2 DEF Histories, Hub, NoSession
<1> QED
  BY <1>1, <1>3 DEF Histories

LEMMA HistoriesDelete ==
  ASSUME IndInv', Histories, NEW h \in Handlers, NEW u \in Users, NEW r \in RoomIDs,
         Delete(h, u, r)
  PROVE  Histories'
<1>1. been' \subseteq Users \X RoomIDs
  BY RecordTyped DEF Delete
<1>2. client' = [v \in Users |-> IF v \in Active(r) THEN NoHub ELSE client[v]]
  BY DEF Delete
<1>3. client' \in [Users -> Hub]
  BY <1>2 DEF Histories, Hub, NoHub, NoSession
<1> QED
  BY <1>1, <1>3 DEF Histories

LEMMA HistoriesGrant ==
  ASSUME IndInv, IndInv', Histories, NEW h \in Handlers, GrantRoomSession(h)
  PROVE  Histories'
<1>1. PICK r, u : r = Head(todo[h]) /\ u = caller[h]
  OBVIOUS
<1>2. todo[h] \in Seq(RoomIDs) /\ todo[h] # << >>
  BY DEF GrantRoomSession, IndInv, HandlerTypes, ListsKnown
<1>3. r \in RoomIDs /\ u \in Users
  BY <1>1, <1>2 DEF GrantRoomSession, IndInv, ListsKnown
<1>4. PICK s : s = store'.index[r]
  OBVIOUS
<1>5. s \in Nat
  BY <1>3, <1>4 DEF IndInv, StoreGood, GoodStore, Store
<1>6. /\ client' = [client EXCEPT ![u] =
                      IF r = client[u].room THEN [client[u] EXCEPT !.session = s] ELSE client[u]]
      /\ been' = been
  BY <1>1, <1>4 DEF GrantRoomSession
<1>7. [client[u] EXCEPT !.session = s] \in Hub
  BY <1>3, <1>5 DEF Histories, Hub
<1> QED
  BY <1>3, <1>6, <1>7 DEF Histories

LEMMA NextHistories == IndInv /\ IndInv' /\ Histories /\ [Next]_vars => Histories'
<1> SUFFICES ASSUME IndInv, IndInv', Histories, [Next]_vars PROVE Histories'
  OBVIOUS
<1>1. CASE \E h \in Handlers :
             \/ GrantRoomSession(h)
             \/ \E u \in Users, r \in RoomIDs \cup {NoRoomID} : Announce(h, u, r)
             \/ \E u \in Users, r \in RoomIDs : Delete(h, u, r)
  BY <1>1, HistoriesAnnounce, HistoriesDelete, HistoriesGrant
<1>2. CASE UNCHANGED historyVars
  BY <1>2 DEF historyVars, Histories
<1> QED
  BY <1>1, <1>2
     DEF Next, Handle, vars, ReadParticipants, SyncParticipants, DropRoomSession,
         AskForRoomSession, CreateDirect, Close, CreateARoom, Authorize, Tick

(* The session of a client's hub was given to it, for the room the client   *)
(* is in.                                                                   *)
HubsTrue ==
  \A u \in Users : client[u].session # NoSession =>
    /\ client[u].session < nextId
    /\ \A s \in store.sessions : s.id = client[u].session => s.room = client[u].room

(* Hubs that stay as they are stay true, whatever sessions go or are made   *)
(* under the next id.                                                       *)
SameHubs(after) ==
  \A u \in Users : after[u].session # NoSession => after[u] = client[u]

LEMMA HubsStayTrue ==
  ASSUME IndInv, HubsTrue, Histories, SameHubs(client'),
         nextId' \in {nextId, nextId + 1},
         \A s \in store'.sessions : s.id = nextId \/ Old(store, s)
  PROVE  HubsTrue'
<1> SUFFICES ASSUME NEW u \in Users, client'[u].session # NoSession
             PROVE  /\ client'[u].session < nextId'
                    /\ \A s \in store'.sessions :
                         s.id = client'[u].session => s.room = client'[u].room
  BY DEF HubsTrue
<1>1. client'[u] = client[u] /\ client[u].session # NoSession /\ client[u].session < nextId
  BY DEF SameHubs, HubsTrue
<1>2. client[u].session \in Nat /\ nextId \in Nat
  BY DEF Histories, Hub, IndInv, HandlerTypes
<1>3. \A s \in store'.sessions : s.id = client[u].session => s.room = client[u].room
  BY <1>1, <1>2 DEF HubsTrue, Old
<1> QED
  BY <1>1, <1>2, <1>3

LEMMA HubsGrant ==
  ASSUME IndInv, IndInv', HubsTrue, Histories, NEW h \in Handlers, GrantRoomSession(h)
  PROVE  HubsTrue'
<1>1. PICK r, u : r = Head(todo[h]) /\ u = caller[h]
  OBVIOUS
<1>2. todo[h] \in Seq(RoomIDs) /\ todo[h] # << >>
  BY DEF GrantRoomSession, IndInv, HandlerTypes, ListsKnown
<1>3. r \in RoomIDs /\ u \in Users /\ list[h] \in SUBSET Users
  BY <1>1, <1>2 DEF GrantRoomSession, IndInv, HandlerTypes, ListsKnown
<1>4. PICK s : s = store'.index[r]
  OBVIOUS
<1>5. /\ store' = ForVoiceRoom(store, u, r, list[h], nextId, clock)
      /\ nextId' = IF s = nextId THEN nextId + 1 ELSE nextId
      /\ client' = [client EXCEPT ![u] =
                      IF r = client[u].room THEN [client[u] EXCEPT !.session = s] ELSE client[u]]
  BY <1>1, <1>4 DEF GrantRoomSession
<1>6. GrantGood(store, store', r, list[h], nextId)
  <2>1. /\ GoodStore(store) /\ nextId \in Nat \ {0} /\ clock \in Nat
        /\ \A x \in store.sessions : x.id < nextId
    BY DEF IndInv, StoreGood, HandlerTypes
  <2> QED
    BY <1>3, <1>5, <2>1, ForVoiceRoomGood
<1>7. \A x \in store'.sessions : x.id = nextId \/ Old(store, x)
  BY <1>6 DEF GrantGood
<1>8. CASE r # client[u].room
  <2>1. SameHubs(client')
    BY <1>3, <1>5, <1>8 DEF SameHubs, Histories
  <2> QED
    BY <1>5, <1>7, <2>1, HubsStayTrue
<1>9. CASE r = client[u].room
  <2>1. /\ client'[u].session = s /\ client'[u].room = r
        /\ \A v \in Users \ {u} : client'[v] = client[v]
    BY <1>3, <1>5, <1>9 DEF Histories, Hub
  <2>2. Consistent(store') /\ store' \in Store
    BY <1>6 DEF GrantGood, GoodStore
  <2>3. ASSUME s # NoSession
        PROVE  s < nextId' /\ \A x \in store'.sessions : x.id = s => x.room = r
    <3>1. PICK y \in store'.sessions : y.id = s /\ y.room = r
      BY <1>3, <1>4, <2>2, <2>3 DEF Consistent
    <3>2. \A x \in store'.sessions : x.id = s => x.room = r
      BY <2>2, <3>1 DEF Consistent
    <3>3. y.id < nextId'
      BY <3>1 DEF IndInv, StoreGood
    <3> QED
      BY <3>1, <3>2, <3>3
  <2>4. ASSUME NEW v \in Users \ {u}, client'[v].session # NoSession
        PROVE  /\ client'[v].session < nextId'
               /\ \A x \in store'.sessions : x.id = client'[v].session => x.room = client'[v].room
    <3>1. client'[v] = client[v] /\ client[v].session < nextId
      BY <2>1, <2>4 DEF HubsTrue
    <3>2. client[v].session \in Nat /\ nextId \in Nat
      BY DEF Histories, Hub, IndInv, HandlerTypes
    <3>3. \A x \in store'.sessions : x.id = client[v].session => x.room = client[v].room
      BY <1>7, <2>4, <3>1, <3>2 DEF HubsTrue, Old
    <3> QED
      BY <1>5, <3>1, <3>2, <3>3
  <2> QED
    BY <2>1, <2>3, <2>4 DEF HubsTrue
<1> QED
  BY <1>8, <1>9

LEMMA HubsDirect ==
  ASSUME IndInv, HubsTrue, Histories, NEW u \in Users, NEW others \in SUBSET Users,
         CreateDirect(u, others)
  PROVE  HubsTrue'
<1>1. /\ store' = Create(store, u, others, nextId, clock)
      /\ nextId' \in {nextId, nextId + 1} /\ client' = client
  BY DEF CreateDirect, historyVars
<1>2. CreateKeeps(store, store', nextId)
  <2>1. /\ GoodStore(store) /\ nextId \in Nat \ {0} /\ clock \in Nat
        /\ \A s \in store.sessions : s.id < nextId
        /\ \A v \in Users : Cardinality(Direct(store, v)) <= MaxPerOwner
    BY DEF IndInv, StoreGood, HandlerTypes
  <2> QED
    BY <1>1, <2>1, CreateGood
<1> QED
  BY <1>1, <1>2, HubsStayTrue DEF CreateKeeps, SameHubs

(* Steps that make no session. *)
LEMMA HubsOlder ==
  ASSUME IndInv, HubsTrue, Histories, nextId' = nextId, SameHubs(client'),
         store' = store \/ \E r, who : NothingNew(store, store', r, who)
  PROVE  HubsTrue'
<1>1. \A s \in store'.sessions : Old(store, s)
  BY DEF NothingNew, Old
<1> QED
  BY <1>1, HubsStayTrue

LEMMA HubsClients ==
  ASSUME IndInv, HubsTrue, Histories, NEW h \in Handlers, NEW u \in Users,
         \/ \E r \in RoomIDs \cup {NoRoomID} : Announce(h, u, r)
         \/ \E r \in RoomIDs : Delete(h, u, r)
  PROVE  HubsTrue'
<1>1. store' = store /\ nextId' = nextId
  BY DEF Announce, Delete
<1>2. SameHubs(client')
  <2>1. CASE \E r \in RoomIDs \cup {NoRoomID} : Announce(h, u, r)
    <3>1. PICK r : client' = [client EXCEPT ![u] =
                     IF r = client[u].room THEN client[u]
                     ELSE [room |-> r, session |-> NoSession]]
      BY <2>1 DEF Announce
    <3> QED
      BY <3>1 DEF SameHubs, Histories
  <2>2. CASE \E r \in RoomIDs : Delete(h, u, r)
    BY <2>2 DEF Delete, SameHubs, NoHub
  <2> QED
    BY <2>1, <2>2
<1> QED
  BY <1>1, <1>2, HubsOlder

LEMMA HubsStore ==
  ASSUME IndInv, HubsTrue, Histories,
         \/ \E h \in Handlers : SyncParticipants(h) \/ DropRoomSession(h)
         \/ Authorize
         \/ \E u \in Users, id \in 1..MaxIds : Close(u, id)
  PROVE  HubsTrue'
<1>1. nextId' = nextId /\ SameHubs(client')
  BY DEF SyncParticipants, DropRoomSession, Authorize, Close, historyVars, SameHubs
<1>2. GoodStore(store)
  BY DEF IndInv, StoreGood
<1>3. \E r, who : NothingNew(store, store', r, who)
  <2>1. CASE \E h \in Handlers : SyncParticipants(h) \/ DropRoomSession(h)
    <3>1. PICK h \in Handlers : SyncParticipants(h) \/ DropRoomSession(h)
      BY <2>1
    <3>2. todo[h] \in Seq(RoomIDs) /\ todo[h] # << >> /\ list[h] \in SUBSET Users
      BY <3>1 DEF SyncParticipants, DropRoomSession, IndInv, HandlerTypes, ListsKnown
    <3>3. PICK r \in RoomIDs : r = Head(todo[h])
      BY <3>2
    <3>4. PICK who \in SUBSET Users : store' = Sync(store, r, who)
      BY <3>1, <3>2, <3>3 DEF SyncParticipants, DropRoomSession
    <3> QED
      BY <1>2, <3>4, SyncGood
  <2>2. CASE Authorize
    BY <1>2, <2>2, PruneGood DEF Authorize
  <2>3. CASE \E u \in Users, id \in 1..MaxIds : Close(u, id)
    BY <1>2, <2>3, CloseGood DEF Close
  <2> QED
    BY <2>1, <2>2, <2>3
<1> QED
  BY <1>1, <1>3, HubsOlder

LEMMA NextHubsTrue == IndInv /\ IndInv' /\ Histories /\ HubsTrue /\ [Next]_vars => HubsTrue'
<1> SUFFICES ASSUME IndInv, IndInv', Histories, HubsTrue, [Next]_vars PROVE HubsTrue'
  OBVIOUS
<1>1. CASE UNCHANGED <<store, nextId, client>>
  BY <1>1 DEF HubsTrue
<1> QED
  BY <1>1, HubsGrant, HubsDirect, HubsClients, HubsStore
     DEF Next, Handle, vars, historyVars, ReadParticipants, AskForRoomSession, CreateARoom, Tick

(* Users whose clients are in one room and whose hubs' sessions both live   *)
(* are on the same session: that a room splits (RoomShared) takes a session *)
(* that has gone, whatever lists were stored late (forVoiceRoom in          *)
(* signal_sessions.go).                                                     *)
Lives(id) == \E s \in store.sessions : s.id = id
LivingShared ==
  \A u, v \in Users :
    client[u].room = client[v].room /\ client[u].room # NoRoomID
      /\ Lives(client[u].session) /\ Lives(client[v].session)
      => client[u].session = client[v].session

THEOREM OneLivingSession == Spec => []LivingShared
<1>1. Init => Histories /\ HubsTrue
  BY DEF Init, Histories, Hub, NoHub, NoSession, HubsTrue
<1>2. Spec => []HubsTrue
  BY <1>1, Inductive, NextHistories, NextHubsTrue, PTL DEF Spec
<1>3. Spec => []Histories
  BY <1>1, Inductive, NextHistories, PTL DEF Spec
<1>4. IndInv /\ Histories /\ HubsTrue => LivingShared
  <2> SUFFICES ASSUME IndInv, Histories, HubsTrue, NEW u \in Users, NEW v \in Users,
                      client[u].room = client[v].room, client[u].room # NoRoomID,
                      Lives(client[u].session), Lives(client[v].session)
               PROVE  client[u].session = client[v].session
    BY DEF LivingShared
  <2>1. PICK s \in store.sessions : s.id = client[u].session
    BY DEF Lives
  <2>2. PICK t \in store.sessions : t.id = client[v].session
    BY DEF Lives
  <2>3. \A x \in store.sessions : x.id # NoSession
    BY DEF IndInv, StoreGood, GoodStore, Store, Session, NoSession
  <2>4. s.room = client[u].room /\ t.room = client[u].room
    BY <2>1, <2>2, <2>3 DEF HubsTrue
  <2>5. s.id = store.index[client[u].room] /\ t.id = store.index[client[u].room]
    BY <2>4 DEF IndInv, StoreGood, GoodStore, Consistent
  <2> QED
    BY <2>1, <2>2, <2>5
<1> QED
  BY <1>2, <1>3, <1>4, Inductive, PTL

(* Every state is of its type, the clients' hubs and the history included.  *)
THEOREM TypeCorrect == Spec => []TypeOK
<1>1. Init => Histories
  BY DEF Init, Histories, Hub, NoHub, NoSession
<1>2. Spec => []Histories
  BY <1>1, Inductive, NextHistories, PTL DEF Spec
<1>3. IndInv /\ Histories => TypeOK
  BY DEF IndInv, DomainGood, HandlerTypes, StoreGood, GoodStore, Histories, Hub, TypeOK
<1> QED
  BY <1>2, <1>3, Inductive, PTL
=============================================================================
