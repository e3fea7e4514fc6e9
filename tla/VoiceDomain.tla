----------------------------- MODULE VoiceDomain -----------------------------
(***************************************************************************)
(* The voice domain as a value: the room directory and the presence map    *)
(* that server/voice_domain_store.go keeps together in one key-value entry, *)
(* and the operations of server/voice_room_service.go on that value.        *)
(* Nothing here is a state machine; VoiceDomainStore and VoiceDirectory     *)
(* give the operations their steps.                                         *)
(*                                                                         *)
(* A domain is [rooms, presence]: a set of rooms [id, creator, gen] and a   *)
(* set of presence entries [room, user, exp, audio].  The list order of the *)
(* rooms is presentation (sortVoiceRooms) and is left out, as are names and *)
(* creation times: a generation alone tells two rooms of one id apart.      *)
(***************************************************************************)
EXTENDS Integers, FiniteSets

CONSTANTS
  Users,       \* user ids
  Admins,      \* users with PermissionManageSystem
  RoomIDs,     \* room ids: positive numbers, in the order of sort.Strings
  TTL,         \* voicePresenceTTLMillis, in ticks of the clock
  MaxRooms,    \* maxVoiceRooms
  MaxPerRoom   \* maxVoicePresencePerRoom

ASSUME DomainAssumption ==
  /\ Admins \subseteq Users
  /\ RoomIDs \subseteq Nat \ {0}
  /\ TTL \in Nat \ {0}
  /\ MaxRooms \in Nat \ {0}
  /\ MaxPerRoom \in Nat \ {0}

NoRoomID == 0           \* the empty roomId: in no room
LegacyGen == 0          \* rooms of earlier builds carry no generation

Room == [id : RoomIDs, creator : Users, gen : Nat]
Entry == [room : RoomIDs, user : Users, exp : Nat, audio : BOOLEAN]
Domain == [rooms : SUBSET Room, presence : SUBSET Entry]

IdsOf(rooms) == {m.id : m \in rooms}
Occupants(presence, r) == {e.user : e \in {f \in presence : f.room = r}}
EntriesOf(presence, u) == {e \in presence : e.user = u}

-----------------------------------------------------------------------------
(* A heartbeat counts until the clock reaches its expiry. *)
PrunePresence(presence, now) == {e \in presence : e.exp > now}

Pruned(d, now) == [d EXCEPT !.presence = PrunePresence(@, now)]

(* Broken variant of NormalizeLegacy: a tie keeps both entries. *)
NormalizeLegacyKeepsTies(d, now) ==
  LET kept == {e \in PrunePresence(d.presence, now) : e.room \in IdsOf(d.rooms)}
  IN  [d EXCEPT !.presence =
         {e \in kept : \A f \in EntriesOf(kept, e.user) : f.exp <= e.exp}]

(* What an import keeps of the values of earlier builds: live entries of    *)
(* known rooms, and of each user only the freshest, the first room in the   *)
(* sorted order winning a tie.                                              *)
NormalizeLegacy(d, now) ==
  LET kept == {e \in PrunePresence(d.presence, now) : e.room \in IdsOf(d.rooms)}
      Wins(e, f) == f.exp < e.exp \/ (f.exp = e.exp /\ e.room <= f.room)
  IN  [d EXCEPT !.presence =
         {e \in kept : \A f \in EntriesOf(kept, e.user) : Wins(e, f)}]

-----------------------------------------------------------------------------
(* The requests a handler passes to the service.  Only administrators get   *)
(* as far as creating a room.                                               *)
CreateRequest   == [kind : {"create"}, user : Admins, room : RoomIDs]
DeleteRequest   == [kind : {"delete"}, user : Users, room : RoomIDs]
PresenceRequest == [kind : {"presence"}, user : Users,
                    room : RoomIDs \cup {NoRoomID}, audio : BOOLEAN]
ListRequest     == [kind : {"list"}]
Mutation == CreateRequest \cup DeleteRequest \cup PresenceRequest
Request  == Mutation \cup ListRequest

(* Broken variants: no search for the id, presence of a deleted room left   *)
(* behind, no early return for the empty room id.                           *)
DeleteRoomOnly(d, q) == [d EXCEPT !.rooms = {m \in @ : m.id # q.room}]

(* createRoom leaves an existing id alone, whoever created it. *)
CreateRoom(d, q, g) ==
  IF q.room \in IdsOf(d.rooms) THEN d
  ELSE [d EXCEPT !.rooms = @ \cup {[id |-> q.room, creator |-> q.user, gen |-> g]}]

DeleteRoom(d, q) ==
  [rooms    |-> {m \in d.rooms : m.id # q.room},
   presence |-> {e \in d.presence : e.room # q.room}]

(* setPresence moves the user: out of every other room, into q.room if any. *)
SetPresence(d, q, now) ==
  [d EXCEPT !.presence =
     {e \in @ : e.user # q.user} \cup
     {e \in {[room |-> q.room, user |-> q.user, exp |-> now + TTL, audio |-> q.audio]} :
        q.room # NoRoomID}]

Apply(d, q, now, g) ==
  CASE q.kind = "create"   -> CreateRoom(d, q, g)
    [] q.kind = "delete"   -> DeleteRoom(d, q)
    [] q.kind = "presence" -> SetPresence(d, q, now)

-----------------------------------------------------------------------------
(* The errors the service itself returns, read off a pruned domain. *)
DirectoryFull(d, q) ==
  /\ q.kind = "create"
  /\ q.room \notin IdsOf(d.rooms)
  /\ Cardinality(d.rooms) >= MaxRooms

DeleteForbidden(d, q) ==
  /\ q.kind = "delete"
  /\ q.user \notin Admins
  /\ \E m \in d.rooms : m.id = q.room /\ m.creator # q.user

RoomNotFound(d, q) ==
  /\ q.kind = "presence"
  /\ q.room # NoRoomID
  /\ q.room \notin IdsOf(d.rooms)

RoomFull(d, q) ==
  /\ q.kind = "presence"
  /\ q.room \in IdsOf(d.rooms)
  /\ q.user \notin Occupants(d.presence, q.room)
  /\ Cardinality(Occupants(d.presence, q.room)) >= MaxPerRoom

Refused(d, q) == \/ DirectoryFull(d, q) \/ DeleteForbidden(d, q)
                 \/ RoomNotFound(d, q)  \/ RoomFull(d, q)

(* What a successful operation reports to its handler: who a deletion sent  *)
(* away, where (and with which microphone state) a mover was before.  The   *)
(* handlers turn it into events and into updates of the signal sessions.    *)
Answer(d, q) ==
  CASE q.kind = "create"   -> [kind |-> "created"]
    [] q.kind = "delete"   -> [kind |-> "deleted",
                               departed |-> Occupants(d.presence, q.room)]
    [] q.kind = "presence" -> [kind |-> "moved",
                               previous |-> {<<e.room, e.audio>> : e \in EntriesOf(d.presence, q.user)}]

-----------------------------------------------------------------------------
(* The invariants of one domain value. *)
PresenceInKnownRooms(d) == \A e \in d.presence : e.room \in IdsOf(d.rooms)
OneRoomPerUser(d) == \A e, f \in d.presence : e.user = f.user => e = f
UniqueRoomIds(d) == \A m, n \in d.rooms : m.id = n.id => m = n
Sound(d) == PresenceInKnownRooms(d) /\ OneRoomPerUser(d) /\ UniqueRoomIds(d)

(* Values of earlier builds: a list of distinct rooms and a map from room   *)
(* and user to an entry, which may name lost rooms and a user twice.        *)
LegacyWellFormed(d) ==
  /\ d \in Domain
  /\ UniqueRoomIds(d)
  /\ \A m \in d.rooms : m.gen = LegacyGen
  /\ \A e, f \in d.presence : e.room = f.room /\ e.user = f.user => e = f
=============================================================================
