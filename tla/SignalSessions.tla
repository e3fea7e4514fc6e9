---------------------------- MODULE SignalSessions ----------------------------
(***************************************************************************)
(* How the signal sessions of a voice room follow its presence, on one      *)
(* node.  The presence and delete handlers change the domain under          *)
(* voiceDomainMu and bring the sessions up to date after unlocking: they    *)
(* read who is in the room, then hand that list to the session store        *)
(* (server/voice_presence.go, voice_rooms.go).  Creating a session reads    *)
(* the list first, too (server/signal_handlers.go).  Any of it can run      *)
(* between the two steps of another handler.                                *)
(*                                                                         *)
(* The mutation of the domain is one step here: VoiceDomainStore shows its  *)
(* loop to implement that (VoiceDirectory).                                 *)
(***************************************************************************)
EXTENDS SignalSessionStore, Sequences

CONSTANTS
  Handlers,  \* goroutines that serve requests
  NoUser,    \* of a handler nobody asked for a session
  Closers,   \* users whose client ends sessions it owns (the webapp's never does)
  MaxIds,    \* bound on the sessions ever made
  MaxClock   \* bound on the clock

ASSUME HandlerAssumption ==
  /\ Users # {} /\ NoUser \notin Users
  /\ Closers \subseteq Users
  /\ MaxIds \in Nat
  /\ MaxClock \in Nat

VARIABLES
  domain,  \* rooms and presence, in the key-value store
  store,   \* the signal sessions of the node
  clock,
  nextId,  \* the next fresh session id
  pc,      \* control state of a handler
  caller,  \* who asked it for a session
  todo,    \* rooms whose session it has still to bring up to date
  list,    \* the participants it has read
  client,  \* the room a user's client is in, and the session of its hub
  been     \* history: who has ever been in which room

handlerVars == <<pc, caller, todo, list>>
historyVars == <<client, been>>
vars == <<domain, store, clock, nextId, handlerVars, historyVars>>

NoHub == [room |-> NoRoomID, session |-> NoSession]

Init ==
  /\ domain = [rooms |-> {[id |-> r, creator |-> CHOOSE v \in Users : TRUE,
                            gen |-> LegacyGen] : r \in RoomIDs},
               presence |-> {}]
  /\ store = EmptyStore
  /\ clock = 0
  /\ nextId = 1
  /\ pc = [h \in Handlers |-> "idle"]
  /\ caller = [h \in Handlers |-> NoUser]
  /\ todo = [h \in Handlers |-> << >>]
  /\ list = [h \in Handlers |-> {}]
  /\ client = [u \in Users |-> NoHub]
  /\ been = {}

Now == Pruned(domain, clock)  \* the domain without expired entries
Active(r) == Occupants(Now.presence, r)
Membership == {<<e.user, e.room>> : e \in Now.presence}

Goto(h, label, rooms) ==
  /\ pc' = [pc EXCEPT ![h] = label]
  /\ caller' = [caller EXCEPT ![h] = NoUser]
  /\ todo' = [todo EXCEPT ![h] = rooms]
  /\ list' = [list EXCEPT ![h] = {}]

(* Who is in a room has been there. *)
Record(after) == been' = been \cup {<<e.user, e.room>> : e \in after}

-----------------------------------------------------------------------------
OneOf(S) == IF S = {} THEN << >> ELSE <<CHOOSE x \in S : TRUE>>

(* Broken variants: leaving synchronizes the empty room id; a heartbeat     *)
(* synchronizes nothing.                                                    *)
RoomsToSyncOnMove(previous, r) ==
  IF previous = {r} THEN << >> ELSE OneOf(previous) \o OneOf({r} \ {NoRoomID})

(* The room left and the room entered; a heartbeat names its room twice.    *)
RoomsToSync(previous, r) == OneOf(previous) \o OneOf({r} \ {NoRoomID})

(* Heartbeats, joins, moves and leaves: the locked part of                  *)
(* handleVoicePresence.  A refused request changes nothing and returns.     *)
Announce(h, u, r) ==
  LET q == [kind |-> "presence", user |-> u, room |-> r, audio |-> TRUE]
      previous == {e.room : e \in EntriesOf(Now.presence, u)}
      rooms == RoomsToSync(previous, r)
  IN  /\ pc[h] = "idle"
      /\ ~Refused(Now, q)
      /\ domain' = Apply(Now, q, clock, LegacyGen)
      /\ Record(domain'.presence)
      /\ client' = [client EXCEPT ![u] =
                       IF r = @.room THEN @ ELSE [room |-> r, session |-> NoSession]]
      /\ Goto(h, IF rooms = << >> THEN "idle" ELSE "read", rooms)
      /\ UNCHANGED <<store, clock, nextId>>

(* activeVoiceRoomParticipants, without the lock. *)
ReadParticipants(h) ==
  /\ pc[h] = "read"
  /\ list' = [list EXCEPT ![h] = Active(Head(todo[h]))]
  /\ pc' = [pc EXCEPT ![h] = "sync"]
  /\ UNCHANGED <<domain, store, clock, nextId, caller, todo, historyVars>>

SyncParticipants(h) ==
  LET rest == Tail(todo[h]) IN
  /\ pc[h] = "sync"
  /\ store' = Sync(store, Head(todo[h]), list[h])
  /\ Goto(h, IF rest = << >> THEN "idle" ELSE "read", rest)
  /\ UNCHANGED <<domain, clock, nextId, historyVars>>

-----------------------------------------------------------------------------
(* handleVoiceRoomDelete: the room goes with its presence, then its session. *)
Delete(h, u, r) ==
  LET q == [kind |-> "delete", user |-> u, room |-> r] IN
  /\ pc[h] = "idle"
  /\ ~Refused(Now, q)
  /\ domain' = Apply(Now, q, clock, LegacyGen)
  /\ Record(domain'.presence)
  /\ client' = [v \in Users |-> IF v \in Active(r) THEN NoHub ELSE client[v]]
  /\ Goto(h, "drop", <<r>>)
  /\ UNCHANGED <<store, clock, nextId>>

DropRoomSession(h) ==
  /\ pc[h] = "drop"
  /\ store' = Sync(store, Head(todo[h]), {})
  /\ Goto(h, "idle", << >>)
  /\ UNCHANGED <<domain, clock, nextId, historyVars>>

(* A room is created (again); the handler touches no session. *)
CreateARoom(u, r) ==
  LET q == [kind |-> "create", user |-> u, room |-> r] IN
  /\ u \in Admins
  /\ ~Refused(Now, q)
  /\ domain' = Apply(Now, q, clock, LegacyGen)
  /\ UNCHANGED <<store, clock, nextId, handlerVars, historyVars>>

-----------------------------------------------------------------------------
(* Bound: every session asked for can still get an id. *)
IdsLeft == nextId + Cardinality({h \in Handlers : pc[h] = "grant"}) <= MaxIds

(* handleSignalSessionCreate for a voice room: the caller must be present;  *)
(* the list it was found on goes to the store.                              *)
AskWithCaller(h, u, r) ==  \* mutant: the caller is put on the list unseen
  /\ IdsLeft
  /\ pc[h] = "idle"
  /\ pc' = [pc EXCEPT ![h] = "grant"]
  /\ caller' = [caller EXCEPT ![h] = u]
  /\ todo' = [todo EXCEPT ![h] = <<r>>]
  /\ list' = [list EXCEPT ![h] = Active(r) \cup {u}]
  /\ UNCHANGED <<domain, store, clock, nextId, historyVars>>

AskForRoomSession(h, u, r) ==
  /\ IdsLeft
  /\ pc[h] = "idle"
  /\ u \in Active(r)
  /\ pc' = [pc EXCEPT ![h] = "grant"]
  /\ caller' = [caller EXCEPT ![h] = u]
  /\ todo' = [todo EXCEPT ![h] = <<r>>]
  /\ list' = [list EXCEPT ![h] = Active(r)]
  /\ UNCHANGED <<domain, store, clock, nextId, historyVars>>

GrantRoomSession(h) ==
  LET r == Head(todo[h])
      u == caller[h]
  IN  /\ pc[h] = "grant"
      /\ store' = ForVoiceRoom(store, u, r, list[h], nextId, clock)
      /\ nextId' = IF store'.index[r] = nextId THEN nextId + 1 ELSE nextId
      /\ client' = [client EXCEPT ![u] =
                       IF r = @.room THEN [@ EXCEPT !.session = store'.index[r]] ELSE @]
      /\ Goto(h, "idle", << >>)
      /\ UNCHANGED <<domain, clock, been>>

(* The same for a direct call, in one step. *)
CreateDirect(u, others) ==
  /\ IdsLeft
  /\ store' = Create(store, u, others, nextId, clock)
  /\ nextId' = IF \E s \in store'.sessions : s.id = nextId THEN nextId + 1 ELSE nextId
  /\ UNCHANGED <<domain, clock, handlerVars, historyVars>>

(* authorize, for a publish, an invitation or a stream. *)
Authorize ==
  /\ store' = PruneExpired(store, clock)
  /\ UNCHANGED <<domain, clock, nextId, handlerVars, historyVars>>

(* handleSignalSessionClose *)
Close(u, id) ==
  /\ u \in Closers
  /\ \E s \in store.sessions : s.id = id /\ s.owner = u
  /\ store' = CloseSession(store, id, u)
  /\ UNCHANGED <<domain, clock, nextId, handlerVars, historyVars>>

Tick ==
  /\ clock < MaxClock
  /\ clock' = clock + 1
  /\ UNCHANGED <<domain, store, nextId, handlerVars, historyVars>>

-----------------------------------------------------------------------------
Handle(h) == \/ ReadParticipants(h) \/ SyncParticipants(h)
             \/ DropRoomSession(h)  \/ GrantRoomSession(h)

Next ==
  \/ \E h \in Handlers :
       \/ Handle(h)
       \/ \E u \in Users, r \in RoomIDs \cup {NoRoomID} : Announce(h, u, r)
       \/ \E u \in Users, r \in RoomIDs : Delete(h, u, r) \/ AskForRoomSession(h, u, r)
  \/ \E u \in Users : \/ \E others \in SUBSET Users : CreateDirect(u, others)
                      \/ \E id \in 1..MaxIds : Close(u, id)
                      \/ \E r \in RoomIDs : CreateARoom(u, r)
  \/ Authorize
  \/ Tick

Spec == Init /\ [][Next]_vars

(* Handlers run to their end, and a client that is in a room repeats its    *)
(* heartbeat (the interval timer of audio_group_call.jsx).                  *)
Heartbeat(u) ==
  \E h \in Handlers, r \in RoomIDs : u \in Active(r) /\ Announce(h, u, r)

FairSpec ==
  /\ Spec
  /\ \A h \in Handlers : WF_vars(Handle(h))
  /\ \A u \in Users : SF_vars(Heartbeat(u))

-----------------------------------------------------------------------------
RoomSessions == {s \in store.sessions : s.room # NoRoomID}

TypeOK ==
  /\ domain \in Domain
  /\ store \in Store
  /\ clock \in Nat
  /\ nextId \in Nat \ {0}
  /\ pc \in [Handlers -> {"idle", "read", "sync", "drop", "grant"}]
  /\ caller \in [Handlers -> Users \cup {NoUser}]
  /\ todo \in [Handlers -> Seq(RoomIDs)]
  /\ list \in [Handlers -> SUBSET Users]
  /\ client \in [Users -> [room : RoomIDs \cup {NoRoomID}, session : Nat]]
  /\ been \subseteq Users \X RoomIDs

(* The session map and the room index agree, whatever handlers interleave:  *)
(* a room has at most one session and no index entry dangles.               *)
IndexSound == Consistent(store)

(* No user has more sessions for direct calls than the limit. *)
DirectCallsLimited ==
  \A u \in Users :
    Cardinality({s \in store.sessions : s.owner = u /\ s.room = NoRoomID}) <= MaxPerOwner

(* Only users who have been in a room ever take part in its session. *)
NoStrangers == \A s \in RoomSessions : s.members \X {s.room} \subseteq been

(* Users in one room who joined its signalling are on one session ("Canais  *)
(* de voz reutilizam sessões").                                             *)
RoomShared ==
  \A r \in RoomIDs : \A u, v \in Active(r) :
    {client[u].room, client[v].room} = {r}
      /\ NoSession \notin {client[u].session, client[v].session}
      => client[u].session = client[v].session

(* Whatever went wrong, heartbeats repair it: once nobody comes or goes,    *)
(* the session of an occupied room gets exactly its occupants, for good.    *)
HeartbeatsRepair ==
  (<>[][Membership' = Membership]_vars) =>
     <>[](\A s \in RoomSessions : Active(s.room) # {} => s.members = Active(s.room))
=============================================================================
