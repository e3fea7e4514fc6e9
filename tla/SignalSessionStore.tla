-------------------------- MODULE SignalSessionStore --------------------------
(***************************************************************************)
(* The signal sessions of one node as a value: the sessions and the index   *)
(* from voice rooms to sessions that server/signal_sessions.go keeps under  *)
(* one mutex, and the operations on them, each of which is one critical     *)
(* section there.                                                           *)
(*                                                                         *)
(* A session is [id, owner, room, members, exp]; room is NoRoomID in the    *)
(* session of a direct call.  A session's call id never changes and the     *)
(* client uses one call id per session, so it is left out, as is the        *)
(* validation of identifiers.                                               *)
(***************************************************************************)
EXTENDS VoiceDomain

CONSTANTS
  SessionTTL,       \* signalSessionTTL, in ticks of the clock
  MaxParticipants,  \* maxSignalSessionParticipants
  MaxPerOwner       \* maxSignalSessionsPerOwner

ASSUME SessionAssumption ==
  /\ SessionTTL \in Nat \ {0}
  /\ MaxParticipants \in Nat \ {0}
  /\ MaxPerOwner \in Nat \ {0}

NoSession == 0  \* the index has no session for a room

Session == [id : Nat \ {0}, owner : Users, room : RoomIDs \cup {NoRoomID},
            members : SUBSET Users, exp : Nat]
Store == [sessions : SUBSET Session, index : [RoomIDs -> Nat]]

EmptyStore == [sessions |-> {}, index |-> [r \in RoomIDs |-> NoSession]]

NewSession(id, owner, r, members, now) ==
  [id |-> id, owner |-> owner, room |-> r, members |-> members,
   exp |-> now + SessionTTL]

(* Sessions leave the map together with their index entries. *)
Drop(st, gone) ==
  [sessions |-> st.sessions \ gone,
   index    |-> [r \in RoomIDs |->
                   IF \E s \in gone : s.room = r THEN NoSession ELSE st.index[r]]]

PruneExpired(st, now) == Drop(st, {s \in st.sessions : s.exp <= now})

Replace(st, id, members) ==
  [st EXCEPT !.sessions =
     {IF s.id = id THEN [s EXCEPT !.members = members] ELSE s : s \in @}]

(* Broken variant: the index is not consulted. *)
ForVoiceRoomAgain(st, owner, r, list, id, now) ==
  [sessions |-> st.sessions \cup {NewSession(id, owner, r, list, now)},
   index    |-> [st.index EXCEPT ![r] = id]]

(* The session of a room, made by the first user who asks and given the     *)
(* caller's list of participants by everyone after; its expiry stays.  A    *)
(* caller who is not on the list is denied: an existing session has got     *)
(* the list by then, a new one is not made.                                 *)
ForVoiceRoom(st, owner, r, list, id, now) ==
  LET p == PruneExpired(st, now) IN
  CASE p.index[r] # NoSession -> Replace(p, p.index[r], list)
    [] p.index[r] = NoSession /\ owner \notin list -> p
    [] p.index[r] = NoSession /\ owner \in list ->
         [sessions |-> p.sessions \cup {NewSession(id, owner, r, list, now)},
          index    |-> [p.index EXCEPT ![r] = id]]

(* syncVoiceRoomParticipants.  An empty list ends the session. *)
Sync(st, r, list) ==
  CASE st.index[r] = NoSession -> st
    [] st.index[r] # NoSession /\ list = {} ->
         Drop(st, {s \in st.sessions : s.id = st.index[r]})
    [] st.index[r] # NoSession /\ list # {} -> Replace(st, st.index[r], list)

OwnedBy(st, u) == {s \in st.sessions : s.owner = u}

TooMany(owner, others) == Cardinality({owner} \cup others) > MaxParticipants
OverLimit(st, owner) ==  \* broken variant of AtLimit: off by one
  Cardinality(OwnedBy(st, owner)) > MaxPerOwner
AtLimit(st, owner) == Cardinality(OwnedBy(st, owner)) >= MaxPerOwner

(* The session of a direct call.  Every session of the owner counts towards *)
(* the limit, those of rooms too; too long a list is refused before.        *)
Create(st, owner, others, id, now) ==
  LET p == PruneExpired(st, now)
      refused == TooMany(owner, others)
      full == AtLimit(p, owner)
  IN  CASE refused          -> st
        [] ~refused /\ full -> p
        [] ~refused /\ ~full ->
             [p EXCEPT !.sessions =
                @ \cup {NewSession(id, owner, NoRoomID, {owner} \cup others, now)}]

(* close, by the owner of an existing session; it does not prune. *)
CloseSession(st, id, u) ==
  Drop(st, {s \in st.sessions : s.id = id /\ s.owner = u})

-----------------------------------------------------------------------------
(* The maps agree: ids name one session each, the index of a room names the *)
(* one session of that room, and a room with a session is in the index.     *)
Consistent(st) ==
  /\ \A s, t \in st.sessions : s.id = t.id => s = t
  /\ \A r \in RoomIDs : st.index[r] # NoSession =>
       \E s \in st.sessions : s.id = st.index[r] /\ s.room = r
  /\ \A s \in st.sessions : s.room # NoRoomID => st.index[s.room] = s.id
=============================================================================
