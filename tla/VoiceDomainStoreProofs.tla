------------------------ MODULE VoiceDomainStoreProofs ------------------------
(***************************************************************************)
(* Proofs about VoiceDomainStore for any nodes, goroutines, users, rooms    *)
(* and bounds.  The inductive invariant says that the entry and every       *)
(* private copy about to be written are sound domains, that the locals are  *)
(* what the control state makes of them, and that a mutation past its Lock  *)
(* holds the mutex of its node.                                             *)
(***************************************************************************)
EXTENDS VoiceDomainStore, TLAPS

IndInv == TypeOK /\ EntrySound /\ SoundCopies /\ ControlOK /\ MutexHeld

-----------------------------------------------------------------------------
(* What the operations of VoiceDomain preserve: every one of them takes a   *)
(* sound domain to a sound domain, and the import makes a sound one of      *)
(* whatever an earlier build wrote.                                         *)

(* Pruning forgets entries and nothing else (prunePresence). *)
LEMMA PrunedSound ==
  ASSUME NEW d \in Domain, NEW now, Sound(d)
  PROVE  Pruned(d, now) \in Domain /\ Sound(Pruned(d, now))
<1> DEFINE s == Pruned(d, now)
<1>1. /\ s.rooms = d.rooms
      /\ s.presence \subseteq d.presence
      /\ s = [rooms |-> s.rooms, presence |-> s.presence]
  BY DEF Pruned, PrunePresence, Domain
<1> QED
  BY <1>1 DEF Domain, Sound, PresenceInKnownRooms, OneRoomPerUser, UniqueRoomIds

(* The import of any well-formed legacy value is sound: an entry that wins  *)
(* over another of its user is not beaten by it (normalizeLegacyPresence).  *)
LEMMA NormalizedSound ==
  ASSUME NEW d, LegacyWellFormed(d), NEW now
  PROVE  NormalizeLegacy(d, now) \in Domain /\ Sound(NormalizeLegacy(d, now))
<1> DEFINE s == NormalizeLegacy(d, now)
           kept == {e \in PrunePresence(d.presence, now) : e.room \in IdsOf(d.rooms)}
           Wins(e, f) == f.exp < e.exp \/ (f.exp = e.exp /\ e.room <= f.room)
<1>1. d \in Domain /\ UniqueRoomIds(d)
  BY DEF LegacyWellFormed
<1>2. /\ s.rooms = d.rooms
      /\ s.presence = {e \in kept : \A f \in EntriesOf(kept, e.user) : Wins(e, f)}
      /\ s = [rooms |-> s.rooms, presence |-> s.presence]
  <2> DEFINE best == {e \in kept : \A f \in EntriesOf(kept, e.user) : Wins(e, f)}
  <2>1. s = [d EXCEPT !.presence = best]
    BY Zenon DEF NormalizeLegacy
  <2> HIDE DEF best, s
  <2>2. s = [rooms |-> d.rooms, presence |-> best]
    BY <1>1, <2>1 DEF Domain
  <2>3. s.rooms = d.rooms /\ s.presence = best
    BY <2>2
  <2> QED
    BY <2>2, <2>3 DEF best
<1>3. kept \subseteq d.presence /\ d.presence \subseteq Entry
  BY <1>1 DEF PrunePresence, Domain
<1>4. s \in Domain
  BY <1>1, <1>2, <1>3 DEF Domain
<1>5. PresenceInKnownRooms(s) /\ UniqueRoomIds(s)
  BY <1>1, <1>2 DEF PresenceInKnownRooms, UniqueRoomIds
<1>6. ASSUME NEW e \in s.presence, NEW f \in s.presence, e.user = f.user
      PROVE  e = f
  <2>1. e \in kept /\ f \in kept /\ e \in Entry /\ f \in Entry
    BY <1>2, <1>3
  <2>2. Wins(e, f) /\ Wins(f, e)
    BY <1>2, <1>6, <2>1 DEF EntriesOf
  <2>3. e.exp \in Nat /\ f.exp \in Nat /\ e.room \in Nat /\ f.room \in Nat
    BY <2>1, DomainAssumption DEF Entry
  <2>4. e.room = f.room
    BY <2>2, <2>3
  <2> QED
    BY <2>1, <2>4, <1>3, <1>6 DEF LegacyWellFormed
<1> QED
  BY <1>4, <1>5, <1>6 DEF Sound, OneRoomPerUser

(* createRoom: one more room at most, under an id that was free. *)
LEMMA CreateRoomSound ==
  ASSUME NEW d \in Domain, Sound(d), NEW q \in CreateRequest, NEW g \in Nat
  PROVE  CreateRoom(d, q, g) \in Domain /\ Sound(CreateRoom(d, q, g))
<1> DEFINE s == CreateRoom(d, q, g)
           new == [id |-> q.room, creator |-> q.user, gen |-> g]
<1>1. CASE q.room \in IdsOf(d.rooms)
  BY <1>1 DEF CreateRoom
<1>2. CASE q.room \notin IdsOf(d.rooms)
  <2>1. new \in Room
    BY DomainAssumption DEF CreateRequest, Room
  <2>2. /\ s.rooms = d.rooms \cup {new}
        /\ s.presence = d.presence
        /\ s = [rooms |-> s.rooms, presence |-> s.presence]
    BY <1>2 DEF CreateRoom, Domain
  <2>3. \A m \in d.rooms : m.id # new.id
    BY <1>2 DEF IdsOf
  <2>4. PresenceInKnownRooms(s)
    BY <2>2 DEF Sound, PresenceInKnownRooms, IdsOf
  <2>5. UniqueRoomIds(s)
    BY <2>2, <2>3 DEF Sound, UniqueRoomIds
  <2> QED
    BY <2>1, <2>2, <2>4, <2>5 DEF Domain, Sound, OneRoomPerUser
<1> QED
  BY <1>1, <1>2

(* deleteRoom takes the presence of the room with it. *)
LEMMA DeleteRoomSound ==
  ASSUME NEW d \in Domain, Sound(d), NEW q \in DeleteRequest
  PROVE  DeleteRoom(d, q) \in Domain /\ Sound(DeleteRoom(d, q))
<1> DEFINE s == DeleteRoom(d, q)
<1>1. /\ s.rooms = {m \in d.rooms : m.id # q.room}
      /\ s.presence = {e \in d.presence : e.room # q.room}
      /\ s = [rooms |-> s.rooms, presence |-> s.presence]
  BY DEF DeleteRoom
<1>2. PresenceInKnownRooms(s)
  BY <1>1 DEF Sound, PresenceInKnownRooms, IdsOf
<1> QED
  BY <1>1, <1>2 DEF Domain, Sound, OneRoomPerUser, UniqueRoomIds

(* setPresence, once it has found the room. *)
LEMMA SetPresenceSound ==
  ASSUME NEW d \in Domain, Sound(d), NEW q \in PresenceRequest, NEW now \in Nat,
         ~RoomNotFound(d, q)
  PROVE  SetPresence(d, q, now) \in Domain /\ Sound(SetPresence(d, q, now))
<1> DEFINE s == SetPresence(d, q, now)
           new == [room |-> q.room, user |-> q.user, exp |-> now + TTL, audio |-> q.audio]
           others == {e \in d.presence : e.user # q.user}
<1>1. /\ s.rooms = d.rooms
      /\ s.presence = others \cup {e \in {new} : q.room # NoRoomID}
      /\ s = [rooms |-> s.rooms, presence |-> s.presence]
  BY DEF SetPresence, Domain
<1>2. q.room # NoRoomID => q.room \in IdsOf(d.rooms) /\ new \in Entry
  BY DomainAssumption DEF RoomNotFound, PresenceRequest, Entry
<1>3. s \in Domain
  BY <1>1, <1>2 DEF Domain
<1>4. PresenceInKnownRooms(s)
  BY <1>1, <1>2 DEF Sound, PresenceInKnownRooms
<1>5. OneRoomPerUser(s)
  BY <1>1 DEF Sound, OneRoomPerUser
<1> QED
  BY <1>1, <1>3, <1>4, <1>5 DEF Sound, UniqueRoomIds

(* Every mutation the service does not refuse keeps a domain sound. *)
LEMMA ApplySound ==
  ASSUME NEW d \in Domain, Sound(d), NEW q \in Mutation, NEW now \in Nat,
         NEW g \in Nat, ~Refused(d, q)
  PROVE  Apply(d, q, now, g) \in Domain /\ Sound(Apply(d, q, now, g))
<1>1. CASE q \in CreateRequest
  <2>1. Apply(d, q, now, g) = CreateRoom(d, q, g)
    BY <1>1 DEF Apply, CreateRequest
  <2> QED
    BY <1>1, <2>1, CreateRoomSound
<1>2. CASE q \in DeleteRequest
  <2>1. Apply(d, q, now, g) = DeleteRoom(d, q)
    BY <1>2 DEF Apply, DeleteRequest
  <2> QED
    BY <1>2, <2>1, DeleteRoomSound
<1>3. CASE q \in PresenceRequest
  <2>1. Apply(d, q, now, g) = SetPresence(d, q, now)
    BY <1>3 DEF Apply, PresenceRequest
  <2> QED
    BY <1>3, <2>1, SetPresenceSound DEF Refused
<1> QED
  BY <1>1, <1>2, <1>3 DEF Mutation

-----------------------------------------------------------------------------
(* The answers of the service are answers a handler understands. *)
LEMMA AnswerType ==
  ASSUME NEW d \in Domain, NEW q \in Mutation
  PROVE  Answer(d, q) \in Replies
<1>1. \A r : Occupants(d.presence, r) \in SUBSET Users
  BY DEF Domain, Entry, Occupants
<1>2. \A u : {<<e.room, e.audio>> : e \in EntriesOf(d.presence, u)} \in SUBSET (RoomIDs \X BOOLEAN)
  BY DEF Domain, Entry, EntriesOf
<1>3. CASE q \in CreateRequest
  <2>1. Answer(d, q) = [kind |-> "created"]
    BY <1>3 DEF Answer, CreateRequest
  <2> QED
    BY <2>1 DEF Replies
<1>4. CASE q \in DeleteRequest
  <2>1. Answer(d, q) = [kind |-> "deleted", departed |-> Occupants(d.presence, q.room)]
    BY <1>4 DEF Answer, DeleteRequest
  <2> QED
    BY <2>1, <1>1 DEF Replies
<1>5. CASE q \in PresenceRequest
  <2> DEFINE prev == {<<e.room, e.audio>> : e \in EntriesOf(d.presence, q.user)}
  <2>1. Answer(d, q) = [kind |-> "moved", previous |-> prev]
    BY <1>5 DEF Answer, PresenceRequest
  <2>2. prev \in SUBSET (RoomIDs \X BOOLEAN)
    BY <1>2
  <2> HIDE DEF prev
  <2> QED
    BY <2>1, <2>2 DEF Replies
<1> QED
  BY <1>3, <1>4, <1>5 DEF Mutation

(* The local work after a read leaves a typed, sound copy to be written, or *)
(* an answer and no copy at all (mutateVoiceDomain).                        *)
LEMMA WorkSound ==
  ASSUME IndInv, NEW p \in Procs, NEW d \in Domain, Sound(d),
         pc[p] \in {"read", "import"}, Work(p, d)
  PROVE  /\ nextGen' \in Nat
         /\ pc' \in [Procs -> {"idle", "lock", "read", "import", "write", "return"}]
         /\ pc' = [pc EXCEPT ![p] = pc'[p]]
         /\ raw' \in [Procs -> Domain \cup {Unset}]
         /\ next' \in [Procs -> Domain \cup {Unset}]
         /\ answer' \in [Procs -> Replies]
         /\ reply' \in [Procs -> Replies]
         /\ raw' = [raw EXCEPT ![p] = raw'[p]]
         /\ next' = [next EXCEPT ![p] = next'[p]]
         /\ next'[p] # Unset => Sound(next'[p])
         /\ \/ pc'[p] = "return"
            \/ /\ pc'[p] = "write"
               /\ raw'[p] = d
               /\ next'[p] \in Domain
               /\ request[p] \in Mutation
<1> DEFINE q == request[p]
           s == Pruned(d, clock)
<1>1. s \in Domain /\ Sound(s)
  BY PrunedSound DEF IndInv, TypeOK
<1> HIDE DEF s
<1>2. CASE Finish(p, View(s)) /\ UNCHANGED <<raw, next, answer, nextGen>>
  <2>1. View(s) \in Replies
    BY <1>1 DEF View, Replies
  <2> QED
    BY <1>2, <2>1 DEF IndInv, TypeOK, SoundCopies, Finish, Goto
<1>3. CASE Finish(p, RefusedReply) /\ UNCHANGED <<raw, next, answer, nextGen>>
  <2>1. RefusedReply \in Replies
    BY DEF Replies
  <2> QED
    BY <1>3, <2>1 DEF IndInv, TypeOK, SoundCopies, Finish, Goto
<1>4. CASE /\ q \in Mutation
           /\ ~Refused(s, q)
           /\ raw' = [raw EXCEPT ![p] = d]
           /\ next' = [next EXCEPT ![p] = Apply(s, q, clock, nextGen)]
           /\ answer' = [answer EXCEPT ![p] = Answer(s, q)]
           /\ nextGen' = nextGen + (IF q.kind = "create" THEN 1 ELSE 0)
           /\ Goto(p, "write")
           /\ UNCHANGED reply
  <2>1. Apply(s, q, clock, nextGen) \in Domain /\ Sound(Apply(s, q, clock, nextGen))
    BY <1>1, <1>4, ApplySound DEF IndInv, TypeOK
  <2>2. Answer(s, q) \in Replies
    BY <1>1, <1>4, AnswerType
  <2>3. nextGen' \in Nat
    BY <1>4 DEF IndInv, TypeOK
  <2> QED
    BY <1>4, <2>1, <2>2, <2>3 DEF IndInv, TypeOK, Goto
<1> QED
  BY <1>2, <1>3, <1>4 DEF Work, s

-----------------------------------------------------------------------------
LEMMA InitInv == Init => IndInv
BY StoreAssumption, DomainAssumption
   DEF Init, IndInv, TypeOK, Replies, EntrySound, SoundCopies, ControlOK, MutexHeld

LEMMA StartInv ==
  ASSUME IndInv, NEW p \in Procs, NEW q \in Request, Start(p, q)
  PROVE  IndInv'
<1>1. TypeOK'
  BY DEF IndInv, TypeOK, Start, sharedVars, Goto
<1>2. EntrySound' /\ SoundCopies'
  BY DEF IndInv, TypeOK, EntrySound, SoundCopies, Start, sharedVars
<1>3. ControlOK'
  BY DEF IndInv, TypeOK, ControlOK, Start, sharedVars, Goto
<1>4. MutexHeld'
  <2> SUFFICES ASSUME NEW r \in Procs,
                      pc'[r] \in {"read", "import", "write", "return"},
                      request'[r] \in Mutation
               PROVE  mutex'[NodeOf[r]] = r
    BY DEF MutexHeld
  <2>1. r # p
    BY DEF IndInv, TypeOK, Start, Goto
  <2> QED
    BY <2>1 DEF IndInv, TypeOK, MutexHeld, Start, Goto
<1> QED
  BY <1>1, <1>2, <1>3, <1>4 DEF IndInv

LEMMA LockInv ==
  ASSUME IndInv, NEW p \in Procs, Lock(p)
  PROVE  IndInv'
<1>1. TypeOK'
  BY StoreAssumption DEF IndInv, TypeOK, Lock, sharedVars, procVars, Goto
<1>2. EntrySound' /\ SoundCopies'
  BY DEF IndInv, EntrySound, SoundCopies, Lock, sharedVars, procVars
<1>3. ControlOK'
  BY DEF IndInv, TypeOK, ControlOK, Lock, sharedVars, procVars, Goto
<1>4. MutexHeld'
  BY StoreAssumption DEF IndInv, TypeOK, MutexHeld, Lock, procVars, Goto
<1> QED
  BY <1>1, <1>2, <1>3, <1>4 DEF IndInv

LEMMA ReadInv ==
  ASSUME IndInv, NEW p \in Procs, Read(p)
  PROVE  IndInv'
<1>1. kv \in Domain /\ Sound(kv) /\ pc[p] = "read" /\ Work(p, kv)
  BY DEF IndInv, TypeOK, EntrySound, Read
<1>2. TypeOK'
  BY <1>1, WorkSound DEF IndInv, TypeOK, Read
<1>3. EntrySound'
  BY DEF IndInv, EntrySound, Read
<1>4. SoundCopies'
  BY <1>1, WorkSound DEF IndInv, TypeOK, SoundCopies
<1>5. ControlOK'
  BY <1>1, WorkSound DEF IndInv, TypeOK, ControlOK, Read
<1>6. MutexHeld'
  BY <1>1, WorkSound DEF IndInv, TypeOK, MutexHeld, Read
<1> QED
  BY <1>2, <1>3, <1>4, <1>5, <1>6 DEF IndInv

LEMMA ReadLegacyInv ==
  ASSUME IndInv, NEW p \in Procs, ReadLegacy(p)
  PROVE  IndInv'
<1> DEFINE s == NormalizeLegacy(legacy, clock)
<1>1. s \in Domain /\ Sound(s)
  BY StoreAssumption, NormalizedSound DEF IndInv, TypeOK
<1>2. next' = [next EXCEPT ![p] = s]
  BY DEF ReadLegacy
<1> HIDE DEF s
<1>3. TypeOK'
  BY <1>1, <1>2 DEF IndInv, TypeOK, ReadLegacy, sharedVars, Goto
<1>4. EntrySound' /\ SoundCopies'
  BY <1>1, <1>2 DEF IndInv, TypeOK, EntrySound, SoundCopies, ReadLegacy, sharedVars
<1>5. ControlOK'
  BY <1>1, <1>2 DEF IndInv, TypeOK, ControlOK, ReadLegacy, Goto
<1>6. MutexHeld'
  BY DEF IndInv, TypeOK, MutexHeld, ReadLegacy, Goto
<1> QED
  BY <1>3, <1>4, <1>5, <1>6 DEF IndInv

LEMMA WriteImportInv ==
  ASSUME IndInv, NEW p \in Procs, WriteImport(p)
  PROVE  IndInv'
<1>1. /\ next[p] \in Domain /\ Sound(next[p])
      /\ pc[p] = "import" /\ Work(p, next[p]) /\ kv' = next[p]
  BY StoreAssumption DEF IndInv, TypeOK, SoundCopies, ControlOK, WriteImport
<1>2. TypeOK'
  BY <1>1, WorkSound DEF IndInv, TypeOK, WriteImport
<1>3. EntrySound'
  BY <1>1 DEF EntrySound
<1>4. SoundCopies'
  BY <1>1, WorkSound DEF IndInv, TypeOK, SoundCopies
<1>5. ControlOK'
  BY <1>1, WorkSound DEF IndInv, TypeOK, ControlOK, WriteImport
<1>6. MutexHeld'
  BY <1>1, WorkSound DEF IndInv, TypeOK, MutexHeld, WriteImport
<1> QED
  BY <1>2, <1>3, <1>4, <1>5, <1>6 DEF IndInv

LEMMA ImportLostInv ==
  ASSUME IndInv, NEW p \in Procs, ImportLost(p)
  PROVE  IndInv'
<1>1. TypeOK'
  BY DEF IndInv, TypeOK, ImportLost, sharedVars, procVars, Goto
<1>2. EntrySound' /\ SoundCopies'
  BY DEF IndInv, EntrySound, SoundCopies, ImportLost, sharedVars, procVars
<1>3. ControlOK'
  BY DEF IndInv, TypeOK, ControlOK, ImportLost, procVars, Goto
<1>4. MutexHeld'
  BY DEF IndInv, TypeOK, MutexHeld, ImportLost, procVars, Goto
<1> QED
  BY <1>1, <1>2, <1>3, <1>4 DEF IndInv

LEMMA WriteInv ==
  ASSUME IndInv, NEW p \in Procs, Write(p)
  PROVE  IndInv'
<1>1. /\ next[p] \in Domain /\ Sound(next[p]) /\ kv' = next[p]
  BY StoreAssumption DEF IndInv, TypeOK, SoundCopies, ControlOK, Write
<1>2. born' \in SUBSET Nat
  <2>1. \A m \in next[p].rooms : m.gen \in Nat
    BY <1>1 DEF Domain, Room
  <2> QED
    BY <2>1 DEF IndInv, TypeOK, Write
<1>3. TypeOK'
  BY <1>1, <1>2 DEF IndInv, TypeOK, Write, Finish, Goto
<1>4. EntrySound' /\ SoundCopies'
  BY <1>1 DEF IndInv, EntrySound, SoundCopies, Write
<1>5. ControlOK'
  BY DEF IndInv, TypeOK, ControlOK, Write, Finish, Goto
<1>6. MutexHeld'
  BY DEF IndInv, TypeOK, MutexHeld, Write, Finish, Goto
<1> QED
  BY <1>3, <1>4, <1>5, <1>6 DEF IndInv

LEMMA WriteLostInv ==
  ASSUME IndInv, NEW p \in Procs, WriteLost(p)
  PROVE  IndInv'
<1>1. /\ attempt[p] \in Nat /\ attempt[p] < MaxAttempts /\ MaxAttempts \in Nat
      /\ attempt' = [attempt EXCEPT ![p] = attempt[p] + 1]
      /\ attempt'[p] = attempt[p] + 1
  BY StoreAssumption DEF IndInv, TypeOK, ControlOK, WriteLost
<1>2. \/ pc' = [pc EXCEPT ![p] = "read"] /\ attempt'[p] < MaxAttempts /\ reply' = reply
      \/ pc' = [pc EXCEPT ![p] = "return"] /\ reply' = [reply EXCEPT ![p] = Contended]
  BY DEF WriteLost, Finish, Goto
<1>3. attempt' \in [Procs -> 0..MaxAttempts]
  BY <1>1 DEF IndInv, TypeOK
<1>4. TypeOK'
  BY <1>2, <1>3 DEF IndInv, TypeOK, WriteLost, sharedVars, Replies
<1>5. EntrySound' /\ SoundCopies'
  BY DEF IndInv, EntrySound, SoundCopies, WriteLost, sharedVars
<1>6. ControlOK'
  BY <1>1, <1>2 DEF IndInv, TypeOK, ControlOK, WriteLost
<1>7. MutexHeld'
  BY <1>2 DEF IndInv, TypeOK, MutexHeld, WriteLost
<1> QED
  BY <1>4, <1>5, <1>6, <1>7 DEF IndInv

LEMMA StoreFailsInv ==
  ASSUME IndInv, NEW p \in Procs, StoreFails(p)
  PROVE  IndInv'
<1>1. KvError \in Replies
  BY DEF Replies
<1>2. TypeOK'
  BY <1>1 DEF IndInv, TypeOK, StoreFails, sharedVars, Finish, Goto
<1>3. EntrySound' /\ SoundCopies'
  BY DEF IndInv, EntrySound, SoundCopies, StoreFails, sharedVars
<1>4. ControlOK'
  BY DEF IndInv, TypeOK, ControlOK, StoreFails, Finish, Goto
<1>5. MutexHeld'
  BY DEF IndInv, TypeOK, MutexHeld, StoreFails, Finish, Goto
<1> QED
  BY <1>2, <1>3, <1>4, <1>5 DEF IndInv

LEMMA ReturnInv ==
  ASSUME IndInv, NEW p \in Procs, Return(p)
  PROVE  IndInv'
<1>1. NoReply \in Replies
  BY DEF Replies
<1>2. TypeOK'
  BY <1>1, StoreAssumption DEF IndInv, TypeOK, Return, sharedVars, Goto
<1>3. EntrySound' /\ SoundCopies'
  BY DEF IndInv, TypeOK, EntrySound, SoundCopies, Return, sharedVars
<1>4. ControlOK'
  BY StoreAssumption DEF IndInv, TypeOK, ControlOK, Return, Goto
<1>5. MutexHeld'
  BY StoreAssumption DEF IndInv, TypeOK, MutexHeld, Return, Goto
<1> QED
  BY <1>2, <1>3, <1>4, <1>5 DEF IndInv

LEMMA TickInv ==
  ASSUME IndInv, Tick
  PROVE  IndInv'
BY DEF IndInv, TypeOK, EntrySound, SoundCopies, ControlOK, MutexHeld, Tick, procVars

LEMMA UnchangedInv ==
  ASSUME IndInv, UNCHANGED vars
  PROVE  IndInv'
BY DEF IndInv, TypeOK, EntrySound, SoundCopies, ControlOK, MutexHeld, vars, sharedVars, procVars

LEMMA NextInv == IndInv /\ [Next]_vars => IndInv'
<1> SUFFICES ASSUME IndInv, [Next]_vars PROVE IndInv'
  OBVIOUS
<1>1. ASSUME NEW p \in Procs, Step(p) PROVE IndInv'
  BY <1>1, LockInv, ReadInv, ReadLegacyInv, WriteImportInv, ImportLostInv,
     WriteInv, WriteLostInv, ReturnInv DEF Step
<1> QED
  BY <1>1, StartInv, StoreFailsInv, TickInv, UnchangedInv DEF Next, Sent, Quiescent

(* Every behaviour of the store keeps the inductive invariant. *)
THEOREM Invariance == Spec => []IndInv
BY InitInv, NextInv, PTL DEF Spec

(* Type correctness. *)
THEOREM TypeCorrect == Spec => []TypeOK
BY Invariance, PTL DEF IndInv

(* Presence names existing rooms only, on any number of nodes. *)
THEOREM PresenceSafe == Spec => []NoGhostPresence
<1>1. IndInv => NoGhostPresence
  BY DEF IndInv, EntrySound, Sound, NoGhostPresence
<1> QED
  BY <1>1, Invariance, PTL

(* A user is in one room at most, on any number of nodes. *)
THEOREM OneRoom == Spec => []InOneRoom
<1>1. IndInv => InOneRoom
  BY DEF IndInv, EntrySound, Sound, InOneRoom
<1> QED
  BY <1>1, Invariance, PTL

(* A room id names one room. *)
THEOREM OneRoomPerId == Spec => []NoDuplicateRooms
<1>1. IndInv => NoDuplicateRooms
  BY DEF IndInv, EntrySound, Sound, NoDuplicateRooms
<1> QED
  BY <1>1, Invariance, PTL

(* While a mutation of one node is between its read and its write, only a   *)
(* goroutine of another node writes: voiceDomainMu, held from before the    *)
(* read until the answer, keeps the mutations of a node apart, and a second *)
(* import never overwrites (voice_domain_store.go).                         *)
THEOREM WritesOfOneNodeWin == Spec => LocalWritesWin
<1> DEFINE Wins == \A p \in Procs :
             pc[p] = "write" /\ kv = raw[p] /\ kv' # kv =>
               \E q \in Procs : pc'[q] # pc[q] /\ (q = p \/ NodeOf[q] # NodeOf[p])
<1>1. IndInv /\ [Next]_vars => Wins
  <2> SUFFICES ASSUME IndInv, [Next]_vars, NEW p \in Procs,
                      pc[p] = "write", kv = raw[p], kv' # kv
               PROVE  \E q \in Procs : pc'[q] # pc[q] /\ (q = p \/ NodeOf[q] # NodeOf[p])
    OBVIOUS
  <2>1. kv # Unset
    BY StoreAssumption DEF IndInv, ControlOK
  <2>2. PICK q \in Procs : Write(q)
    BY <2>1 DEF Next, Quiescent, Tick, Start, Step, StoreFails, Lock, Read, ReadLegacy,
                WriteImport, ImportLost, WriteLost, Return, vars, sharedVars
  <2>3. pc[q] = "write" /\ pc'[q] = "return"
    BY <2>2 DEF IndInv, TypeOK, Write, Finish, Goto
  <2>4. mutex[NodeOf[p]] = p /\ mutex[NodeOf[q]] = q
    BY <2>3 DEF IndInv, ControlOK, MutexHeld
  <2> QED
    BY <2>3, <2>4
<1>2. IndInv /\ [Next]_vars => [Wins]_vars
  BY <1>1
<1> HIDE DEF Wins
<1>3. Spec => [][Wins]_vars
  BY <1>2, Invariance, PTL DEF Spec
<1> QED
  BY <1>3 DEF Wins, LocalWritesWin

-----------------------------------------------------------------------------
(* The store implements the directory.                                      *)

(* A request in progress arrived no later than now. *)
Timely == \A p \in Procs : pc[p] # "idle" => since[p] <= clock

(* What is about to be imported was normalized while its request ran. *)
ImportPrepared ==
  \A p \in Procs :
    pc[p] = "import" => \E t \in since[p]..clock : next[p] = NormalizeLegacy(legacy, t)

(* What is about to be written, and the answer kept with it, are those of   *)
(* the request on the value that was read, pruned while the request ran.    *)
WritePrepared ==
  \A p \in Procs :
    pc[p] = "write" =>
      \E t \in since[p]..clock, g \in 1..nextGen :
        /\ ~Refused(Pruned(raw[p], t), request[p])
        /\ next[p] = Apply(Pruned(raw[p], t), request[p], t, g)
        /\ answer[p] = Answer(Pruned(raw[p], t), request[p])

(* The generations a write would add have been drawn for it alone. *)
Drawn(p) == {m.gen : m \in next[p].rooms \ raw[p].rooms}

Generations ==
  /\ nextGen > 0
  /\ \A g \in born : g \in 1..(nextGen - 1)
  /\ \A p \in Procs :
       pc[p] = "write" => \A g \in Drawn(p) : g \in 1..(nextGen - 1) /\ g \notin born
  /\ \A p, r \in Procs :
       pc[p] = "write" /\ pc[r] = "write" /\ p # r => Drawn(p) \cap Drawn(r) = {}

RefInv == Timely /\ ImportPrepared /\ WritePrepared /\ Generations

(* Only a creation adds a room, and of the generation drawn for it. *)
LEMMA ApplyGenerations ==
  ASSUME NEW d \in Domain, NEW t, NEW q \in Mutation, NEW g \in Nat,
         NEW m \in Apply(Pruned(d, t), q, t, g).rooms \ d.rooms
  PROVE  m.gen = g /\ q.kind = "create"
<1> DEFINE s == Pruned(d, t)
<1>1. s.rooms = d.rooms
  BY DEF Pruned, Domain
<1>2. CASE q \in CreateRequest
  <2>1. Apply(s, q, t, g) = CreateRoom(s, q, g) /\ q.kind = "create"
    BY <1>2 DEF Apply, CreateRequest
  <2>2. s = [rooms |-> s.rooms, presence |-> s.presence]
    BY DEF Pruned, Domain
  <2> HIDE DEF s
  <2>3. CreateRoom(s, q, g).rooms
          \subseteq s.rooms \cup {[id |-> q.room, creator |-> q.user, gen |-> g]}
    BY <2>2 DEF CreateRoom
  <2> QED
    BY <1>1, <2>1, <2>3 DEF s
<1>3. CASE q \in DeleteRequest
  <2>1. Apply(s, q, t, g) = DeleteRoom(s, q)
    BY <1>3 DEF Apply, DeleteRequest
  <2> QED
    BY <1>1, <2>1 DEF DeleteRoom
<1>4. CASE q \in PresenceRequest
  <2>1. Apply(s, q, t, g) = SetPresence(s, q, t)
    BY <1>4 DEF Apply, PresenceRequest
  <2>2. SetPresence(s, q, t).rooms = s.rooms
    BY DEF SetPresence, Pruned, Domain
  <2> QED
    BY <1>1, <2>1, <2>2
<1> QED
  BY <1>2, <1>3, <1>4 DEF Mutation

(* A creation that adds no room does not depend on the generation. *)
LEMMA GenerationUnused ==
  ASSUME NEW d \in Domain, NEW t, NEW q \in Mutation, NEW g, NEW h,
         Apply(Pruned(d, t), q, t, g).rooms \subseteq d.rooms
  PROVE  Apply(Pruned(d, t), q, t, h) = Apply(Pruned(d, t), q, t, g)
<1> DEFINE s == Pruned(d, t)
           new == [id |-> q.room, creator |-> q.user, gen |-> g]
<1>1. s.rooms = d.rooms /\ s = [rooms |-> s.rooms, presence |-> s.presence]
  BY DEF Pruned, Domain
<1> HIDE DEF s
<1>2. CASE q \in CreateRequest
  <2>1. /\ Apply(s, q, t, g) = CreateRoom(s, q, g)
        /\ Apply(s, q, t, h) = CreateRoom(s, q, h)
    BY <1>2 DEF Apply, CreateRequest
  <2>2. CreateRoom(s, q, g).rooms \subseteq s.rooms
    BY <1>1, <2>1 DEF s
  <2>3. q.room \in IdsOf(s.rooms)
    <3> SUFFICES ASSUME q.room \notin IdsOf(s.rooms) PROVE FALSE
      OBVIOUS
    <3>1. new \in CreateRoom(s, q, g).rooms
      BY <1>1 DEF CreateRoom
    <3>2. new \in s.rooms /\ new.id = q.room
      BY <2>2, <3>1
    <3> QED
      BY <3>2 DEF IdsOf
  <2> QED
    BY <2>1, <2>3 DEF CreateRoom, s
<1>3. CASE q \in DeleteRequest \cup PresenceRequest
  BY <1>3 DEF Apply, DeleteRequest, PresenceRequest, s
<1> QED
  BY <1>2, <1>3 DEF Mutation

-----------------------------------------------------------------------------
(* What the local work leaves, as far as the refinement needs it. *)
LEMMA WorkPrepares ==
  ASSUME IndInv, NEW p \in Procs, NEW d \in Domain, Sound(d), Work(p, d)
  PROVE  \/ /\ request[p] \in ListRequest
            /\ Finish(p, View(Pruned(d, clock)))
            /\ UNCHANGED <<raw, next, answer, nextGen>>
         \/ /\ request[p] \in Mutation
            /\ Refused(Pruned(d, clock), request[p])
            /\ Finish(p, RefusedReply)
            /\ UNCHANGED <<raw, next, answer, nextGen>>
         \/ /\ request[p] \in Mutation
            /\ ~Refused(Pruned(d, clock), request[p])
            /\ raw' = [raw EXCEPT ![p] = d]
            /\ next' = [next EXCEPT ![p] = Apply(Pruned(d, clock), request[p], clock, nextGen)]
            /\ answer' = [answer EXCEPT ![p] = Answer(Pruned(d, clock), request[p])]
            /\ nextGen' = nextGen + (IF request[p].kind = "create" THEN 1 ELSE 0)
            /\ Goto(p, "write")
            /\ UNCHANGED reply
  BY DEF Work

(* A step leaves the locals of the other goroutines alone. *)
LEMMA OthersKeep ==
  ASSUME IndInv, NEW p \in Procs,
         Step(p) \/ StoreFails(p) \/ (\E q \in Sent : Start(p, q)),
         NEW r \in Procs, r # p
  PROVE  /\ pc'[r] = pc[r] /\ request'[r] = request[r] /\ since'[r] = since[r]
         /\ raw'[r] = raw[r] /\ next'[r] = next[r] /\ answer'[r] = answer[r]
<1> USE DEF IndInv, TypeOK
<1>1. CASE Lock(p)
  BY <1>1 DEF Lock, Goto, procVars
<1>2. ASSUME NEW d \in Domain, Work(p, d), UNCHANGED <<request, since>>
      PROVE  /\ pc'[r] = pc[r] /\ request'[r] = request[r] /\ since'[r] = since[r]
             /\ raw'[r] = raw[r] /\ next'[r] = next[r] /\ answer'[r] = answer[r]
  BY <1>2 DEF Work, Finish, Goto
<1>3. CASE Read(p)
  BY <1>2, <1>3 DEF Read
<1>4. CASE ReadLegacy(p)
  BY <1>4 DEF ReadLegacy, Goto
<1>5. CASE WriteImport(p)
  <2>1. next[p] \in Domain
    BY <1>5 DEF WriteImport, ControlOK
  <2> QED
    BY <1>2, <1>5, <2>1 DEF WriteImport
<1>6. CASE ImportLost(p)
  BY <1>6 DEF ImportLost, Goto, procVars
<1>7. CASE Write(p)
  BY <1>7 DEF Write, Finish, Goto
<1>8. CASE WriteLost(p)
  BY <1>8 DEF WriteLost, Finish, Goto
<1>9. CASE Return(p)
  BY <1>9 DEF Return, Goto
<1>10. CASE StoreFails(p)
  BY <1>10 DEF StoreFails, Finish, Goto
<1>11. CASE \E q \in Sent : Start(p, q)
  BY <1>11 DEF Start, Goto
<1> QED
  BY <1>1, <1>3, <1>4, <1>5, <1>6, <1>7, <1>8, <1>9, <1>10, <1>11 DEF Step

(* The clock and the generations only move forward, and a legacy value is   *)
(* never rewritten.                                                         *)
LEMMA Forward ==
  ASSUME IndInv, [Next]_vars
  PROVE  clock' \in {clock, clock + 1} /\ nextGen' \in {nextGen, nextGen + 1} /\ legacy' = legacy
<1> USE DEF IndInv, TypeOK
<1>1. ASSUME NEW p \in Procs, NEW d, Work(p, d) PROVE nextGen' \in {nextGen, nextGen + 1}
  BY <1>1 DEF Work
<1>2. ASSUME NEW p \in Procs, Read(p) \/ WriteImport(p)
      PROVE  clock' = clock /\ nextGen' \in {nextGen, nextGen + 1} /\ legacy' = legacy
  BY <1>1, <1>2 DEF Read, WriteImport
<1>3. ASSUME NEW p \in Procs,
             Lock(p) \/ ReadLegacy(p) \/ ImportLost(p) \/ Write(p) \/ WriteLost(p)
               \/ Return(p) \/ StoreFails(p) \/ (\E q \in Sent : Start(p, q))
      PROVE  clock' = clock /\ nextGen' = nextGen /\ legacy' = legacy
  BY <1>3 DEF Lock, ReadLegacy, ImportLost, Write, WriteLost, Return, StoreFails, Start, sharedVars
<1>4. ASSUME Tick \/ UNCHANGED vars
      PROVE  clock' \in {clock, clock + 1} /\ nextGen' = nextGen /\ legacy' = legacy
  BY <1>4 DEF Tick, vars, sharedVars
<1> QED
  BY <1>2, <1>3, <1>4 DEF Next, Step, Quiescent

LEMMA InitRefInv == Init => RefInv
  BY DEF Init, RefInv, Timely, ImportPrepared, WritePrepared, Generations

(* A goroutine whose locals do not change stays prepared. *)
LEMMA PreparedFrame ==
  ASSUME IndInv, RefInv, [Next]_vars, NEW r \in Procs,
         /\ pc'[r] = pc[r] /\ request'[r] = request[r] /\ since'[r] = since[r]
         /\ raw'[r] = raw[r] /\ next'[r] = next[r] /\ answer'[r] = answer[r]
  PROVE  /\ pc'[r] # "idle" => since'[r] <= clock'
         /\ pc'[r] = "import" => \E t \in since'[r]..clock' : next'[r] = NormalizeLegacy(legacy', t)
         /\ pc'[r] = "write" =>
              \E t \in since'[r]..clock', g \in 1..nextGen' :
                /\ ~Refused(Pruned(raw'[r], t), request'[r])
                /\ next'[r] = Apply(Pruned(raw'[r], t), request'[r], t, g)
                /\ answer'[r] = Answer(Pruned(raw'[r], t), request'[r])
<1>1. clock \in Nat /\ nextGen \in Nat /\ since[r] \in Nat
  BY DEF IndInv, TypeOK
<1>2. clock' \in {clock, clock + 1} /\ nextGen' \in {nextGen, nextGen + 1} /\ legacy' = legacy
  BY Forward
<1>3. since[r]..clock \subseteq since'[r]..clock' /\ 1..nextGen \subseteq 1..nextGen'
  BY <1>1, <1>2
<1>4. pc'[r] # "idle" => since'[r] <= clock'
  BY <1>1, <1>2 DEF RefInv, Timely
<1>5. pc'[r] = "import" => \E t \in since'[r]..clock' : next'[r] = NormalizeLegacy(legacy', t)
  BY <1>2, <1>3 DEF RefInv, ImportPrepared
<1>6. ASSUME pc'[r] = "write"
      PROVE  \E t \in since'[r]..clock', g \in 1..nextGen' :
               /\ ~Refused(Pruned(raw'[r], t), request'[r])
               /\ next'[r] = Apply(Pruned(raw'[r], t), request'[r], t, g)
               /\ answer'[r] = Answer(Pruned(raw'[r], t), request'[r])
  <2>1. PICK t \in since[r]..clock, g \in 1..nextGen :
               /\ ~Refused(Pruned(raw[r], t), request[r])
               /\ next[r] = Apply(Pruned(raw[r], t), request[r], t, g)
               /\ answer[r] = Answer(Pruned(raw[r], t), request[r])
    BY <1>6 DEF RefInv, WritePrepared
  <2>2. t \in since'[r]..clock' /\ g \in 1..nextGen'
    BY <1>3
  <2>3. /\ ~Refused(Pruned(raw'[r], t), request'[r])
        /\ next'[r] = Apply(Pruned(raw'[r], t), request'[r], t, g)
        /\ answer'[r] = Answer(Pruned(raw'[r], t), request'[r])
    BY <2>1
  <2> QED
    BY <2>2, <2>3
<1> QED
  BY <1>4, <1>5, <1>6

(* What the goroutine that steps is then prepared for. *)
LEMMA PreparedStep ==
  ASSUME IndInv, RefInv, [Next]_vars, NEW p \in Procs,
         Step(p) \/ StoreFails(p) \/ (\E q \in Sent : Start(p, q))
  PROVE  /\ pc'[p] # "idle" => since'[p] <= clock'
         /\ pc'[p] = "import" => \E t \in since'[p]..clock' : next'[p] = NormalizeLegacy(legacy', t)
         /\ pc'[p] = "write" =>
              \E t \in since'[p]..clock', g \in 1..nextGen' :
                /\ ~Refused(Pruned(raw'[p], t), request'[p])
                /\ next'[p] = Apply(Pruned(raw'[p], t), request'[p], t, g)
                /\ answer'[p] = Answer(Pruned(raw'[p], t), request'[p])
<1> DEFINE Goal == /\ pc'[p] # "idle" => since'[p] <= clock'
                   /\ pc'[p] = "import" => \E t \in since'[p]..clock' : next'[p] = NormalizeLegacy(legacy', t)
                   /\ pc'[p] = "write" =>
                        \E t \in since'[p]..clock', g \in 1..nextGen' :
                          /\ ~Refused(Pruned(raw'[p], t), request'[p])
                          /\ next'[p] = Apply(Pruned(raw'[p], t), request'[p], t, g)
                          /\ answer'[p] = Answer(Pruned(raw'[p], t), request'[p])
<1>t. /\ clock \in Nat /\ nextGen \in Nat /\ nextGen > 0
      /\ since \in [Procs -> Nat] /\ pc \in [Procs -> {"idle", "lock", "read", "import", "write", "return"}]
      /\ raw \in [Procs -> Domain \cup {Unset}] /\ next \in [Procs -> Domain \cup {Unset}]
      /\ answer \in [Procs -> Replies]
  BY DEF IndInv, TypeOK, RefInv, Generations
<1>f. clock' \in {clock, clock + 1} /\ nextGen' \in {nextGen, nextGen + 1} /\ legacy' = legacy
  BY Forward
<1>k. pc[p] # "idle" => since[p] <= clock
  BY DEF RefInv, Timely
<1>1. ASSUME pc'[p] \in {"idle", "return", "read", "lock"}, pc[p] # "idle", since' = since
      PROVE  Goal
  BY <1>1, <1>t, <1>f, <1>k
<1>2. ASSUME pc[p] # "idle", NEW d \in Domain, Sound(d), Work(p, d), UNCHANGED <<since, clock, request>>
      PROVE  Goal
  <2>1. CASE \E r : Finish(p, r)
    BY <1>1, <1>2, <1>t, <2>1 DEF Finish, Goto
  <2>2. CASE ~\E r : Finish(p, r)
    <3>1. /\ ~Refused(Pruned(d, clock), request[p])
          /\ raw' = [raw EXCEPT ![p] = d]
          /\ next' = [next EXCEPT ![p] = Apply(Pruned(d, clock), request[p], clock, nextGen)]
          /\ answer' = [answer EXCEPT ![p] = Answer(Pruned(d, clock), request[p])]
          /\ Goto(p, "write")
      BY <1>2, <2>2, WorkPrepares
    <3>2. /\ ~Refused(Pruned(raw'[p], clock), request'[p])
          /\ next'[p] = Apply(Pruned(raw'[p], clock), request'[p], clock, nextGen)
          /\ answer'[p] = Answer(Pruned(raw'[p], clock), request'[p])
          /\ pc'[p] = "write"
      BY <1>2, <1>t, <3>1 DEF Goto
    <3>3. clock \in since'[p]..clock' /\ nextGen \in 1..nextGen' /\ since'[p] <= clock'
      BY <1>2, <1>t, <1>f, <1>k
    <3> QED
      BY <3>2, <3>3
  <2> QED
    BY <2>1, <2>2
<1>3. CASE Read(p)
  <2>1. kv \in Domain /\ Sound(kv)
    BY <1>3 DEF Read, IndInv, TypeOK, EntrySound
  <2> QED
    BY <1>2, <1>3, <2>1 DEF Read
<1>4. CASE WriteImport(p)
  <2>1. next[p] \in Domain /\ Sound(next[p])
    BY <1>4, StoreAssumption DEF WriteImport, IndInv, ControlOK, SoundCopies
  <2> QED
    BY <1>2, <1>4, <2>1 DEF WriteImport
<1>5. CASE ReadLegacy(p)
  <2>1. pc'[p] = "import" /\ next'[p] = NormalizeLegacy(legacy, clock) /\ since' = since /\ clock' = clock
    BY <1>5, <1>t DEF ReadLegacy, sharedVars, Goto
  <2>2. clock \in since'[p]..clock' /\ since'[p] <= clock'
    BY <1>5, <1>t, <1>k, <2>1 DEF ReadLegacy
  <2> QED
    BY <1>f, <2>1, <2>2
<1>6. CASE \E q \in Sent : Start(p, q)
  BY <1>6, <1>t DEF Start, sharedVars, Goto
<1>7. CASE Lock(p)
  BY <1>1, <1>7, <1>t DEF Lock, Goto, procVars
<1>8. CASE ImportLost(p)
  BY <1>1, <1>8, <1>t DEF ImportLost, Goto, procVars
<1>9. CASE Write(p)
  BY <1>1, <1>9, <1>t DEF Write, Finish, Goto
<1>10. CASE WriteLost(p)
  BY <1>1, <1>10, <1>t DEF WriteLost, Finish, Goto
<1>11. CASE StoreFails(p)
  BY <1>1, <1>11, <1>t DEF StoreFails, Finish, Goto
<1>12. CASE Return(p)
  BY <1>12, <1>t DEF Return, Goto
<1> QED
  BY <1>3, <1>4, <1>5, <1>6, <1>7, <1>8, <1>9, <1>10, <1>11, <1>12 DEF Step

(* A write that is prepared adds at most the generation just drawn for it,  *)
(* and a write that succeeds adds what it had prepared.                     *)
LEMMA DrawnStep ==
  ASSUME IndInv, NEW p \in Procs,
         Step(p) \/ StoreFails(p) \/ (\E q \in Sent : Start(p, q))
  PROVE  /\ pc'[p] = "write" => \A g \in Drawn(p)' : g = nextGen /\ nextGen' = nextGen + 1
         /\ \/ born' = born
            \/ born' = born \cup Drawn(p) /\ pc[p] = "write" /\ pc'[p] # "write"
<1>t. pc \in [Procs -> {"idle", "lock", "read", "import", "write", "return"}] /\ nextGen \in Nat
      /\ raw \in [Procs -> Domain \cup {Unset}] /\ next \in [Procs -> Domain \cup {Unset}]
      /\ born \in SUBSET Nat
  BY DEF IndInv, TypeOK
<1>1. ASSUME NEW d \in Domain, Sound(d), Work(p, d), pc'[p] = "write", NEW g \in Drawn(p)'
      PROVE  g = nextGen /\ nextGen' = nextGen + 1
  <2>1. /\ request[p] \in Mutation
        /\ raw' = [raw EXCEPT ![p] = d]
        /\ next' = [next EXCEPT ![p] = Apply(Pruned(d, clock), request[p], clock, nextGen)]
        /\ nextGen' = nextGen + (IF request[p].kind = "create" THEN 1 ELSE 0)
    BY <1>1, <1>t, WorkPrepares DEF Finish, Goto
  <2>2. raw'[p] = d /\ next'[p] = Apply(Pruned(d, clock), request[p], clock, nextGen)
    BY <1>t, <2>1
  <2>3. PICK m \in Apply(Pruned(d, clock), request[p], clock, nextGen).rooms \ d.rooms : g = m.gen
    BY <1>1, <2>2 DEF Drawn
  <2>4. m.gen = nextGen /\ request[p].kind = "create"
    BY <1>t, <2>1, ApplyGenerations
  <2> QED
    BY <2>1, <2>3, <2>4
<1>2. CASE Read(p)
  <2>1. kv \in Domain /\ Sound(kv)
    BY <1>2 DEF Read, IndInv, TypeOK, EntrySound
  <2> QED
    BY <1>1, <1>2, <2>1 DEF Read
<1>3. CASE WriteImport(p)
  <2>1. next[p] \in Domain /\ Sound(next[p])
    BY <1>3, StoreAssumption DEF WriteImport, IndInv, ControlOK, SoundCopies
  <2> QED
    BY <1>1, <1>3, <2>1 DEF WriteImport
<1>4. CASE Write(p)
  BY <1>4, <1>t DEF Write, Finish, Goto, Drawn
<1>5. ASSUME Lock(p) \/ ReadLegacy(p) \/ ImportLost(p) \/ WriteLost(p) \/ Return(p)
               \/ StoreFails(p) \/ (\E q \in Sent : Start(p, q))
      PROVE  born' = born /\ pc'[p] # "write"
  BY <1>5, <1>t DEF Lock, ReadLegacy, ImportLost, WriteLost, Return, StoreFails, Start,
                    sharedVars, Finish, Goto
<1> QED
  BY <1>2, <1>3, <1>4, <1>5 DEF Step

LEMMA BelowGrows ==
  ASSUME NEW m \in Nat, NEW n \in Nat, m <= n
  PROVE  1..(m - 1) \subseteq 1..(n - 1)
  OBVIOUS

LEMMA GenerationsStep ==
  ASSUME IndInv, RefInv, [Next]_vars, NEW p \in Procs,
         Step(p) \/ StoreFails(p) \/ (\E q \in Sent : Start(p, q))
  PROVE  Generations'
<1>t. nextGen \in Nat /\ nextGen > 0
  BY DEF IndInv, TypeOK, RefInv, Generations
<1>1. nextGen' \in {nextGen, nextGen + 1}
  BY Forward
<1>2. ASSUME NEW r \in Procs, r # p, pc'[r] = "write"
      PROVE  pc[r] = "write" /\ Drawn(r)' = Drawn(r)
  BY <1>2, OthersKeep DEF Drawn
<1>3. pc'[p] = "write" => \A g \in Drawn(p)' : g = nextGen /\ nextGen' = nextGen + 1
  BY DrawnStep
<1>4. \/ born' = born
      \/ born' = born \cup Drawn(p) /\ pc[p] = "write" /\ pc'[p] # "write"
  BY DrawnStep
<1>g. /\ \A g \in born : g \in 1..(nextGen - 1)
      /\ \A r \in Procs :
           pc[r] = "write" => \A g \in Drawn(r) : g \in 1..(nextGen - 1) /\ g \notin born
      /\ \A r, s \in Procs :
           pc[r] = "write" /\ pc[s] = "write" /\ r # s => Drawn(r) \cap Drawn(s) = {}
  BY DEF RefInv, Generations
<1>n. 1..(nextGen - 1) \subseteq 1..(nextGen' - 1)
  <2>1. nextGen' \in Nat /\ nextGen <= nextGen'
    BY <1>t, <1>1
  <2> QED
    BY <1>t, <2>1, BelowGrows
<1>5. \A g \in born' : g \in 1..(nextGen' - 1)
  BY <1>g, <1>n, <1>4
<1>6. ASSUME NEW r \in Procs, pc'[r] = "write", NEW g \in Drawn(r)'
      PROVE  g \in 1..(nextGen' - 1) /\ g \notin born'
  <2>1. CASE r = p
    BY <1>t, <1>g, <1>3, <1>4, <1>6, <2>1
  <2>2. CASE r # p
    <3>1. pc[r] = "write" /\ g \in Drawn(r)
      BY <1>2, <1>6, <2>2
    <3> QED
      BY <1>g, <1>n, <1>4, <2>2, <3>1
  <2> QED
    BY <2>1, <2>2
<1>7. ASSUME NEW r \in Procs, NEW s \in Procs, pc'[r] = "write", pc'[s] = "write", r # s,
             NEW g \in Drawn(r)' \cap Drawn(s)'
      PROVE  FALSE
  <2>1. CASE r # p /\ s # p
    BY <1>g, <1>2, <1>7, <2>1
  <2>2. CASE r = p
    BY <1>t, <1>g, <1>2, <1>3, <1>7, <2>2
  <2>3. CASE s = p
    BY <1>t, <1>g, <1>2, <1>3, <1>7, <2>3
  <2> QED
    BY <2>1, <2>2, <2>3
<1> QED
  BY <1>t, <1>1, <1>5, <1>6, <1>7 DEF Generations

LEMMA NextRefInv == IndInv /\ RefInv /\ [Next]_vars => RefInv'
<1> SUFFICES ASSUME IndInv, RefInv, [Next]_vars PROVE RefInv'
  OBVIOUS
<1>1. ASSUME NEW p \in Procs, Step(p) \/ StoreFails(p) \/ (\E q \in Sent : Start(p, q))
      PROVE  RefInv'
  <2>1. ASSUME NEW r \in Procs
        PROVE  /\ pc'[r] # "idle" => since'[r] <= clock'
               /\ pc'[r] = "import" => \E t \in since'[r]..clock' : next'[r] = NormalizeLegacy(legacy', t)
               /\ pc'[r] = "write" =>
                    \E t \in since'[r]..clock', g \in 1..nextGen' :
                      /\ ~Refused(Pruned(raw'[r], t), request'[r])
                      /\ next'[r] = Apply(Pruned(raw'[r], t), request'[r], t, g)
                      /\ answer'[r] = Answer(Pruned(raw'[r], t), request'[r])
    <3>1. CASE r = p
      BY <1>1, <3>1, PreparedStep
    <3>2. CASE r # p
      <4>1. /\ pc'[r] = pc[r] /\ request'[r] = request[r] /\ since'[r] = since[r]
            /\ raw'[r] = raw[r] /\ next'[r] = next[r] /\ answer'[r] = answer[r]
        BY <1>1, <3>2, OthersKeep
      <4> QED
        BY <4>1, PreparedFrame
    <3> QED
      BY <3>1, <3>2
  <2>2. Timely' /\ ImportPrepared' /\ WritePrepared'
    BY <2>1 DEF Timely, ImportPrepared, WritePrepared
  <2>3. Generations'
    BY <1>1, GenerationsStep
  <2> QED
    BY <2>2, <2>3 DEF RefInv
<1>2. ASSUME Tick \/ UNCHANGED vars PROVE RefInv'
  <2>1. UNCHANGED <<nextGen, born, pc, request, since, raw, next, answer>>
    BY <1>2 DEF Tick, vars, sharedVars, procVars
  <2>2. ASSUME NEW r \in Procs
        PROVE  /\ pc'[r] # "idle" => since'[r] <= clock'
               /\ pc'[r] = "import" => \E t \in since'[r]..clock' : next'[r] = NormalizeLegacy(legacy', t)
               /\ pc'[r] = "write" =>
                    \E t \in since'[r]..clock', g \in 1..nextGen' :
                      /\ ~Refused(Pruned(raw'[r], t), request'[r])
                      /\ next'[r] = Apply(Pruned(raw'[r], t), request'[r], t, g)
                      /\ answer'[r] = Answer(Pruned(raw'[r], t), request'[r])
    <3>1. /\ pc'[r] = pc[r] /\ request'[r] = request[r] /\ since'[r] = since[r]
          /\ raw'[r] = raw[r] /\ next'[r] = next[r] /\ answer'[r] = answer[r]
      BY <2>1
    <3> QED
      BY <3>1, PreparedFrame
  <2>3. Timely' /\ ImportPrepared' /\ WritePrepared'
    BY <2>2 DEF Timely, ImportPrepared, WritePrepared
  <2>4. Generations'
    BY <2>1 DEF RefInv, Generations, Drawn
  <2> QED
    BY <2>3, <2>4 DEF RefInv
<1> QED
  BY <1>1, <1>2 DEF Next, Quiescent

LEMMA RefInvariance == Spec => []RefInv
  BY InitRefInv, NextRefInv, Invariance, PTL DEF Spec

-----------------------------------------------------------------------------
Pending == {"lock", "read", "import", "write"}

(* The state of every request as the directory sees it. *)
AbsState == [p \in Procs |-> CASE pc[p] = "idle" -> "idle"
                              [] pc[p] = "return" -> "answered"
                              [] OTHER -> "pending"]

(* The operations on domain values mean the same on both sides. *)
LEMMA SameValues ==
  /\ Directory!Mutation = Mutation /\ Directory!ListRequest = ListRequest
  /\ Directory!Request = Request
  /\ Directory!NoReply = NoReply /\ Directory!NoRequest = NoRequest
  /\ Directory!RefusedReply = RefusedReply
  /\ Contended \in Directory!Failures /\ KvError \in Directory!Failures
  /\ \A d : Directory!View(d) = View(d)
  /\ \A d, t : Directory!Pruned(d, t) = Pruned(d, t)
  /\ \A d, q : Directory!Refused(d, q) = Refused(d, q)
  /\ \A d, q : Directory!Answer(d, q) = Answer(d, q)
  /\ \A d, q, t, g : Directory!Apply(d, q, t, g) = Apply(d, q, t, g)
  /\ \A d, t : Directory!NormalizeLegacy(d, t) = NormalizeLegacy(d, t)
<1>1. /\ Directory!CreateRequest = CreateRequest /\ Directory!DeleteRequest = DeleteRequest
      /\ Directory!PresenceRequest = PresenceRequest /\ Directory!ListRequest = ListRequest
  BY Zenon DEF CreateRequest, DeleteRequest, PresenceRequest, ListRequest, NoRoomID,
        Directory!CreateRequest, Directory!DeleteRequest, Directory!PresenceRequest,
        Directory!ListRequest, Directory!NoRoomID
<1>2. Directory!Mutation = Mutation /\ Directory!Request = Request
  BY <1>1, Zenon DEF Mutation, Request, Directory!Mutation, Directory!Request
<1>3. /\ Directory!NoReply = NoReply /\ Directory!NoRequest = NoRequest
      /\ Directory!RefusedReply = RefusedReply
      /\ Contended \in Directory!Failures /\ KvError \in Directory!Failures
      /\ \A d : Directory!View(d) = View(d)
  BY DEF NoReply, NoRequest, RefusedReply, Contended, KvError, View, Directory!NoReply,
         Directory!NoRequest, Directory!RefusedReply, Directory!Failures, Directory!View
<1>4. /\ \A ps, t : Directory!PrunePresence(ps, t) = PrunePresence(ps, t)
      /\ \A rs : Directory!IdsOf(rs) = IdsOf(rs)
      /\ \A ps, r : Directory!Occupants(ps, r) = Occupants(ps, r)
      /\ \A ps, u : Directory!EntriesOf(ps, u) = EntriesOf(ps, u)
  <2>1. \A ps, t : Directory!PrunePresence(ps, t) = PrunePresence(ps, t)
    BY Zenon DEF PrunePresence, Directory!PrunePresence
  <2>2. \A rs : Directory!IdsOf(rs) = IdsOf(rs)
    BY Zenon DEF IdsOf, Directory!IdsOf
  <2>3. \A ps, r : Directory!Occupants(ps, r) = Occupants(ps, r)
    BY Zenon DEF Occupants, Directory!Occupants
  <2>4. \A ps, u : Directory!EntriesOf(ps, u) = EntriesOf(ps, u)
    BY Zenon DEF EntriesOf, Directory!EntriesOf
  <2> QED
    BY <2>1, <2>2, <2>3, <2>4
<1>5. \A d, t : Directory!Pruned(d, t) = Pruned(d, t)
  BY <1>4, Zenon DEF Pruned, Directory!Pruned
<1>c. \A S : Directory!Cardinality(S) = Cardinality(S)
  BY Zenon DEF Cardinality, IsFiniteSet, Directory!Cardinality, Directory!IsFiniteSet
<1>6. \A d, q : Directory!Refused(d, q) = Refused(d, q)
  <2>1. \A d, q : Directory!DirectoryFull(d, q) = DirectoryFull(d, q)
    BY <1>4, <1>c, Zenon DEF DirectoryFull, Directory!DirectoryFull
  <2>2. \A d, q : Directory!DeleteForbidden(d, q) = DeleteForbidden(d, q)
    BY Zenon DEF DeleteForbidden, Directory!DeleteForbidden
  <2>3. \A d, q : Directory!RoomNotFound(d, q) = RoomNotFound(d, q)
    BY <1>4, Zenon DEF RoomNotFound, Directory!RoomNotFound, NoRoomID, Directory!NoRoomID
  <2>4. \A d, q : Directory!RoomFull(d, q) = RoomFull(d, q)
    BY <1>4, <1>c, Zenon DEF RoomFull, Directory!RoomFull
  <2> QED
    BY <2>1, <2>2, <2>3, <2>4, Zenon DEF Refused, Directory!Refused
<1>7. \A d, q : Directory!Answer(d, q) = Answer(d, q)
  BY <1>4, Zenon DEF Answer, Directory!Answer
<1>8. \A d, q, t, g : Directory!Apply(d, q, t, g) = Apply(d, q, t, g)
  <2>1. \A d, q, g : Directory!CreateRoom(d, q, g) = CreateRoom(d, q, g)
    BY <1>4, Zenon DEF CreateRoom, Directory!CreateRoom
  <2>2. \A d, q : Directory!DeleteRoom(d, q) = DeleteRoom(d, q)
    BY Zenon DEF DeleteRoom, Directory!DeleteRoom
  <2>3. \A d, q, t : Directory!SetPresence(d, q, t) = SetPresence(d, q, t)
    BY Zenon DEF SetPresence, Directory!SetPresence, NoRoomID, Directory!NoRoomID
  <2> QED
    BY <2>1, <2>2, <2>3, Zenon DEF Apply, Directory!Apply
<1>9. \A d, t : Directory!NormalizeLegacy(d, t) = NormalizeLegacy(d, t)
  <2>1. ASSUME NEW d, NEW t
        PROVE  Directory!NormalizeLegacy(d, t) = NormalizeLegacy(d, t)
    <3>1. PICK kept : kept = {e \in PrunePresence(d.presence, t) : e.room \in IdsOf(d.rooms)}
      OBVIOUS
    <3>2. PICK won : won = {e \in kept : \A f \in EntriesOf(kept, e.user) :
                              f.exp < e.exp \/ (f.exp = e.exp /\ e.room <= f.room)}
      OBVIOUS
    <3>3. NormalizeLegacy(d, t) = [d EXCEPT !.presence = won]
      BY <3>1, <3>2, Zenon DEF NormalizeLegacy
    <3>4. kept = {e \in Directory!PrunePresence(d.presence, t) :
                    e.room \in Directory!IdsOf(d.rooms)}
      BY <1>4, <3>1, Zenon
    <3>5. won = {e \in kept : \A f \in Directory!EntriesOf(kept, e.user) :
                   f.exp < e.exp \/ (f.exp = e.exp /\ e.room <= f.room)}
      BY <1>4, <3>2, Zenon
    <3>6. Directory!NormalizeLegacy(d, t) = [d EXCEPT !.presence = won]
      BY <3>4, <3>5, Zenon DEF Directory!NormalizeLegacy
    <3> QED
      BY <3>3, <3>6, Zenon
  <2> QED
    BY <2>1, Zenon
<1> QED
  BY <1>1, <1>2, <1>3, <1>5, <1>6, <1>7, <1>8, <1>9

LEMMA InitRefines == Init => Directory!Init
  BY DEF Init, Directory!Init, NoRequest, NoReply, Directory!NoRequest, Directory!NoReply

(* A goroutine that works on is pending throughout. *)
LEMMA PendingStutters ==
  ASSUME IndInv, NEW p \in Procs, pc[p] \in Pending, NEW label \in Pending, Goto(p, label)
  PROVE  UNCHANGED AbsState
  BY DEF IndInv, TypeOK, Goto, AbsState, Pending

LEMMA FinishAnswers ==
  ASSUME IndInv, NEW p \in Procs, pc[p] \in Pending, NEW r, Finish(p, r), UNCHANGED <<request, since>>
  PROVE  Directory!Answered(p, r)
<1>1. AbsState[p] = "pending"
  BY DEF AbsState, Pending
<1>2. AbsState' = [AbsState EXCEPT ![p] = "answered"]
  BY DEF IndInv, TypeOK, Finish, Goto, AbsState
<1> QED
  BY <1>1, <1>2 DEF AbsState, Finish, Directory!Answered

LEMMA StartRefines ==
  ASSUME IndInv, NEW p \in Procs, NEW q \in Sent, Start(p, q)
  PROVE  Directory!Invoke(p)
<1>1. AbsState[p] = "idle"
  BY DEF AbsState, Start
<1>2. AbsState' = [AbsState EXCEPT ![p] = "pending"]
  BY DEF IndInv, TypeOK, Start, Goto, AbsState
<1>3. q \in Directory!Request
  BY SameValues DEF Sent
<1> QED
  BY <1>1, <1>2, <1>3 DEF AbsState, Start, sharedVars, Directory!Invoke

LEMMA ReturnRefines ==
  ASSUME IndInv, NEW p \in Procs, Return(p)
  PROVE  Directory!Return(p)
<1>1. AbsState[p] = "answered"
  BY DEF AbsState, Return
<1>2. AbsState' = [AbsState EXCEPT ![p] = "idle"]
  BY DEF IndInv, TypeOK, Return, Goto, AbsState
<1> QED
  BY <1>1, <1>2, SameValues DEF AbsState, Return, sharedVars, Directory!Return

(* An answer that changes nothing is given on the domain as it is. *)
LEMMA AnswerRefines ==
  ASSUME IndInv, NEW p \in Procs, pc[p] \in Pending, UNCHANGED <<request, since, legacy, clock, born>>,
         kv' \in Directory!Seeds(p), nextGen' = nextGen,
         \/ request[p] \in ListRequest /\ Finish(p, View(Pruned(kv', clock)))
         \/ Refused(Pruned(kv', clock), request[p]) /\ Finish(p, RefusedReply)
  PROVE  Directory!Observe(p) \/ Directory!Refuse(p)
<1>1. CASE request[p] \in ListRequest /\ Finish(p, View(Pruned(kv', clock)))
  <2>1. PICK r : r = View(Pruned(kv', clock))
    OBVIOUS
  <2>2. Directory!Answered(p, r)
    BY <1>1, <2>1, FinishAnswers
  <2>3. r = Directory!View(Directory!Pruned(kv', clock))
    BY <2>1, SameValues
  <2> QED
    BY <1>1, <2>2, <2>3, SameValues DEF Directory!Observe, Directory!Answered
<1>2. CASE Refused(Pruned(kv', clock), request[p]) /\ Finish(p, RefusedReply)
  <2>1. Directory!Answered(p, Directory!RefusedReply)
    BY <1>2, FinishAnswers, SameValues
  <2>2. Directory!Refused(Directory!Pruned(kv', clock), request[p])
    BY <1>2, SameValues
  <2> QED
    BY <2>1, <2>2 DEF Directory!Refuse
<1> QED
  BY <1>1, <1>2

LEMMA ReadRefines ==
  ASSUME IndInv, NEW p \in Procs, Read(p)
  PROVE  \/ Directory!Observe(p) \/ Directory!Refuse(p) \/ Directory!Draw
         \/ UNCHANGED <<kv, legacy, clock, nextGen, born, AbsState, request, since, reply>>
<1>1. /\ kv \in Domain /\ Sound(kv) /\ kv # Unset /\ pc[p] \in Pending /\ Work(p, kv)
      /\ UNCHANGED <<kv, legacy, clock, born, request, since>>
  BY DEF IndInv, TypeOK, EntrySound, Read, Pending
<1>2. kv' \in Directory!Seeds(p)
  BY <1>1 DEF Directory!Seeds
<1>3. CASE /\ nextGen' = nextGen
           /\ \/ request[p] \in ListRequest /\ Finish(p, View(Pruned(kv', clock)))
              \/ Refused(Pruned(kv', clock), request[p]) /\ Finish(p, RefusedReply)
  BY <1>1, <1>2, <1>3, AnswerRefines
<1>4. CASE /\ nextGen' = nextGen + (IF request[p].kind = "create" THEN 1 ELSE 0)
           /\ Goto(p, "write")
           /\ reply' = reply
  <2>1. UNCHANGED AbsState
    BY <1>1, <1>4, PendingStutters DEF Pending
  <2>2. nextGen' = nextGen + 1 \/ nextGen' = nextGen
    BY <1>4 DEF IndInv, TypeOK
  <2> QED
    BY <1>1, <1>4, <2>1, <2>2 DEF AbsState, Directory!Draw, Directory!procVars
<1> QED
  BY <1>1, <1>3, <1>4, WorkPrepares

LEMMA WriteImportRefines ==
  ASSUME IndInv, RefInv, NEW p \in Procs, WriteImport(p)
  PROVE  Directory!Observe(p) \/ Directory!Refuse(p) \/ Directory!Import(p)
<1>1. /\ next[p] \in Domain /\ Sound(next[p]) /\ kv = Unset /\ kv' = next[p]
      /\ pc[p] \in Pending /\ Work(p, next[p])
      /\ UNCHANGED <<legacy, clock, born, request, since>>
  BY StoreAssumption DEF IndInv, ControlOK, SoundCopies, WriteImport, Pending
<1>2. kv' \in Directory!Seeds(p)
  <2>1. \E t \in since[p]..clock : next[p] = Directory!NormalizeLegacy(legacy, t)
    BY SameValues DEF RefInv, ImportPrepared, WriteImport
  <2> QED
    BY <1>1, <2>1 DEF Directory!Seeds
<1>3. CASE /\ nextGen' = nextGen
           /\ \/ request[p] \in ListRequest /\ Finish(p, View(Pruned(kv', clock)))
              \/ Refused(Pruned(kv', clock), request[p]) /\ Finish(p, RefusedReply)
  BY <1>1, <1>2, <1>3, AnswerRefines
<1>4. CASE /\ nextGen' = nextGen + (IF request[p].kind = "create" THEN 1 ELSE 0)
           /\ Goto(p, "write")
           /\ reply' = reply
  <2>1. UNCHANGED AbsState /\ AbsState[p] = "pending"
    BY <1>1, <1>4, PendingStutters DEF Pending, AbsState
  <2>2. nextGen' \in {nextGen, nextGen + 1}
    BY <1>4 DEF IndInv, TypeOK
  <2> QED
    BY <1>1, <1>2, <1>4, <2>1, <2>2 DEF AbsState, Directory!Import, Directory!procVars
<1> QED
  BY <1>1, <1>3, <1>4, WorkPrepares

(* The commit: the value that is replaced is the value that was read. *)
LEMMA WriteRefines ==
  ASSUME IndInv, RefInv, NEW p \in Procs, Write(p)
  PROVE  Directory!Commit(p)
<1> DEFINE q == request[p]
<1>1. /\ pc[p] = "write" /\ kv = raw[p] /\ kv \in Domain /\ kv # Unset /\ q \in Mutation
      /\ kv' = next[p] /\ born' = born \cup Drawn(p)
      /\ UNCHANGED <<legacy, clock, nextGen, request, since>>
  BY StoreAssumption DEF IndInv, ControlOK, Write, Drawn
<1>2. PICK t \in since[p]..clock, h \in 1..nextGen :
        /\ ~Refused(Pruned(kv, t), q)
        /\ next[p] = Apply(Pruned(kv, t), q, t, h)
        /\ answer[p] = Answer(Pruned(kv, t), q)
  BY <1>1 DEF RefInv, WritePrepared
<1>3. nextGen \in Nat /\ nextGen > 0 /\ nextGen \in 1..nextGen /\ nextGen \notin born
      /\ h \in Nat
  BY DEF IndInv, TypeOK, RefInv, Generations
<1>4. \E g \in 1..nextGen :
        /\ q.kind = "create" => g \notin born
        /\ kv' = Apply(Pruned(kv, t), q, t, g)
        /\ born' = IF kv'.rooms \subseteq kv.rooms THEN born ELSE born \cup {g}
  <2>1. CASE kv'.rooms \subseteq kv.rooms
    <3>1. kv' = Apply(Pruned(kv, t), q, t, nextGen)
      BY <1>1, <1>2, <2>1, GenerationUnused
    <3>2. Drawn(p) = {}
      BY <1>1, <2>1 DEF Drawn
    <3> QED
      BY <1>1, <1>3, <2>1, <3>1, <3>2
  <2>2. CASE ~(kv'.rooms \subseteq kv.rooms)
    <3>1. \A m \in kv'.rooms \ kv.rooms : m.gen = h
      BY <1>1, <1>2, <1>3, ApplyGenerations
    <3>2. Drawn(p) = {h}
      BY <1>1, <2>2, <3>1 DEF Drawn
    <3>3. h \notin born
      BY <1>1, <3>2 DEF RefInv, Generations
    <3> QED
      BY <1>1, <1>2, <2>2, <3>2, <3>3
  <2> QED
    BY <2>1, <2>2
<1>5. Directory!Answered(p, Directory!Answer(Directory!Pruned(kv, t), q))
  <2>1. PICK r : r = answer[p]
    OBVIOUS
  <2>2. Directory!Answered(p, r)
    BY <1>1, <2>1, FinishAnswers DEF Write, Pending
  <2>3. r = Directory!Answer(Directory!Pruned(kv, t), q)
    BY <1>2, <2>1, SameValues
  <2> QED
    BY <2>2, <2>3 DEF Directory!Answered
<1>6. /\ ~Directory!Refused(Directory!Pruned(kv, t), q)
      /\ \E g \in 1..nextGen :
           /\ q.kind = "create" => g \notin born
           /\ kv' = Directory!Apply(Directory!Pruned(kv, t), q, t, g)
           /\ born' = IF kv'.rooms \subseteq kv.rooms THEN born ELSE born \cup {g}
  BY <1>2, <1>4, SameValues
<1> QED
  BY <1>1, <1>5, <1>6, SameValues DEF Directory!Commit

(* Giving up, of the retry loop or of the store, changes nothing. *)
LEMMA FailRefines ==
  ASSUME IndInv, NEW p \in Procs, WriteLost(p) \/ StoreFails(p)
  PROVE  \/ Directory!Fail(p)
         \/ UNCHANGED <<kv, legacy, clock, nextGen, born, AbsState, request, since, reply>>
<1>1. /\ pc[p] \in Pending
      /\ UNCHANGED <<kv, legacy, clock, nextGen, born, request, since>>
  BY DEF WriteLost, StoreFails, Pending, sharedVars
<1>2. ASSUME NEW r \in Directory!Failures, Finish(p, r) PROVE Directory!Fail(p)
  BY <1>1, <1>2, FinishAnswers DEF Directory!Fail
<1>3. CASE Finish(p, Contended) \/ Finish(p, KvError)
  BY <1>2, <1>3, SameValues
<1>4. CASE Goto(p, "read") /\ reply' = reply
  BY <1>1, <1>4, PendingStutters DEF Pending
<1> QED
  BY <1>3, <1>4 DEF WriteLost, StoreFails

LEMMA StepRefines == IndInv /\ RefInv /\ [Next]_vars => [Directory!Next]_(Directory!vars)
<1> SUFFICES ASSUME IndInv, RefInv, [Next]_vars PROVE [Directory!Next]_(Directory!vars)
  OBVIOUS
<1> DEFINE Stutters == UNCHANGED <<kv, legacy, clock, nextGen, born, AbsState, request, since, reply>>
<1>0. Stutters => [Directory!Next]_(Directory!vars)
  BY DEF AbsState, Directory!vars
<1>1. ASSUME NEW p \in Procs, Lock(p) \/ ReadLegacy(p) \/ ImportLost(p)
      PROVE  Stutters
  <2>1. pc[p] \in Pending /\ \E label \in Pending : Goto(p, label)
    BY <1>1 DEF Lock, ReadLegacy, ImportLost, Pending
  <2>2. UNCHANGED AbsState
    BY <2>1, PendingStutters
  <2> QED
    BY <1>1, <2>2 DEF Lock, ReadLegacy, ImportLost, sharedVars, procVars
<1>2. ASSUME NEW p \in Procs, Step(p) \/ StoreFails(p) \/ (\E q \in Sent : Start(p, q))
      PROVE  Directory!Next \/ Stutters
  BY <1>1, <1>2, ReadRefines, WriteImportRefines, WriteRefines, FailRefines, StartRefines,
     ReturnRefines DEF Step, Directory!Next
<1>3. CASE Tick
  <2>1. UNCHANGED AbsState
    BY <1>3 DEF Tick, AbsState
  <2>2. Directory!Tick
    BY <1>3, <2>1 DEF Tick, procVars, AbsState, Directory!Tick, Directory!procVars
  <2> QED
    BY <2>2 DEF Directory!Next
<1>4. CASE UNCHANGED vars
  <2>1. UNCHANGED AbsState
    BY <1>4 DEF vars, AbsState
  <2> QED
    BY <1>0, <1>4, <2>1 DEF vars, sharedVars, procVars
<1> HIDE DEF Stutters
<1> QED
  BY <1>0, <1>2, <1>3, <1>4 DEF Next, Quiescent

(* Every request takes effect at one instant between its arrival and its    *)
(* answer, or fails and changes nothing, and the answer is that of the      *)
(* domain it replaced: on any number of nodes and goroutines the            *)
(* compare-and-set loop implements the directory (mutateVoiceDomain in      *)
(* voice_domain_store.go; the promise is the comment above                  *)
(* voiceRoomService in voice_room_service.go).                              *)
THEOREM StoreImplementsDirectory == Spec => ImplementsDirectory
<1>1. Spec => []IndInv /\ []RefInv
  BY Invariance, RefInvariance
<1>2. Spec => Directory!Init /\ [][Directory!Next]_(Directory!vars)
  BY <1>1, InitRefines, StepRefines, PTL DEF Spec
<1> QED
  BY <1>2 DEF ImplementsDirectory, Directory!Spec

=============================================================================
