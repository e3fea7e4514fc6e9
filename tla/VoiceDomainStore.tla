--------------------------- MODULE VoiceDomainStore ---------------------------
(***************************************************************************)
(* How the plugin keeps the voice domain: goroutines of several server      *)
(* nodes read the entry, change a private copy and write it back with a     *)
(* compare-and-set, retrying a bounded number of times                      *)
(* (server/voice_domain_store.go).  Mutations of one node run under that    *)
(* node's voiceDomainMu; nothing but the compare-and-set orders the nodes.  *)
(*                                                                         *)
(* A step is an access to the shared store or to the mutex.  The local work *)
(* between a read and the next access (prune, mutate, encode) is taken at   *)
(* the read: a write succeeds only on the value that was read, so only the  *)
(* time of the prune could tell the difference.                             *)
(***************************************************************************)
EXTENDS VoiceDomain

CONSTANTS
  Nodes,         \* server nodes running the plugin
  NodeOf,        \* the node of each goroutine
  Procs,         \* goroutines serving requests
  NoProc,        \* holder of a free mutex
  LegacyValues,  \* values of earlier builds the directory may start from
  Unset,         \* the domain key has not been written yet
  MaxAttempts,   \* voiceRoomsWriteAttempts
  MaxClock,      \* bound on the clock
  MaxRequests    \* bound on the requests started

ASSUME StoreAssumption ==
  /\ Procs \subseteq Nat /\ NodeOf \in [Procs -> Nodes]
  /\ NoProc \notin Procs
  /\ \A d \in LegacyValues : LegacyWellFormed(d)
  /\ Unset \notin Domain
  /\ MaxAttempts \in Nat \ {0, 1}
  /\ MaxClock \in Nat
  /\ MaxRequests \in Nat

VARIABLES
  kv,       \* the domain entry: Unset or a domain
  legacy,   \* the values under the two legacy keys
  clock,    \* model.GetMillis, in ticks
  nextGen,  \* the next identifier model.NewId will return
  mutex,    \* holder of voiceDomainMu, per node
  pc,       \* control state per goroutine
  request,  \* the request it serves
  attempt,  \* failed compare-and-sets of this request
  raw,      \* the value it read, the expected value of its write
  next,     \* the value it will write
  answer,   \* the result closure variables of its last attempt
  reply,    \* what the service returned
  started,  \* number of requests started
  born,     \* history: generations of all rooms ever committed
  since     \* history: the time its request arrived

sharedVars == <<kv, legacy, clock, nextGen, born>>
procVars == <<request, attempt, raw, next, answer, reply, since>>
vars == <<sharedVars, mutex, pc, procVars, started>>

NoRequest == [kind |-> "none"]
NoReply == [kind |-> "none"]
Contended == [kind |-> "contended"]
KvError == [kind |-> "kvError"]
RefusedReply == [kind |-> "refused"]
View(d) == [kind |-> "view", domain |-> d]

Init ==
  /\ kv = Unset
  /\ legacy \in LegacyValues
  /\ clock = 0
  /\ nextGen = 1
  /\ born = {}
  /\ mutex = [n \in Nodes |-> NoProc]
  /\ pc = [p \in Procs |-> "idle"]
  /\ request = [p \in Procs |-> NoRequest]
  /\ attempt = [p \in Procs |-> 0]
  /\ raw = [p \in Procs |-> Unset]
  /\ next = [p \in Procs |-> Unset]
  /\ answer = [p \in Procs |-> NoReply]
  /\ reply = [p \in Procs |-> NoReply]
  /\ since = [p \in Procs |-> 0]
  /\ started = 0

Goto(p, label) == pc' = [pc EXCEPT ![p] = label]

(* The service returns r; the handler's Unlock comes next. *)
Finish(p, r) ==
  /\ Goto(p, "return")
  /\ reply' = [reply EXCEPT ![p] = r]

(* A request arrives; of the idle goroutines of a node, which are alike, the *)
(* first takes it.  Listing takes no lock.                                  *)
Start(p, q) ==
  /\ pc[p] = "idle"
  /\ \A r \in Procs : r < p /\ NodeOf[r] = NodeOf[p] => pc[r] # "idle"
  /\ started < MaxRequests
  /\ started' = started + 1
  /\ request' = [request EXCEPT ![p] = q]
  /\ since' = [since EXCEPT ![p] = clock]
  /\ Goto(p, IF q \in Mutation THEN "lock" ELSE "read")
  /\ UNCHANGED <<sharedVars, mutex, attempt, raw, next, answer, reply>>

(* Broken variant: the handler goes on without the mutex. *)
LockSkipped(p) ==
  /\ pc[p] = "lock"
  /\ Goto(p, "read")
  /\ UNCHANGED <<sharedVars, mutex, procVars, started>>

Lock(p) ==
  /\ pc[p] = "lock"
  /\ mutex[NodeOf[p]] = NoProc
  /\ mutex' = [mutex EXCEPT ![NodeOf[p]] = p]
  /\ Goto(p, "read")
  /\ UNCHANGED <<sharedVars, procVars, started>>

(* Broken variant: the closure variables are not reset for a retry. *)
WorkKeepsAnswer(p, d) ==
  LET q == request[p]
      s == Pruned(d, clock)
  IN  \/ /\ q \in ListRequest
         /\ Finish(p, View(s))
         /\ UNCHANGED <<raw, next, answer, nextGen>>
      \/ /\ q \in Mutation
         /\ Refused(s, q)
         /\ Finish(p, RefusedReply)
         /\ UNCHANGED <<raw, next, answer, nextGen>>
      \/ /\ q \in Mutation
         /\ ~Refused(s, q)
         /\ raw' = [raw EXCEPT ![p] = d]
         /\ next' = [next EXCEPT ![p] = Apply(s, q, clock, nextGen)]
         /\ answer' = [answer EXCEPT ![p] = IF @ = NoReply THEN Answer(s, q) ELSE @]
         /\ nextGen' = nextGen + (IF q.kind = "create" THEN 1 ELSE 0)
         /\ Goto(p, "write")
         /\ UNCHANGED reply

(* readVoiceDomain has returned d: prune the copy, run the mutation on it   *)
(* and prepare the write, or answer a reader.                               *)
Work(p, d) ==
  LET q == request[p]
      s == Pruned(d, clock)
  IN  \/ /\ q \in ListRequest
         /\ Finish(p, View(s))
         /\ UNCHANGED <<raw, next, answer, nextGen>>
      \/ /\ q \in Mutation
         /\ Refused(s, q)
         /\ Finish(p, RefusedReply)
         /\ UNCHANGED <<raw, next, answer, nextGen>>
      \/ /\ q \in Mutation
         /\ ~Refused(s, q)
         /\ raw' = [raw EXCEPT ![p] = d]
         /\ next' = [next EXCEPT ![p] = Apply(s, q, clock, nextGen)]
         /\ answer' = [answer EXCEPT ![p] = Answer(s, q)]
         /\ nextGen' = nextGen + (IF q.kind = "create" THEN 1 ELSE 0)
         /\ Goto(p, "write")
         /\ UNCHANGED reply

Read(p) ==
  /\ pc[p] = "read"
  /\ kv # Unset
  /\ Work(p, kv)
  /\ UNCHANGED <<kv, legacy, clock, born, mutex, request, attempt, since, started>>

(* The key is unset: read and normalize the legacy values, to be written    *)
(* only over an unset key.                                                  *)
ReadLegacy(p) ==
  /\ pc[p] = "read"
  /\ kv = Unset
  /\ next' = [next EXCEPT ![p] = NormalizeLegacy(legacy, clock)]
  /\ Goto(p, "import")
  /\ UNCHANGED <<sharedVars, mutex, request, attempt, raw, answer, reply, since, started>>

WriteImport(p) ==
  /\ pc[p] = "import"
  /\ kv = Unset
  /\ kv' = next[p]
  /\ Work(p, next[p])
  /\ UNCHANGED <<legacy, clock, born, mutex, request, attempt, since, started>>

(* Another import came first.  The inner loop reads again; it cannot run    *)
(* out of attempts, because a written key never becomes unset.              *)
ImportLost(p) ==
  /\ pc[p] = "import"
  /\ kv # Unset
  /\ Goto(p, "read")
  /\ UNCHANGED <<sharedVars, mutex, procVars, started>>

(* KVSetWithOptions with Atomic and OldValue compares the encoded values. *)
Write(p) ==
  /\ pc[p] = "write"
  /\ kv = raw[p]
  /\ kv' = next[p]
  /\ born' = born \cup {m.gen : m \in next[p].rooms \ raw[p].rooms}
  /\ Finish(p, answer[p])
  /\ UNCHANGED <<legacy, clock, nextGen, mutex, request, attempt, raw, next, answer, since, started>>

WriteLost(p) ==
  /\ pc[p] = "write"
  /\ kv # raw[p]
  /\ attempt' = [attempt EXCEPT ![p] = @ + 1]
  /\ IF attempt'[p] < MaxAttempts
     THEN Goto(p, "read") /\ UNCHANGED reply
     ELSE Finish(p, Contended)
  /\ UNCHANGED <<sharedVars, mutex, request, raw, next, answer, since, started>>

(* A KVGet or KVSet fails; the plugin API then reports that nothing was set. *)
StoreFails(p) ==
  /\ pc[p] \in {"read", "import", "write"}
  /\ Finish(p, KvError)
  /\ UNCHANGED <<sharedVars, mutex, request, attempt, raw, next, answer, since, started>>

(* Broken variant: an error path returns without unlocking. *)
ReturnLocked(p) ==
  /\ pc[p] = "return"
  /\ mutex' = [n \in Nodes |-> IF mutex[n] = p /\ reply[p] # RefusedReply
                              THEN NoProc ELSE mutex[n]]
  /\ Goto(p, "idle")
  /\ request' = [request EXCEPT ![p] = NoRequest]
  /\ since' = [since EXCEPT ![p] = 0]
  /\ attempt' = [attempt EXCEPT ![p] = 0]
  /\ raw' = [raw EXCEPT ![p] = Unset]
  /\ next' = [next EXCEPT ![p] = Unset]
  /\ answer' = [answer EXCEPT ![p] = NoReply]
  /\ reply' = [reply EXCEPT ![p] = NoReply]
  /\ UNCHANGED <<sharedVars, started>>

(* The handler unlocks, if it locked, and goes on with the result; the      *)
(* locals of the call are gone.                                             *)
Return(p) ==
  /\ pc[p] = "return"
  /\ mutex' = [n \in Nodes |-> IF mutex[n] = p THEN NoProc ELSE mutex[n]]
  /\ Goto(p, "idle")
  /\ request' = [request EXCEPT ![p] = NoRequest]
  /\ since' = [since EXCEPT ![p] = 0]
  /\ attempt' = [attempt EXCEPT ![p] = 0]
  /\ raw' = [raw EXCEPT ![p] = Unset]
  /\ next' = [next EXCEPT ![p] = Unset]
  /\ answer' = [answer EXCEPT ![p] = NoReply]
  /\ reply' = [reply EXCEPT ![p] = NoReply]
  /\ UNCHANGED <<sharedVars, started>>

Tick ==
  /\ clock < MaxClock
  /\ clock' = clock + 1
  /\ UNCHANGED <<kv, legacy, nextGen, born, mutex, pc, procVars, started>>

Step(p) ==
  \/ Lock(p) \/ Read(p) \/ ReadLegacy(p) \/ WriteImport(p) \/ ImportLost(p)
  \/ Write(p) \/ WriteLost(p) \/ Return(p)

(* The bounds are used up and every request is answered. *)
Quiescent ==
  /\ started = MaxRequests
  /\ clock = MaxClock
  /\ \A p \in Procs : pc[p] = "idle"
  /\ UNCHANGED vars

(* The client leaves with the default microphone state (sendVoicePresence). *)
Sent == {q \in Request : q.kind = "presence" /\ q.room = NoRoomID => q.audio}

Next ==
  \/ Tick
  \/ Quiescent
  \/ \E p \in Procs : \/ \E q \in Sent : Start(p, q)
                      \/ Step(p)
                      \/ StoreFails(p)

Spec == Init /\ [][Next]_vars

(* The Go scheduler runs every goroutine, and sync.Mutex hands itself over  *)
(* to a waiter that has starved: a goroutine gets the lock if it is free    *)
(* again and again.  Requests, the clock and store failures are not fair.   *)
FairSpec ==
  /\ Spec
  /\ \A p \in Procs : WF_vars(Step(p)) /\ SF_vars(Lock(p))

-----------------------------------------------------------------------------
Replies ==
  {NoReply, Contended, KvError, RefusedReply, [kind |-> "created"]}
    \cup [kind : {"view"}, domain : Domain]
    \cup [kind : {"deleted"}, departed : SUBSET Users]
    \cup [kind : {"moved"}, previous : SUBSET (RoomIDs \X BOOLEAN)]

(* Every variable keeps its type; the entry is unset or a whole domain. *)
TypeOK ==
  /\ kv \in Domain \cup {Unset}
  /\ legacy \in LegacyValues
  /\ clock \in Nat
  /\ nextGen \in Nat
  /\ born \in SUBSET Nat
  /\ mutex \in [Nodes -> Procs \cup {NoProc}]
  /\ pc \in [Procs -> {"idle", "lock", "read", "import", "write", "return"}]
  /\ request \in [Procs -> Request \cup {NoRequest}]
  /\ attempt \in [Procs -> 0..MaxAttempts]
  /\ raw \in [Procs -> Domain \cup {Unset}]
  /\ next \in [Procs -> Domain \cup {Unset}]
  /\ answer \in [Procs -> Replies]
  /\ reply \in [Procs -> Replies]
  /\ since \in [Procs -> Nat]
  /\ started \in Nat

(* What the invariants rest on: no goroutine holds a private copy that would *)
(* break them if it were written, and the control state tells what the       *)
(* locals hold and who holds the mutex.                                      *)
SoundCopies == \A p \in Procs : next[p] # Unset => Sound(next[p])

ControlOK ==
  \A p \in Procs :
    /\ pc[p] # "idle" => request[p] \in Request
    /\ pc[p] # "return" => attempt[p] < MaxAttempts
    /\ pc[p] = "import" => next[p] \in Domain
    /\ pc[p] = "write" => /\ raw[p] \in Domain
                         /\ next[p] \in Domain
                         /\ request[p] \in Mutation

MutexHeld ==
  \A p \in Procs :
    pc[p] \in {"read", "import", "write", "return"} /\ request[p] \in Mutation
      => mutex[NodeOf[p]] = p

EntrySound == kv # Unset => Sound(kv)

(* Presence exists only in rooms that exist: neither a heartbeat racing the *)
(* deletion of its room on another node nor an import of orphaned entries   *)
(* leaves one behind (setPresence, deleteRoom, normalizeLegacyPresence).    *)
NoGhostPresence == kv # Unset => PresenceInKnownRooms(kv)

(* A user is in at most one room, in one entry, however the heartbeats of   *)
(* several tabs interleave on several nodes (setPresence).                  *)
InOneRoom == kv # Unset => OneRoomPerUser(kv)

(* Concurrent creations of one id on several nodes leave one room with that *)
(* id (createRoom).                                                         *)
NoDuplicateRooms == kv # Unset => UniqueRoomIds(kv)

(* Goroutines of one node do not get in each other's way: the value that a  *)
(* mutation is about to replace changes only by a write on another node, so *)
(* with a single node no mutation retries and none reports contention.      *)
LocalWritesWin ==
  [][\A p \in Procs :
       pc[p] = "write" /\ kv = raw[p] /\ kv' # kv =>
         \E q \in Procs : pc'[q] # pc[q] /\ (q = p \/ NodeOf[q] # NodeOf[p])]_vars

(* Every request is answered: no goroutine waits for the mutex for ever and *)
(* no retry loop runs for ever.                                             *)
EveryRequestAnswered == \A p \in Procs : pc[p] # "idle" ~> pc[p] = "idle"

-----------------------------------------------------------------------------
(* The store implements the directory: each request takes effect at the one *)
(* step that writes (or, for an answer without a change, that reads) the    *)
(* entry, and reports the state it replaced, not one of an earlier attempt. *)
Directory == INSTANCE VoiceDirectory WITH
  state <- [p \in Procs |-> CASE pc[p] = "idle" -> "idle"
                             [] pc[p] = "return" -> "answered"
                             [] OTHER -> "pending"]

ImplementsDirectory == Directory!Spec
=============================================================================
