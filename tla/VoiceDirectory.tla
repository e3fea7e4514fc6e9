---------------------------- MODULE VoiceDirectory ----------------------------
(***************************************************************************)
(* What the voice rooms service promises, as "the repository CAS serializes *)
(* related room and presence changes across nodes" (the comment above       *)
(* voiceRoomService in server/voice_room_service.go) puts it: every request *)
(* takes effect at one instant between its start and its answer, on the     *)
(* domain as it is at that instant, or it fails and changes nothing.  No    *)
(* nodes, locks, snapshots or retries appear here.                          *)
(*                                                                         *)
(* A committed change may carry any time between its request and the        *)
(* commit: expiries are computed a little before the value is written.      *)
(***************************************************************************)
EXTENDS VoiceDomain

CONSTANTS
  Procs,         \* the goroutines serving requests
  LegacyValues,  \* values of earlier builds the directory may start from
  Unset,         \* the domain key has not been written yet
  MaxClock       \* bound on the clock

VARIABLES
  kv,      \* the domain entry: Unset or a domain
  legacy,  \* the values under the two legacy keys
  clock,   \* milliseconds, abstracted to ticks
  nextGen, \* identifiers below it have been drawn (model.NewId)
  born,    \* generations of all rooms ever committed
  state,   \* "idle", "pending" or "answered", per goroutine
  request, \* the request being served
  since,   \* the time it arrived
  reply    \* its answer

vars == <<kv, legacy, clock, nextGen, born, state, request, since, reply>>
procVars == <<state, request, since, reply>>

NoRequest == [kind |-> "none"]
NoReply == [kind |-> "none"]

(* A failure of the store, or of the bounded retry loop. *)
Failures == {[kind |-> "contended"], [kind |-> "kvError"]}
RefusedReply == [kind |-> "refused"]
View(d) == [kind |-> "view", domain |-> d]

Init ==
  /\ kv = Unset
  /\ legacy \in LegacyValues
  /\ clock = 0
  /\ nextGen = 1
  /\ born = {}
  /\ state = [p \in Procs |-> "idle"]
  /\ request = [p \in Procs |-> NoRequest]
  /\ since = [p \in Procs |-> 0]
  /\ reply = [p \in Procs |-> NoReply]

Invoke(p) ==
  /\ state[p] = "idle"
  /\ \E q \in Request : request' = [request EXCEPT ![p] = q]
  /\ since' = [since EXCEPT ![p] = clock]
  /\ state' = [state EXCEPT ![p] = "pending"]
  /\ UNCHANGED <<kv, legacy, clock, nextGen, born, reply>>

Answered(p, r) ==
  /\ state[p] = "pending"
  /\ state' = [state EXCEPT ![p] = "answered"]
  /\ reply' = [reply EXCEPT ![p] = r]
  /\ UNCHANGED <<request, since>>

(* The first request to find the key unset seeds it from the legacy keys:   *)
(* it may read them at any time of its own.                                 *)
Seeds(p) ==
  IF kv # Unset THEN {kv} ELSE {NormalizeLegacy(legacy, t) : t \in since[p]..clock}

Import(p) ==
  /\ state[p] = "pending"
  /\ kv = Unset
  /\ kv' \in Seeds(p)
  /\ nextGen' \in {nextGen, nextGen + 1}
  /\ UNCHANGED <<legacy, clock, born, procVars>>

(* Identifiers may be drawn and thrown away; no room gets one that an       *)
(* earlier room had.                                                        *)
Draw ==
  /\ nextGen' = nextGen + 1
  /\ UNCHANGED <<kv, legacy, clock, born, procVars>>

Commit(p) ==
  /\ kv # Unset
  /\ request[p] \in Mutation
  /\ \E t \in since[p]..clock :
       LET d == Pruned(kv, t) IN
       /\ ~Refused(d, request[p])
       /\ \E g \in 1..nextGen :
            /\ request[p].kind = "create" => g \notin born
            /\ kv' = Apply(d, request[p], t, g)
            /\ born' = IF kv'.rooms \subseteq kv.rooms THEN born ELSE born \cup {g}
       /\ Answered(p, Answer(d, request[p]))
  /\ UNCHANGED <<legacy, clock, nextGen>>

Refuse(p) ==
  /\ kv' \in Seeds(p)
  /\ Refused(Pruned(kv', clock), request[p])
  /\ Answered(p, RefusedReply)
  /\ UNCHANGED <<legacy, clock, nextGen, born>>

Observe(p) ==
  /\ request[p] \in ListRequest
  /\ kv' \in Seeds(p)
  /\ Answered(p, View(Pruned(kv', clock)))
  /\ UNCHANGED <<legacy, clock, nextGen, born>>

Fail(p) ==
  /\ \E r \in Failures : Answered(p, r)
  /\ UNCHANGED <<kv, legacy, clock, nextGen, born>>

Return(p) ==
  /\ state[p] = "answered"
  /\ state' = [state EXCEPT ![p] = "idle"]
  /\ request' = [request EXCEPT ![p] = NoRequest]
  /\ since' = [since EXCEPT ![p] = 0]
  /\ reply' = [reply EXCEPT ![p] = NoReply]
  /\ UNCHANGED <<kv, legacy, clock, nextGen, born>>

Tick ==
  /\ clock < MaxClock
  /\ clock' = clock + 1
  /\ UNCHANGED <<kv, legacy, nextGen, born, procVars>>

Next ==
  \/ Tick \/ Draw
  \/ \E p \in Procs : \/ Invoke(p) \/ Import(p) \/ Commit(p) \/ Refuse(p)
                      \/ Observe(p) \/ Fail(p) \/ Return(p)

Spec == Init /\ [][Next]_vars
=============================================================================
