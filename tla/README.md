# Voices: a TLA+ model of the voice and video call plugin

This directory models the core of the plugin in TLA+: the server that keeps
rooms, presence, invitations and signalling sessions (Go, `server/`), and the
parts of the web client that list, join and leave rooms, hear their peers, invite
others and call another user directly (JavaScript, `webapp/src/`). TLC checks small
instances; TLAPS proves every safety property that holds, for every size, and that
the shared entry of the server implements its abstract specification. Modules are named for what they model, and every definition that
stands for code is listed with its lines in `PROJECT.json`.

## 1. Inventory

### Server

| Component | Code | State | Operations |
| --- | --- | --- | --- |
| Voice room domain | `voice_domain_store.go`, `voice_room_service.go`, `voice_rooms.go`, `voice_presence.go` | one key-value entry with rooms and presence, shared by all nodes; two entries of older versions; a mutex per node | list, create, delete, heartbeat, leave; import on the first read; expiry |
| Invitations | `voice_invites.go`, `voice_invite_service.go` | a direct-message post with status, room, generation and expiry | invite, accept, decline, mark expired |
| Signalling sessions | `signal_sessions.go`, `signal_handlers.go` | sessions by id, an index from room to session, both in the memory of a node | session for a room, direct session, authorise, synchronise, close, expire |
| Signal broker | `signal_broker.go`, `signal_limits.go`, `signal_handlers.go` | topics with subscribers, a buffered channel and a mutex each; slots per user | stream, publish, close |
| Plugin shell | `plugin.go`, `configuration.go`, `main.go` | configuration, the mutex and the lazily made stores | routing, activation |

### Web client

| Component | Code | State | Operations |
| --- | --- | --- | --- |
| Voice session | `utils/voiceSession.js` | mode, room, stream, hub and swarm, peers, callbacks that wait for a close | start, acquire, connect, close |
| Voice panel | `audio_group_call.jsx`, `voiceRoomController.js`, `voicePresenceEvents.js` | room shown, flags of what is pending, transition number, heartbeat | join, leave, switch, toggle, react to events |
| Peers of a session | `voiceSession.js`, `audio_group_call.jsx` | the roster with who is connected and whose microphone is on, timers of peers expected, playbacks | list, connect, shake hands, tell and hear of microphones, mute, forget |
| List of rooms | `audio_group_call.jsx`, `voiceRoomController.js`, `voiceRoomsApi.js` | a copy of the directory, the open menu, the form of a new room | poll, refresh, create, delete |
| Direct calls | `actions/index.js`, `callSession.js`, `reducers/index.js`, `authorizedCallInvite.js`, the `*Listen.js` utilities | the session of a call with its event sources, the window's slice of the store, tones | call, invite, accept, reject, cancel, hang up |
| Signal hub | `pluginSignalHub.js` | event sources | subscribe, broadcast, close |
| Invitations | `voiceInviteController.js`, `voiceInviteEvents.js`, `voice_invite_post.jsx`, `audio_group_call.jsx` | the card with its timer, each post with its own, answers in flight; the dialog with its latest search | show, answer on card or post, expire; search, invite |
| The rest | pickers, sounds, icons, diagnostics, REST helpers, build tools | none that others read | |

### How they interact

- The panel sends presence requests (join, heartbeat every 15 s, leave). The
  handler locks `voiceDomainMu`, runs the read-change-compare-and-set loop on the
  shared entry, unlocks, publishes a websocket event, and only then reads the
  participants of the old and the new room and hands each list to the session
  store. Between these steps other requests run.
- The panel asks for the session of a room, for which the server reads the
  participants first and stores them with the session; then it opens an event
  stream on the session and publishes on it. Streams and publishers meet in the
  broker.
- Events of presence changes reach every tab. A tab whose user moved elsewhere
  stops its own media.
- A direct call starts with a signalling session of two users. The server puts
  its invitation into the inbox of every tab of the callee; every later word
  (accept, refusal, cancellation) is a publication in that session, heard by all
  event sources that happen to be subscribed, whichever channel they were opened
  for, and kept for nobody else.
- An invitation to a room is a post. Inviting and answering check the room, the presence
  and the post under the same mutex, but the post itself is written without
  comparing it with what was read.
- Several nodes may serve requests. They share the key-value store and the
  posts, not the mutex, the sessions or the broker.

### What is hard

Compare-and-set loops whose closures run again; a mutex that covers one node
only; lists that are read, carried and stored later; a channel that is closed
while a publisher holds a snapshot of the subscribers; buffers that overflow;
sessions that expire while in use; words of a call that nobody repeats, heard by
listeners that are subscribed late or meant for something else; promises of the browser that settle after the
room was left; closing swarms that never call back; requests and events that
overtake each other. `PROJECT.json` lists each at its line under `hazards`, with
the properties that cover it or the reason why none does yet.

### What makes each component correct

- Domain: presence names existing rooms, a user is in one room, ids are unique,
  limits are not exceeded by a race, no committed change is lost to a concurrent
  writer, every answer is right for one instant of the request, every request is
  answered.
- Invitations: a confirmed answer stays, an expired invitation stays expired,
  no confirmation for a room that was gone.
- Sessions: map and index agree, participants are occupants, limits hold,
  heartbeats repair what concurrency spoiled.
- Broker: no send on a closed channel, only a full channel loses a message,
  nothing leaks, nobody waits for ever.
- Tab: late resources are disposed of, panel, session and heartbeat agree, every
  close ends, the last click wins, the server ends up agreeing with the tab.
- Peers: rosters show microphones as they are, nobody connected is forgotten,
  nobody gone is kept, the headphones are obeyed.
- List and invitations: the list ends up being the directory, nothing that is
  shown as under way waits for what will not come, answers of card and post do
  not contradict each other, the results of a search are those of the text,
  a room that is deleted is left.
- Direct calls: window and session never part, no event source outlives its
  call, tones match, nobody is left ringing or calling, a ring ends for a cause,
  a refusal is shown only if there was one.

## 2. Modules

| Module | Stands for | Uses |
| --- | --- | --- |
| `VoiceDomain` | values and pure operations of the domain: requests, `CreateRoom`, `DeleteRoom`, `SetPresence`, pruning, normalising older entries | |
| `VoiceDirectory` | abstract specification: every request takes effect at one instant, or fails and changes nothing | `VoiceDomain` |
| `VoiceDomainStore` | goroutines on nodes: mutex, read, import, work on a copy, compare-and-set, retry, return | `VoiceDomain`, instantiates `VoiceDirectory` |
| `SignalSessionStore` | the session store as operators on its two maps | `VoiceDomain` |
| `SignalSessions` | presence, deletion and session handlers around the store | `SignalSessionStore` |
| `SignalBroker` | streams, publishers, mutexes, channels and slots | |
| `VoiceInvites` | invitation requests step by step, the room changing under them | `VoiceDomain` |
| `VoiceSession` | the methods of the browser's voice session, as operators on a tab | |
| `VoicePanel` | one tab between user, browser, server and another tab | `VoiceSession` |
| `VoicePeers` | every participant of a room with the peers of its session, the connections between them, the microphone and headphones buttons | |
| `InviteCard` | the card of an invitation and its post, as operators | |
| `InvitePicker` | the dialog that invites and the menu of a room, as operators | |
| `VoiceLobby` | the panel's list of rooms and invitations between the user, a friend and the server | `InviteCard`, `InvitePicker` |
| `CallSession` | the call session of a tab and the reducers that mirror it, as operators on a tab | |
| `DirectCalls` | tabs of several users, the requests and events between them, the server that hands them on | `CallSession` |
| `VoiceDomainStoreProofs`, `SignalBrokerProofs`, `SignalSessionsProofs`, `VoiceInvitesProofs`, `VoicePanelProofs`, `VoiceLobbyProofs`, `VoicePeersProofs`, `DirectCallsProofs` | theorems | the module each is named for |
| `MC...` | constants of the runs | the module each is named for |

Conventions. Sets of records stand for Go's maps: a presence entry is
`[room, user, exp, audio]`, a session `[id, owner, room, members, expires]`.
Names, texts, JSON and HTTP statuses are left out; a refusal is its reason. An
action is what runs between two points where others can interfere: a call to the
key-value store or to the post store, a lock, a channel operation, a callback.
`VoiceDomainStore` shows that the loop behaves like one step, so
`SignalSessions` and `VoiceInvites` use the domain's mutations as one step.
In the browser a handler runs to its end, so `VoicePanel` composes the methods
of `VoiceSession` inside one action, `componentDidUpdate` included, and what is
awaited comes back as an action of its own. `DirectCalls` does the same with
`CallSession`; what a handler says there is collected in the tab's `outbox` and
put on the network by `Leave`, which also drops events for event sources that
the handler closed. `VoiceLobby` collects requests in `out` in the same way.

The panel is in three modules, each with its own part of the state and a
coarse view of the others: `VoicePanel` has the resources of one stay, its
heartbeats and another tab; `VoicePeers` has the peers of a stay, on both sides
of every connection; `VoiceLobby` has what the user sees of rooms and invitations,
where a stay is one announcement and closing a session one step. In `VoiceLobby`
the user is an administrator, as the buttons to create and delete ask for.

Operators whose names say what is wrong with them (`DeleteRoomOnly`,
`LockSkipped`, `FinishJoinAnyway`, `EndCallSilently`, ...) stand before the
operator they vary. They are not used by any specification: each is the mutation
that shows that a property can fail.

History variables: `born` (generations ever committed), `been` (who came to
which room), `client` (the session each client got), `said` and
`standing` (answers confirmed, the room as the request found it), `goal` (the
last instruction given to a tab), `replaced` (resources the session overwrote),
`lost`, `busy` and `answers` (calls of which something was not heard,
invitations ignored by a busy tab, how each tab was done with each ring), `missed`
(rooms in which the server never got to know of the user), the `lost` ends of a
connection in `VoicePeers` (whose record was forgotten or given to another
connection). None is read by a guard of a modelled operation.

## 3. Runs

| Run | What it asks | Bounds |
| --- | --- | --- |
| `domain_two_nodes` | soundness of the shared entry, the mutex of a node, refinement of `VoiceDirectory`, mutex and retry loops under fairness | 3 goroutines, two of them on one node, 2 users of whom one administers, 2 ids, limits of 2 rooms and 1 participant each, 2 attempts, 2 requests, clock to 1, an older entry with a user in two rooms of equal expiry |
| `broker` | all of the broker | 3 streams of 2 users on 2 topics, 1 publisher, buffer 1, one slot per user, 2 messages |
| `sessions_race` | two handlers at once: what still holds, and that heartbeats repair the rest | 2 users, 1 room, 2 handlers, clock to 1 |
| `sessions_split` | expected violation: two sessions in one room after the first expired | clock to 2, session life 2 |
| `invites_node` | answers on one node | 2 goroutines, 2 invitations that live 1 unit, 1 room that may be deleted and made again, clock to 3 |
| `invites_contradicted` | expected violation: a confirmed answer undone by a request on another node | 2 nodes |
| `voice_tab` | all of the tab | 2 rooms, 2 clicks, 2 upsets (microphone switched, other tab moves, request failed) |
| `voice_tab_swarms` | expected violation: two swarms in one tab | 2 rooms, 2 clicks |
| `voice_peers` | all of the peers | 2 participants who come back once, 2 connections at a time, 2 events (a further coming, a click on microphone or headphones, a connection that breaks, something late) |
| `voice_lobby` | all of the list of rooms and of invitations | 1 room at first and 1 to be made, a friend, 2 invitations, 2 search terms, 2 copies of the directory on their way, 3 events (clicks but for the toggle of the dialog, moves, rooms and invitations of the friend, failures) |
| `direct_calls` | all of direct calls up to the answer | 2 users with 1 and 2 tabs, 2 calls of anybody to the other, 1 upset (request failed, word lost, tab reloaded) |
| `direct_call_accepted` | expected violation: an accept shown to the caller as a refusal | as above |

Why the bounds are enough for the questions: a lost update needs two writers, a
reader between them and one retry, which two goroutines with two attempts have;
the limits are at their boundary with the second room and the first occupant; a
subscription meets every phase of a publication with one publisher and a buffer
of one, which overflows at the second message; an answer is contradicted by one
other request. Two clicks in the tab give a switch between rooms, and with
an event of the other tab a third transition that overtakes the switch. A third
click was tried without the liveness properties (10 million states): the
invariants hold. Two participants with two connections meet in every phase of
the handshake, and one of them leaves and comes back while timers, messages and
a connection of its earlier session are still there. In the list a friend's
invitation, the answer to it and a second invitation are three events; so are an
open dialog, an invitation and a friend who joins first. The
same with four events and one copy, without the liveness property (3.4 million
states), passes as well. Two direct calls let words of the first meet the second, in
either direction, and two tabs of one user let one be busy, answer or reload
while the other rings.

Symmetry is used where constants can change places: in the runs of direct calls
the two tabs of one user (`Twins`), in `voice_peers` the participants and the
connections (`Alike`). No liveness is checked in those runs. In
`domain_two_nodes` the goroutines of a node are taken in the order of their
numbers, since an idle one is like another.

The violations are what the code does, against what its documents say
(`findings` in `PROJECT.json` quotes them):

- `sessions_split`: the session of a room lives 30 minutes from its creation,
  however busy the room is; who joins later gets another.
- `invites_contradicted`: the post is written without comparison, and the mutex
  holds on one node only.
- `voice_tab_swarms`: `connect` checks for a swarm before it awaits the hub and
  not after.
- `direct_call_accepted`: the caller compares the id in an accept with its own,
  not with the callee's, and ignores it; its listener for refusals, which hears
  the whole session, takes it for one.

Lists of participants are read outside the mutex, so with several requests at
once the last list stored need not be the last one read: a session may differ
from presence, and `HeartbeatsRepair` shows that heartbeats put it right.

`NoOrphanRing` and `NoOrphanCall` say that nobody is left ringing or calling
except where something was not heard: the code never repeats a word and has no
timer for a ring, so a lost word, an invitation reported failed that arrives all
the same, a word that comes before whoever it is for has subscribed (the tabs of
the callee for a cancellation, the caller for an answer), a busy tab or an answer
in another tab of the user do leave a tab ringing until its user acts, and who calls a user without any
tab calls until it hangs up. The history variables name
these cases; everything else is checked and proved.

Exceptions that properties of the panel state because the code has them:

- `voiceSession.js:167`: the timer of a peer that may go off between its
  connection and its handshake forgets the record until the handshake makes a
  new one; a connection that opens or ends beside one of a closed session goes
  by the user and takes or changes the record of the other (`ConnectedStay`, the
  `lost` ends).
- Who was refused the microphone and switches the button off and on is drawn as
  speaking by the others, and as mute by itself (`MicrophoneShown` allows it);
  `audio_group_call.jsx:649` means the two rosters not to drift apart.
- The refusal of an answer takes the card away even if it shows a newer
  invitation by now (`CardEndsForCause` allows it, `audio_group_call.jsx:547`).
- A room that is deleted before the server heard that the user is in it is not
  left: no event names the user, and heartbeats that are refused change nothing
  (`DeletedRoomLeft`, `missed`).
- Answers to creations and acceptances that come late make the user enter their
  room although another was entered since, an acceptance that arrives while the
  old room of the same id is still shown is not followed, and two clicks on
  "Create and join" make two rooms: no property forbids it.

`CHECK_DEADLOCK FALSE` stands where nothing may be left to do: in `broker`, when
every stream is done and every message published, in `voice_peers`, when the
participants are connected and nothing happens any more, and in the runs of direct
calls, when the bounded number of calls has been made and ended.

### Fairness

- `VoiceDomainStore`: weak fairness of each goroutine's steps and strong
  fairness of taking the mutex. The Go scheduler runs every goroutine, and
  `sync.Mutex` hands itself to a waiter that has waited for a millisecond. No
  fairness of clients, the clock or failures.
- `SignalBroker`: the same for streams and publishers. A client need not ever
  read.
- `SignalSessions`: weak fairness of handlers; strong fairness of heartbeats of
  those who are present, as the interval timer of the panel gives.
- `DirectCalls`: none. The code has no timer that would end a ring, so nothing is
  promised in time; what is promised once nothing is under way is an invariant.
- `VoicePanel`: the browser answers a permission request, requests end, the timer
  of a closing swarm goes off, the intervals of heartbeat and directory go on,
  presence without heartbeats runs out. No fairness of clicks, events, the other
  tab or failures: an event may be late for ever.
- `VoiceLobby`: the interval of the directory goes on, the server answers, and
  answers arrive. No fairness of clicks, of the friend, of events, of the
  panel's other requests or of timers.
- `VoicePeers`: none, nothing is promised in time.

## 4. Proofs

The theorems are of the form `Spec => []Inv`, seven state an action property
(`Spec => [][A]_vars`) and one a refinement, for any values of the constants
that satisfy the assumptions named in the modules (`DomainAssumption`,
`StoreAssumption`, `BrokerAssumption`, `SessionAssumption`, `HandlerAssumption`,
`InviteAssumption`, `LobbyAssumption`, `CardAssumption`, `PickerAssumption`,
`PeersAssumption`, `RoomsAssumption`, `BoundsAssumption`, `MaxCallsAssumption`,
`TabsAssumption`). They say that special
values are none of the others, that limits are numbers, whose a tab, a goroutine
or a stream is and, of the invitations, that there is a user. `OneRoomPerId`,
`TonesAgree` and the `TypeCorrect` of the domain, the broker, the sessions, the
invitations, the panel and direct calls are proved and not run: a proof for every
size makes the run superfluous. Four theorems bound the findings of the runs
that expect a violation, each by saying what it takes to get there:
`OneLivingSession` (a room splits only over a session that has gone),
`AnswersStand` (under `OneMutex`, a second node), `OneSwarmUnlessReplaced` (a hub
that replaced another), `OnlyAnswersDecline` (somebody answered, and the call is
the caller's own).

- `VoiceDomainStoreProofs`: `TypeCorrect`, `PresenceSafe`, `OneRoom`,
  `OneRoomPerId`. That the entry is sound is not inductive by itself: what a
  goroutine writes was computed earlier. `IndInv` adds that every private copy
  is sound (`SoundCopies`), that control and locals fit (`ControlOK`) and that a
  goroutine between lock and return holds its node's mutex (`MutexHeld`). The
  facts about one value, that pruning, normalising and each request keep a
  domain sound, are the lemmas the module begins with. Nothing of these depends on
  the number of nodes, or on the mutex: compare-and-set is enough.
  - `WritesOfOneNodeWin` (the action property `LocalWritesWin`): what a
    mutation is about to replace changes only by a write on another node. Here
    the mutex matters: by `MutexHeld` no other goroutine of the node is between read and write.
  - `StoreImplementsDirectory`: with the mapping of `VoiceDomainStore`, every
    step of a goroutine is a step of `VoiceDirectory` or none. The linearization
    point of a request is its successful compare-and-set, the read for those
    that change nothing, and the import for the one that makes the entry.
    `RefInv` carries what a private copy was computed from to that point: the
    value it was read as and an instant since the request came (`WritePrepared`,
    `ImportPrepared`, `Timely`), and generations drawn for one writer alone
    (`Generations`). An aborted loop maps to a failure that changes nothing.
- `SignalBrokerProofs`: `SendsOnOpenChannels`, `NoSubscriberLeaks`. The
  invariant says who holds a subscriber's mutex (`PublisherHolds`,
  `StreamHolds`) and that a channel is closed only after its subscriber was
  marked (`MarkedFirst`): a publisher that found the mark absent holds the mutex
  the closing stream needs.
  - `SlotsGivenBack`: `Accounted` equates a user's count with the cardinality of
    its running streams; finiteness is part of it, as streams are any set.
  - `NothingElseLoses`: `DeliveryInv` says of each subscriber a publisher found
    that it is still to be served, is being served, has left, has lost the
    message to a full channel, or has it (`Served`); the two other parts say when
    a found stream may already be marked. `TypeCorrect` proves every variable's type.
- `SignalSessionsProofs`: `TypeCorrect`, `IndexAgrees`, `OnlyOccupantsTakePart`,
  `DirectCallsStayLimited`, `OneLivingSession`. `StoreGood` keeps ids unique and index and map in
  step; `ListsKnown` says that a list on its way to a session names only users
  who have been in the room. One lemma per operation of the store
  (`NothingNew`: no new id, no new participant but those of the list), so that
  each handler's step is short. Of the domain they need only that pruning and the
  requests keep it one (`PrunedTyped`, `ApplyTyped`).
  - `OneLivingSession`: `HubsTrue` says that the session of a client's hub has an
    id given out before, and, while it is there, is of the room the client is in;
    a session keeps its room as long as it lives (`Old`), so index and map, which
    agree, leave one for each room.
- `VoiceInvitesProofs`: `AnswersStand`, under `OneMutex` (all goroutines on one
  node). `Exclusion` says that whoever is inside a request holds the mutex,
  `Stage` what a goroutine knows at each step, in particular that nobody has
  confirmed an answer to the post it is working on. The run
  `invites_contradicted` shows that the assumption is needed.
  - `DeadStayDead` (`ExpiryFinal`) under the same assumption: what a goroutine
    writes back has the expiry of the post it replaces (`SameExpiry`), or one that
    has passed.
  - `RoomsAnsweredFor` (the action property `NoAnswerForDeadRoom`) on any number
    of nodes: generations are never drawn twice and no writer changes that of a
    post (`Generations`), so a room that was gone when a request looked never
    stands again (`Known`). `TypeCorrect` goes with it.
- `VoicePanelProofs`: `TypeCorrect`, `PanelShowsSession` (`RoomsAgree`),
  `LateArrivalsDropped` (`NothingLateKept`), `OneSwarmUnlessReplaced`, for any
  number of rooms, clicks and upsets. A handler closes the session, runs what
  waited for that and only then shows the result, so most of the invariant is
  about a tab in the middle of one. `Sane` accounts for every microphone that runs
  and every hub that is open; `Agrees` adds to `RoomsAgree` what it leaves out,
  that while the session closes, a panel that still shows a room waits for a join
  that nothing has overtaken; `Earned` bounds the transition number by the clicks,
  without which the numbers of turns would have no type. Two and three clicks were
  checked with TLC before the proof.
  - A tab is a record of 21 fields, and a handler writes several of them together.
    That what it leaves is a tab is a lemma for each such group of fields
    (`AskedTab` to `LinkTab`), cited where the group is written.
  - The callbacks that waited for a close are a queue of any length, and one of
    them may close again. `RunCallbacks` is a recursive function on the number
    that ran; `RunsInTurn` gives the tabs in between, and what
    every callback keeps is kept by all of them: else there were a first tab
    without it (`LeastNumber`), left by a callback that found it. That takes the
    place of an induction.
- `VoiceLobbyProofs`: `TypeCorrect`, `NothingIsStuck`, `AnswersAreStanding`,
  `OnlyTheLatestShown`, `DeletionsReachThePanel`, and `CardGoesForCause` (an
  action property), for any number of rooms, invitations, terms and events. A
  handler works on a copy of the panel with requests still in it, so `LInv` is
  about panels as values: `Good(t, n, s)` pairs each flag of the panel (a card or
  post in flight, a search under way, a room being made or deleted) with the
  message of `n` that will clear it, and each decision shown or reported with the
  server's. `Told` says that the server knows where the user is, or will, or the
  user will hear better, or the room is in `missed`. One lemma per operator keeps
  `Good`, so the step of a handler composes them as the handler does.
- `VoicePeersProofs`: `TypeCorrect`, `EntriesGo` (`NoGhosts`),
  `ShakenHandsStay` (the action property `ConnectedStay`), `HeadphonesObeyed`,
  `MicrophonesAgree`, `StreamsArrive`, for any number of participants and
  connections. `Base` says where a record or a playback may point (`Placed`),
  that of two lines between the same users at most one is live (`OneLive`), and
  that who is in no room has no timers (`Away`). `Heard` ties what comes out of a
  line to the playback of its end. `MicrophoneShown` and `EverybodyHeard` need to
  know what the messages under way will make of the other side: `Lively` says it
  of each direction of a line both ends of which are up (`Dir`): a handshake is on
  its way or was taken, the last word about the microphone is the current one,
  and the stream is there or will be when the answer arrives.
- `DirectCallsProofs`: `TypeCorrect`, `WindowAgrees`, `SourcesReleased`,
  `TonesAgree`, `RingsEndOnlyForCause` (an action property), for any tabs, users and number of calls.
  The first four are facts about one tab (`TabOK`), but not inductive alone: a
  handler relies on being called on the right side of the right call. `IndInv`
  adds whose call a tab is in (`OwnCall`), that an event waits only for an open
  event source (`EventsHeard`), and that a cancellation under way means that its
  caller has left the call (`CallerGone`), from which the last theorem follows
  step by step. One lemma per operator of `CallSession` and of the handlers, and
  `LeaveSafe` once for all of them.
  - `NobodyLeftRinging` and `NobodyLeftCalling`: `Told` says for every call which
    word is still to be heard. If its caller has gone (`Ending`), a cancellation
    is on its way to the server, or no invitation is and who rings has a
    cancellation waiting. If its caller still calls (`Waiting`), the session is
    being made, the invitation is on its way, somebody rings, or an answer is on
    its way. Otherwise the call is in `lost`, `busy` or was answered. It holds
    because who rings or calls listens (`AllListening`), words of an answer are
    the callee's (`AnswersGiven`), and a call without a session has reached
    nobody (`Unsent`). `HandlerTells` treats the handlers of a tab once for all,
    `NetworkTells` the steps of the network.
  - `OnlyAnswersDecline` (the action property `DeclinesFollowAnswers`): a refusal is
    shown by one handler only (`StaysPlain` for all others), whose event is, by
    `AnswersGiven`, an answer to the call the tab is making.

The proofs corrected statements that no run on the bounds above refuted:
`ExpiryFinal` has to allow for the time that passes while an invitation is marked
as expired, `ConnectedStay` for a third connection that is of a closed session,
`NoOrphanCall` for a user without any tab.

Only model-checked:

- All liveness and the fairness behind it, which is out of the prover's reach:
  `EveryRequestAnswered`, `PublishEnds`, `HeartbeatsRepair`, `DirectorySettles`,
  `ClicksSettle`, `Connected`, `PresenceFollowsTab`.
- The expected violations.

## 5. Not modelled, and why

- `allowRequest`, 60 requests per minute: a counter over a window that nothing
  else depends on.
- The connected phase of a direct call (peers, capture and muting of media): as
  the code stands no caller ever takes an accept for one, so these handlers are
  not reached. They are to be added when the comparison of ids is repaired.
- The reconnection of an event source.
- The transport of a voice connection (`webrtc-swarm`, `simple-peer`): `VoicePeers`
  has it as lines that open, carry messages in order and end at either end.
- An answer that is heard after the panel is gone; the panel's end is in `VoicePanel`.
- The call posts (`callInvitePosts.js`, `webrtc_invite_post.jsx`): look-ups in a post.
- Skew between the clocks of nodes: one clock stands for all.
- Sessions and brokers of several nodes: nothing in the code joins them, so a
  model would only show that.
- Older entries whose JSON is `null`.
- The form and size checks of requests, names, profiles, texts, sounds, layout,
  configuration and build tools: no state that the properties tell apart.

## 6. Plan

Done, in this order: the domain and its refinement, the broker, the sessions,
the invitations, the voice tab, direct calls up to the answer, the peers, the
list of rooms with the invitations in the browser.

Left for the model: the limit of requests per minute; older entries that are
`null`; streams and sessions together (who leaves a session while its stream is
open); the connected phase of a direct call, once the comparison of ids is
repaired.

No safety property that holds is left to TLC alone; what stays with it is at the end
of section 4.
