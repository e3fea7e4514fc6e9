------------------------------ MODULE VoicePeers ------------------------------
(* Who hears and sees whom in a voice room: the peers of a VoiceSession     *)
(* (webapp/src/utils/voiceSession.js) and the microphone and headphones     *)
(* buttons of the panel (audio_group_call.jsx), with every participant      *)
(* running the same code. A peer is listed when its hub message arrives or  *)
(* when the swarm connects to it, shakes hands over the data channel, tells *)
(* when its microphone goes off and on, and is forgotten when the           *)
(* connection ends, or by a timer if it never connected.                    *)
(*                                                                          *)
(* The swarm (webrtc-swarm) is outside: a line of it is one connection,     *)
(* whose two ends see it open and end each in their own time, with an       *)
(* ordered channel each way. Closing a swarm ends the lines it has open;    *)
(* one that was still opening may open afterwards. The session does not ask *)
(* of which swarm an event is, and after SWARM_CLOSE_TIMEOUT_MS a new       *)
(* session starts whether or not the old swarm has ended its lines.         *)
EXTENDS Naturals, Sequences, FiniteSets, Functions

CONSTANTS
  Users,      \* participants
  Lines,      \* places for connections
  NoLine,     \* a peer known from the hub only
  Reluctant,  \* those who may refuse the microphone
  MaxEvents   \* bound on what need not happen: a user joins again or clicks
              \* on microphone or headphones, a line breaks, something is late

ASSUME PeersAssumption ==
  NoLine \notin Lines /\ Reluctant \subseteq Users /\ MaxEvents \in Nat

VARIABLES
  tab,     \* the panel of each user
  peers,   \* voiceSession.peers: the roster of each user
  timers,  \* timers running for a peer that shall connect
  plays,   \* voiceSession.playbacks: the line each peer is heard on
  lines,   \* the connections
  events   \* how often what need not happen did
vars == <<tab, peers, timers, plays, lines, events>>

Message == {"sendHandshake", "receivedHandshake", "off", "on"}
Panel == [in : BOOLEAN, been : BOOLEAN, mic : BOOLEAN, granted : BOOLEAN,
          speaker : BOOLEAN]
Record == [listed : BOOLEAN, via : Lines \cup {NoLine},
           connected : BOOLEAN, audio : BOOLEAN]
NoRecord == [listed |-> FALSE, via |-> NoLine, connected |-> FALSE, audio |-> FALSE]

(* A line: at either end, what its user has seen of it, the messages to it, *)
(* what is heard of it. old: the ends whose session was closed. offered:    *)
(* the ends a stream is on its way to. lost (history): the ends whose       *)
(* record or playback went to another line, or was forgotten, while the     *)
(* line was up.                                                             *)
NewLine(ends) ==
  [ends |-> ends, phase |-> [u \in ends |-> "new"], inbox |-> [u \in ends |-> <<>>],
   sound |-> [u \in ends |-> "none"], old |-> {}, offered |-> {}, lost |-> {}]
Free == NewLine({})

Ends(u) == {c \in Lines : u \in lines[c].ends}
Far(u, c) == CHOOSE v \in lines[c].ends : v # u
Up(u, c) == c \in Ends(u) /\ lines[c].phase[u] = "up"

Init ==
  /\ tab = [u \in Users |-> [in |-> FALSE, been |-> FALSE, mic |-> FALSE,
                         granted |-> TRUE, speaker |-> TRUE]]
  /\ peers = [u \in Users |-> [v \in Users |-> NoRecord]]
  /\ timers = [u \in Users |-> [v \in Users |-> 0]]
  /\ plays = [u \in Users |-> [v \in Users |-> NoLine]]
  /\ lines = [c \in Lines |-> Free]
  /\ events = 0

Count(n) == events' = events + n /\ events' <= MaxEvents
CountIf(odd) == Count(IF odd THEN 1 ELSE 0)

Say(line, v, m) ==
  IF line.phase[v] = "gone" THEN line ELSE [line EXCEPT !.inbox[v] = Append(@, m)]
Mute(line, u, s) == [line EXCEPT !.sound[u] = s]
Lose(line, u) == [line EXCEPT !.lost = @ \cup {u}]

-----------------------------------------------------------------------------
(* The session is free again when the lines its swarm had open have ended,  *)
(* or its timer goes off. The microphone may be refused.                    *)
Cleaned(u) == \A c \in Ends(u) : ~(Up(u, c) /\ u \in lines[c].old)
Join(u, granted) ==
  /\ ~tab[u].in /\ (granted \/ u \in Reluctant)
  /\ Count((IF tab[u].been THEN 1 ELSE 0) + (IF Cleaned(u) THEN 0 ELSE 1))
  /\ tab' = [tab EXCEPT ![u] = [in |-> TRUE, been |-> TRUE, mic |-> TRUE,
                                granted |-> granted, speaker |-> TRUE]]
  /\ UNCHANGED <<peers, timers, plays, lines>>

(* close: timers, playbacks and peers go at once, the lines end later.      *)
(* Leaving resets the panel; moving to another room leaves that to the join.*)
CloseKeepsTimers(u) ==
  /\ tab[u].in
  /\ peers' = [peers EXCEPT ![u] = [v \in Users |-> NoRecord]]
  /\ UNCHANGED timers
  /\ plays' = [plays EXCEPT ![u] = [v \in Users |-> NoLine]]
  /\ lines' = [c \in Lines |->
       IF c \notin Ends(u) THEN lines[c]
       ELSE [lines[c] EXCEPT !.old = @ \cup {u},
               !.sound[u] = IF plays[u][Far(u, c)] = c THEN "none" ELSE @]]
Close(u) ==
  /\ tab[u].in
  /\ peers' = [peers EXCEPT ![u] = [v \in Users |-> NoRecord]]
  /\ timers' = [timers EXCEPT ![u] = [v \in Users |-> 0]]
  /\ plays' = [plays EXCEPT ![u] = [v \in Users |-> NoLine]]
  /\ lines' = [c \in Lines |->
       IF c \notin Ends(u) THEN lines[c]
       ELSE [lines[c] EXCEPT !.old = @ \cup {u},
               !.sound[u] = IF plays[u][Far(u, c)] = c THEN "none" ELSE @]]
Leave(u) ==
  /\ Close(u)
  /\ tab' = [tab EXCEPT ![u].in = FALSE, ![u].mic = FALSE, ![u].speaker = FALSE]
  /\ UNCHANGED events
MoveOn(u) ==
  /\ Close(u)
  /\ tab' = [tab EXCEPT ![u].in = FALSE]
  /\ UNCHANGED events

-----------------------------------------------------------------------------
(* The hub repeats who is there, late also who was there; the own message   *)
(* comes back and is ignored.                                               *)
Announced(u, v) == u # v /\ tab[v].been
HubPeer(u, v) ==
  /\ tab[u].in /\ Announced(u, v)
  /\ ~peers[u][v].listed
  /\ CountIf(~tab[v].in)
  /\ peers' = [peers EXCEPT ![u][v] = [NoRecord EXCEPT !.listed = TRUE, !.audio = TRUE]]
  /\ timers' = [timers EXCEPT ![u][v] = @ + 1]
  /\ UNCHANGED <<tab, plays, lines>>

(* Any timer of the same peer forgets it, but not one that shook hands. *)
Forget(u, v) ==
  /\ peers' = [peers EXCEPT ![u][v] = NoRecord]
  /\ lines' = [c \in Lines |-> IF c = peers[u][v].via THEN Lose(lines[c], u)
                               ELSE lines[c]]
TimerForgetsAll(u, v) ==
  /\ timers[u][v] > 0
  /\ timers' = [timers EXCEPT ![u][v] = @ - 1]
  /\ Forget(u, v)
  /\ UNCHANGED <<tab, plays, events>>
TimerFires(u, v) ==
  /\ timers[u][v] > 0
  /\ timers' = [timers EXCEPT ![u][v] = @ - 1]
  /\ IF peers[u][v].connected THEN UNCHANGED <<peers, lines>> ELSE Forget(u, v)
  /\ UNCHANGED <<tab, plays, events>>

(* The swarms of two users in the room open a line; a swarm keeps one for   *)
(* each user. *)
Dial(u, v, c) ==
  /\ u # v /\ tab[u].in /\ tab[v].in
  /\ lines[c] = Free
  /\ \A d \in Ends(u) \cap Ends(v) : \A w \in {u, v} :
       w \in lines[d].old \/ lines[d].phase[w] = "gone"
  /\ lines' = [lines EXCEPT ![c] = NewLine({u, v})]
  /\ UNCHANGED <<tab, peers, timers, plays, events>>

(* attachPeer: the line is open at this end. *)
Connected(u, c) ==
  LET v == Far(u, c)
      r == peers[u][v]
      l == [lines EXCEPT ![c] = Say([@ EXCEPT !.phase[u] = "up"], v, "sendHandshake")]
  IN /\ c \in Ends(u) /\ lines[c].phase[u] = "new" /\ lines[c].phase[v] # "gone"
     /\ CountIf(u \in lines[c].old)
     /\ peers' = [peers EXCEPT ![u][v] =
          [listed |-> TRUE, via |-> c, connected |-> r.connected, audio |-> TRUE]]
     /\ lines' = [d \in Lines |-> IF d = r.via THEN Lose(l[d], u) ELSE l[d]]
     /\ UNCHANGED <<tab, timers, plays>>

(* detachPeer: the line ended at this end, because a swarm was closed, the  *)
(* other end is gone or the connection broke. The peer goes, whatever line  *)
(* its record and its sound are of.                                         *)
Broken(u, c) ==
  LET v == Far(u, c) IN lines[c].old = {} /\ lines[c].phase[v] # "gone"
Ended(u, c) == [lines[c] EXCEPT !.phase[u] = "gone", !.inbox[u] = <<>>,
                                !.sound[u] = "none", !.offered = @ \ {u}]
DisconnectedListed(u, c) ==
  LET v == Far(u, c)
      e == Ended(u, c)
  IN /\ c \in Ends(u) /\ lines[c].phase[u] # "gone"
     /\ CountIf(Broken(u, c))
     /\ lines' = [lines EXCEPT ![c] = IF e.phase[v] = "gone" THEN Free ELSE e]
     /\ plays' = [plays EXCEPT ![u][v] = NoLine]
     /\ UNCHANGED <<tab, timers, peers>>
Disconnected(u, c) ==
  LET v == Far(u, c)
      e == Ended(u, c)
      other == {peers[u][v].via, plays[u][v]} \ {c}
  IN /\ c \in Ends(u) /\ lines[c].phase[u] # "gone"
     /\ CountIf(Broken(u, c))
     /\ peers' = [peers EXCEPT ![u][v] = NoRecord]
     /\ plays' = [plays EXCEPT ![u][v] = NoLine]
     /\ lines' = [d \in Lines |->
          IF d = c THEN IF e.phase[v] = "gone" THEN Free ELSE e
          ELSE IF d \notin other THEN lines[d]
          ELSE Lose(IF d = plays[u][v] THEN Mute(lines[d], u, "none") ELSE lines[d], u)]
     /\ UNCHANGED <<tab, timers>>

-----------------------------------------------------------------------------
(* A message arrives. A record that is no longer listed is still written,   *)
(* but nobody sees it.                                                      *)
SendsOffRefused(u) == ~tab[u].granted
SendsOff(u) == ~(tab[u].mic /\ tab[u].granted)
ShakenSilent(u, c) ==
  LET v == Far(u, c)
      s == [lines[c] EXCEPT !.inbox[u] = Tail(@)]
  IN IF SendsOff(u) THEN Say(s, v, "off")
     ELSE [s EXCEPT !.offered = IF tab[u].in /\ tab[u].granted THEN @ \cup {v} ELSE @]
Shaken(u, c) ==
  LET v == Far(u, c)
      s == [lines[c] EXCEPT !.inbox[u] = Tail(@),
              !.offered = IF tab[u].in /\ tab[u].granted THEN @ \cup {v} ELSE @]
  IN IF SendsOff(u) THEN Say(s, v, "off") ELSE s
Receive(u, c) ==
  LET v == Far(u, c)
      m == Head(lines[c].inbox[u])
      rest == [lines[c] EXCEPT !.inbox[u] = Tail(@)]
      mine == peers[u][v].via = c
  IN /\ Up(u, c) /\ lines[c].inbox[u] # <<>>
     /\ lines' = [lines EXCEPT ![c] =
          CASE m = "receivedHandshake" -> Shaken(u, c)
            [] m = "sendHandshake" -> Say(rest, v, "receivedHandshake")
            [] OTHER -> rest]
     /\ peers' = [peers EXCEPT ![u][v] =
          IF ~mine THEN @
          ELSE CASE m = "sendHandshake" -> [@ EXCEPT !.connected = TRUE]
                 [] m \in {"off", "on"} -> [@ EXCEPT !.audio = (m = "on")]
                 [] OTHER -> @]
     /\ UNCHANGED <<tab, timers, plays, events>>

(* The stream of the other end arrives and is played. *)
StreamArrives(u, c) ==
  /\ Up(u, c) /\ u \in lines[c].offered
  /\ LET v == Far(u, c)
         s == IF tab[u].speaker THEN "on" ELSE "muted"
         l == [lines EXCEPT ![c] = Mute([lines[c] EXCEPT !.offered = @ \ {u}], u, s)]
     IN /\ lines' = [d \in Lines |-> IF d = plays[u][v] THEN Lose(l[d], u) ELSE l[d]]
        /\ plays' = [plays EXCEPT ![u][v] = c]
  /\ UNCHANGED <<tab, peers, timers, events>>

-----------------------------------------------------------------------------
(* setMicrophoneEnabled tells who shook hands. *)
Told(u) == {peers[u][v].via : v \in {w \in Users : peers[u][w].connected}}
Tell(l, u, m) ==
  [c \in Lines |-> IF c \in Told(u) THEN Say(l[c], Far(u, c), m) ELSE l[c]]

ToggleMicrophone(u) ==
  /\ tab[u].in /\ Count(1)
  /\ tab' = [tab EXCEPT ![u].mic = ~@]
  /\ lines' = Tell(lines, u, IF tab[u].mic THEN "off" ELSE "on")
  /\ UNCHANGED <<peers, timers, plays>>

SetSpeakerListed(u, on) ==
  [c \in Lines |->
     IF \E v \in Users : plays[u][v] = c /\ peers[u][v].audio
     THEN Mute(lines[c], u, IF on THEN "on" ELSE "muted") ELSE lines[c]]
SetSpeaker(u, on) ==
  [c \in Lines |->
     IF \E v \in Users : plays[u][v] = c
     THEN Mute(lines[c], u, IF on THEN "on" ELSE "muted") ELSE lines[c]]

(* Headphones off takes the microphone off with them. *)
ToggleSpeaker(u) ==
  LET off == tab[u].speaker /\ tab[u].mic
      l == SetSpeaker(u, ~tab[u].speaker)
  IN /\ tab[u].in /\ Count(1)
     /\ tab' = [tab EXCEPT ![u].speaker = ~@, ![u].mic = @ /\ ~off]
     /\ lines' = IF off THEN Tell(l, u, "off") ELSE l
     /\ UNCHANGED <<peers, timers, plays>>

(* The two buttons, never disabled. *)
VoiceControls(u) == ToggleMicrophone(u) \/ ToggleSpeaker(u)

(* What the panel draws: the user itself, then the peers it was told of,    *)
(* with a microphone that is on or crossed out.                             *)
PeerViews(u) == [v \in {w \in Users : peers[u][w].listed} |-> peers[u][v].audio]
RosterOf(u) ==
  [v \in {u} \cup DOMAIN PeerViews(u) |->
     IF v = u THEN tab[u].mic /\ tab[u].granted ELSE PeerViews(u)[v]]
DrawnOn(roster, v) == v \in DOMAIN roster /\ roster[v]
DrawnOff(roster, v) == v \in DOMAIN roster /\ ~roster[v]

-----------------------------------------------------------------------------
Next ==
  \/ \E u \in Users : \/ \E granted \in BOOLEAN : Join(u, granted)
                      \/ Leave(u) \/ MoveOn(u) \/ VoiceControls(u)
  \/ \E u, v \in Users : HubPeer(u, v) \/ TimerFires(u, v)
  \/ \E u, v \in Users, c \in Lines : Dial(u, v, c)
  \/ \E u \in Users, c \in Lines :
       Connected(u, c) \/ Disconnected(u, c) \/ Receive(u, c) \/ StreamArrives(u, c)
Spec == Init /\ [][Next]_vars

-----------------------------------------------------------------------------
(* Every variable keeps to its type, and no timer outlives its session      *)
(* (voiceSession.js close).                                                 *)
TypeOK ==
  /\ tab \in [Users -> Panel]
  /\ peers \in [Users -> [Users -> Record]]
  /\ \A u, v \in Users : timers[u][v] \in Nat /\ (~tab[u].in => timers[u][v] = 0)
  /\ plays \in [Users -> [Users -> Lines \cup {NoLine}]]
  /\ \A c \in Lines :
       LET l == lines[c] IN
       /\ l.ends \subseteq Users /\ l.old \cup l.offered \cup l.lost \subseteq l.ends
       /\ l.phase \in [l.ends -> {"new", "up", "gone"}]
       /\ l.sound \in [l.ends -> {"none", "on", "muted"}]
       /\ \A u \in l.ends : Range(l.inbox[u]) \subseteq Message

(* Two ends that have said all they had to say over a line of their present *)
(* sessions, with their records still in place. *)
Agreed(u, v, c) ==
  /\ u # v /\ Up(u, c) /\ Up(v, c)
  /\ lines[c].old = {} /\ lines[c].lost = {}
  /\ lines[c].inbox[u] = <<>> /\ lines[c].inbox[v] = <<>>

(* Once the messages of a line are through, either end lists the other as   *)
(* connected and draws the other's microphone as the other draws it, however *)
(* the buttons were clicked while the hands were shaken (voiceSession.js    *)
(* setMicrophoneEnabled and attachPeer). Who was refused the microphone is  *)
(* drawn with the setting of the button.                                    *)
MicrophoneShown ==
  \A u, v \in Users, c \in Lines : Agreed(u, v, c) =>
    /\ peers[v][u].via = c /\ peers[v][u].connected
    /\ DrawnOn(RosterOf(v), u) => tab[u].mic
    /\ DrawnOff(RosterOf(v), u) => DrawnOff(RosterOf(u), u)

(* Once the streams have arrived as well, everybody hears who has a         *)
(* microphone, off or on, so that turning it on needs nothing more.         *)
EverybodyHeard ==
  \A u, v \in Users, c \in Lines :
    Agreed(u, v, c) /\ lines[c].offered = {} =>
      (lines[c].sound[v] # "none" <=> tab[u].granted)

(* What is heard obeys the headphones button, in whatever order streams,    *)
(* clicks and departures come (voiceSession.js setSpeakerEnabled, attachPeer *)
(* and close): nothing sounds with the headphones off, of present and of    *)
(* late lines, and with them on every present line sounds. A lost end is    *)
(* exempt: its record or playback was forgotten or went to another line, so *)
(* that the button no longer reaches it.                                    *)
SpeakerObeyed ==
  \A u \in Users : \A c \in Ends(u) : u \notin lines[c].lost =>
    /\ lines[c].sound[u] = "on" => tab[u].speaker
    /\ lines[c].sound[u] = "muted" /\ u \notin lines[c].old => ~tab[u].speaker

(* Who has shaken hands stays listed until its line ends or the session     *)
(* closes: no timer of an earlier appearance takes it away (voiceSession.js *)
(* registerHubPeer). Only another line that opens or ends can, when one of  *)
(* the two is of a closed session, because detachPeer and attachPeer go by  *)
(* the user.                                                                *)
ConnectedStay ==
  [][\A u, v \in Users, c \in Lines :
       /\ peers[u][v].via = c /\ peers[u][v].connected /\ peers'[u][v].via # c
       => \/ ~tab'[u].in
          \/ c \in Ends(u) /\ (lines'[c] = Free \/ lines'[c].phase[u] = "gone")
          \/ \E d \in Ends(u) :
               /\ u \in lines[c].old \cup lines[d].old
               /\ lines'[d] = Free \/ lines'[d].phase[u] # lines[d].phase[u]]_vars

(* No entry of a roster is there for good: a timer is running for one that  *)
(* never connected, the line of any other is up, so that its end will take  *)
(* it away, however often a user left and came back (voiceSession.js        *)
(* registerHubPeer, attachPeer and detachPeer).                             *)
NoGhosts ==
  \A u, v \in Users : peers[u][v].listed =>
    IF peers[u][v].via = NoLine THEN timers[u][v] > 0 ELSE Up(u, peers[u][v].via)
=============================================================================
