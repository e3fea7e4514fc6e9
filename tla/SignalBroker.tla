----------------------------- MODULE SignalBroker -----------------------------
(***************************************************************************)
(* The in-memory signal broker and the goroutines around it: publishers     *)
(* (handleSignalPublish, handleSignalInvite) and event streams              *)
(* (handleSignalStream), which hold one of their user's subscription slots  *)
(* for as long as they run (server/signal_broker.go, signal_limits.go).     *)
(*                                                                         *)
(* broker.mu and limiter.mu protect single short sections, each one step.   *)
(* A subscriber's own mutex is what keeps a send and the close of its       *)
(* channel apart, so it is modelled: taking it, testing closed, sending,    *)
(* marking closed and closing the channel are steps of their own.           *)
(***************************************************************************)
EXTENDS Integers, Sequences, FiniteSets

CONSTANTS
  Streams,     \* runs of handleSignalStream; each makes one signalSubscriber
  Publishers,  \* goroutines that publish, one message after another
  Users,
  Topics,
  UserOf,      \* the user of a stream
  TopicOf,     \* the topic a stream asks for
  Free,        \* holder of a free mutex
  MaxSubs,     \* maxSignalSubscriptionsPerUser
  Buffer,      \* signalSubscriberBufferSize
  MaxMessages  \* bound on the messages of one publisher

ASSUME BrokerAssumption ==
  /\ UserOf \in [Streams -> Users]
  /\ TopicOf \in [Streams -> Topics]
  /\ Streams \cap Publishers = {}
  /\ Free \notin Streams \cup Publishers
  /\ MaxSubs \in Nat \ {0}
  /\ Buffer \in Nat \ {0}
  /\ MaxMessages \in Nat

VARIABLES
  subs,      \* broker.subs: the subscribers of each topic
  count,     \* limiter.subscriptions: slots taken, per user
  pc,        \* control state of a stream
  smu,       \* holder of a subscriber's mutex
  closed,    \* subscriber.closed
  chClosed,  \* its channel is closed
  ch,        \* what is in its channel
  got,       \* history: what the stream wrote to its client, in order
  dropped,   \* history: messages its full channel turned away
  todo,      \* subscribers a publisher has still to serve (its slist)
  target,    \* the subscriber whose mutex it holds
  ready,     \* it has found that subscriber open and is about to send
  sent,      \* number of its messages so far
  audience   \* history: subscribers found by its latest publish

streamVars == <<count, pc, got>>
pubVars == <<todo, target, ready, sent, audience>>
chanVars == <<closed, chClosed, ch, dropped>>
vars == <<subs, smu, streamVars, pubVars, chanVars>>

Message == Publishers \X (1..MaxMessages)
None == Free

Init ==
  /\ subs = [t \in Topics |-> {}]
  /\ count = [u \in Users |-> 0]
  /\ pc = [s \in Streams |-> "new"]
  /\ smu = [s \in Streams |-> Free]
  /\ closed = [s \in Streams |-> FALSE]
  /\ chClosed = [s \in Streams |-> FALSE]
  /\ ch = [s \in Streams |-> << >>]
  /\ got = [s \in Streams |-> << >>]
  /\ dropped = [s \in Streams |-> {}]
  /\ todo = [p \in Publishers |-> {}]
  /\ target = [p \in Publishers |-> None]
  /\ ready = [p \in Publishers |-> FALSE]
  /\ sent = [p \in Publishers |-> 0]
  /\ audience = [p \in Publishers |-> {}]

Goto(s, label) == pc' = [pc EXCEPT ![s] = label]

-----------------------------------------------------------------------------
(* Streams *)

(* acquireSubscription; a user with all slots taken is turned away. *)
Acquire(s) ==
  /\ pc[s] = "new"
  /\ IF count[UserOf[s]] >= MaxSubs
     THEN Goto(s, "done") /\ UNCHANGED count
     ELSE Goto(s, "acquired") /\ count' = [count EXCEPT ![UserOf[s]] = @ + 1]
  /\ UNCHANGED <<subs, smu, got, pubVars, chanVars>>

(* The session does not authorize the user, or the query is malformed: the  *)
(* deferred release still runs.                                             *)
Deny(s) ==
  /\ pc[s] = "acquired"
  /\ Goto(s, "release")
  /\ UNCHANGED <<subs, smu, count, got, pubVars, chanVars>>

Subscribe(s) ==
  /\ pc[s] = "acquired"
  /\ subs' = [subs EXCEPT ![TopicOf[s]] = @ \cup {s}]
  /\ Goto(s, "open")
  /\ UNCHANGED <<smu, count, got, pubVars, chanVars>>

Receive(s) ==
  /\ pc[s] = "open"
  /\ ch[s] # << >>
  /\ got' = [got EXCEPT ![s] = Append(@, Head(ch[s]))]
  /\ ch' = [ch EXCEPT ![s] = Tail(@)]
  /\ UNCHANGED <<subs, smu, count, pc, pubVars, closed, chClosed, dropped>>

(* The client is gone (ctx.Done, or the heartbeat cannot be written).  The  *)
(* deferred unsub first takes the subscriber out of the topic, ...          *)
UnsubscribeKeepsEntry(s) ==  \* mutant: the subscriber stays in the topic
  /\ pc[s] = "open"
  /\ Goto(s, "unsubscribed")
  /\ UNCHANGED <<subs, smu, count, got, pubVars, chanVars>>

Unsubscribe(s) ==
  /\ pc[s] = "open"
  /\ subs' = [subs EXCEPT ![TopicOf[s]] = @ \ {s}]
  /\ Goto(s, "unsubscribed")
  /\ UNCHANGED <<smu, count, got, pubVars, chanVars>>

(* ... then closes it, under its mutex.                                     *)
CloseLock(s) ==
  /\ pc[s] = "unsubscribed"
  /\ smu[s] = Free
  /\ smu' = [smu EXCEPT ![s] = s]
  /\ Goto(s, "closing")
  /\ UNCHANGED <<subs, count, got, pubVars, chanVars>>

MarkClosed(s) ==
  /\ pc[s] = "closing"
  /\ closed' = [closed EXCEPT ![s] = TRUE]
  /\ Goto(s, "marked")
  /\ UNCHANGED <<subs, smu, count, got, pubVars, chClosed, ch, dropped>>

CloseChannel(s) ==
  /\ pc[s] = "marked"
  /\ chClosed' = [chClosed EXCEPT ![s] = TRUE]
  /\ smu' = [smu EXCEPT ![s] = Free]
  /\ Goto(s, "release")
  /\ UNCHANGED <<subs, count, got, pubVars, closed, ch, dropped>>

ReleaseKeepsLast(s) ==  \* mutant: the last slot of a user is never deleted
  /\ pc[s] = "release"
  /\ count' = [count EXCEPT ![UserOf[s]] = IF @ <= 1 THEN @ ELSE @ - 1]
  /\ Goto(s, "done")
  /\ UNCHANGED <<subs, smu, got, pubVars, chanVars>>

Release(s) ==
  /\ pc[s] = "release"
  /\ count' = [count EXCEPT ![UserOf[s]] = IF @ <= 1 THEN 0 ELSE @ - 1]
  /\ Goto(s, "done")
  /\ UNCHANGED <<subs, smu, got, pubVars, chanVars>>

-----------------------------------------------------------------------------
(* Publishers.  A message goes to the subscribers found at the start, one   *)
(* after the other; the order among them is left open, being invisible to   *)
(* each of them.                                                            *)
Idle(p) == todo[p] = {} /\ target[p] = None

Publish(p, t) ==
  /\ Idle(p)
  /\ sent[p] < MaxMessages
  /\ sent' = [sent EXCEPT ![p] = @ + 1]
  /\ todo' = [todo EXCEPT ![p] = subs[t]]
  /\ audience' = [audience EXCEPT ![p] = subs[t]]
  /\ UNCHANGED <<subs, smu, streamVars, target, ready, chanVars>>

DeliverUnlocked(p) ==  \* mutant: the mutex is never taken
  /\ target[p] = None
  /\ \E s \in todo[p] :
       /\ target' = [target EXCEPT ![p] = s]
       /\ todo' = [todo EXCEPT ![p] = @ \ {s}]
  /\ UNCHANGED <<subs, smu, streamVars, ready, sent, audience, chanVars>>

DeliverLock(p) ==
  /\ target[p] = None
  /\ \E s \in todo[p] :
       /\ smu[s] = Free
       /\ smu' = [smu EXCEPT ![s] = p]
       /\ target' = [target EXCEPT ![p] = s]
       /\ todo' = [todo EXCEPT ![p] = @ \ {s}]
  /\ UNCHANGED <<subs, streamVars, ready, sent, audience, chanVars>>

(* Unlocking ends the delivery to one subscriber. *)
EndDelivery(p) ==
  /\ smu' = [smu EXCEPT ![target[p]] = Free]
  /\ target' = [target EXCEPT ![p] = None]
  /\ ready' = [ready EXCEPT ![p] = FALSE]

CheckAbandonsRest(p) ==  \* mutant: a closed subscriber ends the publisher's loop
  /\ target[p] # None
  /\ ~ready[p]
  /\ \/ closed[target[p]] /\ EndDelivery(p) /\ todo' = [todo EXCEPT ![p] = {}]
     \/ /\ ~closed[target[p]]
        /\ ready' = [ready EXCEPT ![p] = TRUE]
        /\ UNCHANGED <<smu, target, todo>>
  /\ UNCHANGED <<subs, streamVars, sent, audience, chanVars>>

(* A closed subscriber is skipped. *)
Check(p) ==
  /\ target[p] # None
  /\ ~ready[p]
  /\ \/ closed[target[p]] /\ EndDelivery(p)
     \/ /\ ~closed[target[p]]
        /\ ready' = [ready EXCEPT ![p] = TRUE]
        /\ UNCHANGED <<smu, target>>
  /\ UNCHANGED <<subs, streamVars, todo, sent, audience, chanVars>>

SendBlocks(p) ==  \* mutant: no default branch in the select
  /\ ready[p]
  /\ Len(ch[target[p]]) < Buffer
  /\ ch' = [ch EXCEPT ![target[p]] = Append(@, <<p, sent[p]>>)]
  /\ EndDelivery(p)
  /\ UNCHANGED <<subs, streamVars, todo, sent, audience, closed, chClosed, dropped>>

(* A subscriber whose channel is full loses the message. *)
Send(p) ==
  LET s == target[p]
      m == <<p, sent[p]>>
  IN  /\ ready[p]
      /\ \/ /\ Len(ch[s]) < Buffer
            /\ ch' = [ch EXCEPT ![s] = Append(@, m)]
            /\ UNCHANGED dropped
         \/ /\ Len(ch[s]) >= Buffer
            /\ dropped' = [dropped EXCEPT ![s] = @ \cup {m}]
            /\ UNCHANGED ch
      /\ EndDelivery(p)
      /\ UNCHANGED <<subs, streamVars, todo, sent, audience, closed, chClosed>>

-----------------------------------------------------------------------------
StreamStep(s) ==
  \/ Acquire(s) \/ Deny(s) \/ Subscribe(s)
  \/ CloseLock(s) \/ MarkClosed(s) \/ CloseChannel(s) \/ Release(s)

PublisherStep(p) == DeliverLock(p) \/ Check(p) \/ Send(p)

(* Every stream has ended and every message is out. *)
Quiescent ==
  /\ \A s \in Streams : pc[s] = "done"
  /\ \A p \in Publishers : Idle(p) /\ sent[p] = MaxMessages
  /\ UNCHANGED vars

Next ==
  \/ \E s \in Streams : StreamStep(s) \/ Receive(s) \/ Unsubscribe(s)
  \/ \E p \in Publishers : PublisherStep(p) \/ \E t \in Topics : Publish(p, t)
  \/ Quiescent

Spec == Init /\ [][Next]_vars

(* Goroutines that can run do run, and a mutex is handed to who waits for   *)
(* it.  Nothing is assumed of clients: a stream need not be read, ever.     *)
FairSpec ==
  /\ Spec
  /\ \A s \in Streams : WF_vars(StreamStep(s)) /\ SF_vars(CloseLock(s))
  /\ \A p \in Publishers : WF_vars(PublisherStep(p)) /\ SF_vars(DeliverLock(p))

-----------------------------------------------------------------------------
Labels == {"new", "acquired", "open", "unsubscribed", "closing", "marked", "release", "done"}

(* Every variable keeps its type, and a channel its capacity. *)
TypeOK ==
  /\ subs \in [Topics -> SUBSET Streams]
  /\ count \in [Users -> Nat]
  /\ pc \in [Streams -> Labels]
  /\ smu \in [Streams -> Streams \cup Publishers \cup {Free}]
  /\ closed \in [Streams -> BOOLEAN]
  /\ chClosed \in [Streams -> BOOLEAN]
  /\ ch \in [Streams -> Seq(Message)]
  /\ \A s \in Streams : Len(ch[s]) <= Buffer
  /\ got \in [Streams -> Seq(Message)]
  /\ dropped \in [Streams -> SUBSET Message]
  /\ todo \in [Publishers -> SUBSET Streams]
  /\ target \in [Publishers -> Streams \cup {None}]
  /\ ready \in [Publishers -> BOOLEAN]
  /\ sent \in [Publishers -> 0..MaxMessages]
  /\ audience \in [Publishers -> SUBSET Streams]

(* No goroutine sends on a closed channel, which would bring the plugin     *)
(* down: the promise of the comment above signalSubscriber.                 *)
NoSendOnClosed == \A p \in Publishers : ready[p] => ~chClosed[target[p]]

(* A message is lost to a subscriber only because its channel was full or   *)
(* because it is leaving: every stream that was subscribed when the message *)
(* was published, and still is when the publisher is through, has it.       *)
NothingLost ==
  \A p \in Publishers, s \in Streams :
    Idle(p) /\ s \in audience[p] /\ pc[s] = "open"
      => \/ <<p, sent[p]>> \in dropped[s]
         \/ \E i \in DOMAIN (got[s] \o ch[s]) : (got[s] \o ch[s])[i] = <<p, sent[p]>>

(* The broker knows exactly the streams between Subscribe and Unsubscribe:  *)
(* no subscriber is left behind by a stream that ended.                     *)
NoLeakedSubscriber ==
  \A t \in Topics : subs[t] = {s \in Streams : pc[s] = "open" /\ TopicOf[s] = t}

(* A user's slots are exactly the streams of that user that run: every way  *)
(* out of the handler gives its slot back once, and the limit holds.        *)
SlotsAccounted ==
  \A u \in Users :
    /\ count[u] = Cardinality({s \in Streams : UserOf[s] = u /\ pc[s] \notin {"new", "done"}})
    /\ count[u] <= MaxSubs

(* Publishing never waits for a client: even if no stream is ever read, a   *)
(* publisher gets through its list ("slow SSE clients must not block").     *)
PublishEnds == \A p \in Publishers : ~Idle(p) ~> Idle(p)
=============================================================================
