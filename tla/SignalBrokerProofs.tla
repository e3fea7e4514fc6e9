-------------------------- MODULE SignalBrokerProofs --------------------------
(***************************************************************************)
(* For any number of streams and publishers: the mutex of a subscriber      *)
(* keeps a send and the close of its channel apart, and the broker knows    *)
(* exactly the streams that are open; a message is lost to a stream only by *)
(* a full channel; and a user's slots are exactly the running streams.      *)
(***************************************************************************)
EXTENDS SignalBroker, FiniteSetTheorems, SequenceTheorems, TLAPS

USE BrokerAssumption DEF None

Holding == {"closing", "marked"}

(* The part of the types the arguments below need. *)
Typed ==
  /\ subs \in [Topics -> SUBSET Streams]
  /\ pc \in [Streams -> Labels]
  /\ smu \in [Streams -> Streams \cup Publishers \cup {Free}]
  /\ closed \in [Streams -> BOOLEAN]
  /\ chClosed \in [Streams -> BOOLEAN]
  /\ todo \in [Publishers -> SUBSET Streams]
  /\ target \in [Publishers -> Streams \cup {None}]
  /\ ready \in [Publishers -> BOOLEAN]

(* Who acts on a subscriber holds its mutex, and who is about to send has   *)
(* found it open.                                                           *)
PublisherHolds ==
  \A p \in Publishers :
    /\ target[p] # None => smu[target[p]] = p
    /\ ready[p] => target[p] # None /\ ~closed[target[p]]

StreamHolds == \A s \in Streams : pc[s] \in Holding => smu[s] = s

(* A channel is closed after its subscriber is marked so. *)
MarkedFirst ==
  \A s \in Streams :
    /\ chClosed[s] => closed[s]
    /\ pc[s] = "marked" => closed[s]

IndInv ==
  /\ Typed
  /\ PublisherHolds
  /\ StreamHolds
  /\ MarkedFirst
  /\ NoLeakedSubscriber

LEMMA InitIndInv == Init => IndInv
  BY DEF Init, IndInv, Typed, PublisherHolds, StreamHolds, MarkedFirst,
         NoLeakedSubscriber, Holding, Labels

LEMMA NextIndInv == IndInv /\ [Next]_vars => IndInv'
<1> SUFFICES ASSUME IndInv, [Next]_vars PROVE IndInv'
  OBVIOUS
<1> USE DEF IndInv, Typed, PublisherHolds, StreamHolds, MarkedFirst,
            NoLeakedSubscriber, Holding, Labels, Goto
<1>1. ASSUME NEW s \in Streams, Acquire(s) PROVE IndInv'
  BY <1>1 DEF Acquire, pubVars, chanVars
<1>2. ASSUME NEW s \in Streams, Deny(s) PROVE IndInv'
  BY <1>2 DEF Deny, pubVars, chanVars
<1>3. ASSUME NEW s \in Streams, Subscribe(s) PROVE IndInv'
  BY <1>3 DEF Subscribe, pubVars, chanVars
<1>4. ASSUME NEW s \in Streams, Receive(s) PROVE IndInv'
  BY <1>4 DEF Receive, pubVars
<1>5. ASSUME NEW s \in Streams, Unsubscribe(s) PROVE IndInv'
  BY <1>5 DEF Unsubscribe, pubVars, chanVars
<1>6. ASSUME NEW s \in Streams, CloseLock(s) PROVE IndInv'
  BY <1>6 DEF CloseLock, pubVars, chanVars
<1>7. ASSUME NEW s \in Streams, MarkClosed(s) PROVE IndInv'
  BY <1>7 DEF MarkClosed, pubVars
<1>8. ASSUME NEW s \in Streams, CloseChannel(s) PROVE IndInv'
  BY <1>8 DEF CloseChannel, pubVars
<1>9. ASSUME NEW s \in Streams, Release(s) PROVE IndInv'
  BY <1>9 DEF Release, pubVars, chanVars
<1>10. ASSUME NEW p \in Publishers, NEW t \in Topics, Publish(p, t) PROVE IndInv'
  BY <1>10 DEF Publish, Idle, streamVars, chanVars
<1>11. ASSUME NEW p \in Publishers, DeliverLock(p) PROVE IndInv'
  BY <1>11 DEF DeliverLock, streamVars, chanVars
<1>12. ASSUME NEW p \in Publishers, Check(p) PROVE IndInv'
  <2>1. Typed'
    BY <1>12 DEF Check, EndDelivery, streamVars, chanVars
  <2>2. PublisherHolds'
    BY <1>12 DEF Check, EndDelivery, streamVars, chanVars
  <2>3. StreamHolds'
    BY <1>12 DEF Check, EndDelivery, streamVars, chanVars
  <2>4. MarkedFirst'
    BY <1>12 DEF Check, EndDelivery, streamVars, chanVars
  <2>5. NoLeakedSubscriber'
    BY <1>12 DEF Check, EndDelivery, streamVars, chanVars
  <2> QED
    BY <2>1, <2>2, <2>3, <2>4, <2>5
<1>13. ASSUME NEW p \in Publishers, Send(p) PROVE IndInv'
  <2>1. Typed'
    BY <1>13 DEF Send, EndDelivery, streamVars, chanVars
  <2>2. PublisherHolds'
    BY <1>13 DEF Send, EndDelivery, streamVars, chanVars
  <2>3. StreamHolds'
    BY <1>13 DEF Send, EndDelivery, streamVars, chanVars
  <2>4. MarkedFirst'
    BY <1>13 DEF Send, EndDelivery, streamVars, chanVars
  <2>5. NoLeakedSubscriber'
    BY <1>13 DEF Send, EndDelivery, streamVars, chanVars
  <2> QED
    BY <2>1, <2>2, <2>3, <2>4, <2>5
<1>14. ASSUME UNCHANGED vars PROVE IndInv'
  BY <1>14 DEF vars, streamVars, pubVars, chanVars
<1> QED
  BY <1>1, <1>2, <1>3, <1>4, <1>5, <1>6, <1>7, <1>8, <1>9, <1>10, <1>11, <1>12,
     <1>13, <1>14 DEF Next, StreamStep, PublisherStep, Quiescent

LEMMA Inductive == Spec => []IndInv
  BY InitIndInv, NextIndInv, PTL DEF Spec

(* No publisher ever sends on a closed channel, however many publishers and *)
(* streams race (deliver and close in signal_broker.go).                    *)
THEOREM SendsOnOpenChannels == Spec => []NoSendOnClosed
<1>1. IndInv => NoSendOnClosed
  BY DEF IndInv, Typed, PublisherHolds, MarkedFirst, NoSendOnClosed
<1> QED
  BY <1>1, Inductive, PTL

(* The subscribers of a topic are always exactly its open streams           *)
(* (subscribe and its unsubscribe function in signal_broker.go).            *)
THEOREM NoSubscriberLeaks == Spec => []NoLeakedSubscriber
<1>1. IndInv => NoLeakedSubscriber
  BY DEF IndInv
<1> QED
  BY <1>1, Inductive, PTL

-----------------------------------------------------------------------------
(* Slots *)

Running(u) == {s \in Streams : UserOf[s] = u /\ pc[s] \notin {"new", "done"}}

Accounted ==
  /\ count \in [Users -> Nat]
  /\ \A u \in Users :
       /\ IsFiniteSet(Running(u))
       /\ count[u] = Cardinality(Running(u))
       /\ count[u] <= MaxSubs

(* Only Acquire and Release change the slots or who runs. *)
LEMMA SlotsFrame ==
  ASSUME NEW s \in Streams, NEW label \in Labels \ {"new", "done"},
         Typed, Accounted, pc[s] \notin {"new", "done"}, Goto(s, label), UNCHANGED count
  PROVE  Accounted'
<1>1. ASSUME NEW u \in Users PROVE Running(u)' = Running(u)
  BY DEF Running, Goto, Typed
<1> QED
  BY <1>1 DEF Accounted

LEMMA AcquireSlots ==
  ASSUME NEW s \in Streams, Typed, Accounted, Acquire(s)
  PROVE  Accounted'
<1> DEFINE w == UserOf[s]
<1>1. w \in Users /\ s \notin Running(w) /\ pc[s] = "new"
  BY DEF Acquire, Running
<1>2. CASE count[w] >= MaxSubs
  <2>1. ASSUME NEW u \in Users PROVE Running(u)' = Running(u)
    BY <1>1, <1>2 DEF Running, Acquire, Goto, Typed
  <2> QED
    BY <1>2, <2>1 DEF Accounted, Acquire
<1>3. CASE ~(count[w] >= MaxSubs)
  <2>1. Running(w)' = Running(w) \cup {s}
    BY <1>1, <1>3 DEF Running, Acquire, Goto, Typed, Labels
  <2>2. ASSUME NEW u \in Users, u # w PROVE Running(u)' = Running(u)
    BY <1>1, <1>3, <2>2 DEF Running, Acquire, Goto, Typed, Labels
  <2>3. count' = [count EXCEPT ![w] = @ + 1]
    BY <1>3 DEF Acquire
  <2>4. count[w] = Cardinality(Running(w)) /\ count[w] \in Nat /\ IsFiniteSet(Running(w))
    BY <1>1 DEF Accounted
  <2>5. IsFiniteSet(Running(w)') /\ Cardinality(Running(w)') = count[w] + 1
    BY <1>1, <2>1, <2>4, FS_AddElement
  <2>6. count'[w] = Cardinality(Running(w)') /\ count'[w] <= MaxSubs
    BY <1>1, <1>3, <2>3, <2>4, <2>5 DEF Accounted
  <2>7. ASSUME NEW u \in Users, u # w
        PROVE  /\ count'[u] = Cardinality(Running(u)')
               /\ count'[u] <= MaxSubs
               /\ IsFiniteSet(Running(u)')
    BY <1>1, <2>2, <2>3, <2>7 DEF Accounted
  <2>8. count' \in [Users -> Nat]
    BY <1>1, <2>3 DEF Accounted
  <2> QED
    BY <1>1, <2>5, <2>6, <2>7, <2>8 DEF Accounted
<1> QED
  BY <1>2, <1>3

LEMMA ReleaseSlots ==
  ASSUME NEW s \in Streams, Typed, Accounted, Release(s)
  PROVE  Accounted'
<1> DEFINE w == UserOf[s]
<1>1. w \in Users /\ s \in Running(w) /\ pc[s] = "release"
  BY DEF Release, Running
<1>2. Running(w)' = Running(w) \ {s}
  BY <1>1 DEF Running, Release, Goto, Typed, Labels
<1>3. ASSUME NEW u \in Users, u # w PROVE Running(u)' = Running(u)
  BY <1>1, <1>3 DEF Running, Release, Goto, Typed, Labels
<1>4. count[w] = Cardinality(Running(w)) /\ count[w] \in Nat /\ IsFiniteSet(Running(w))
      /\ count[w] <= MaxSubs
  BY <1>1 DEF Accounted
<1>5. IsFiniteSet(Running(w)') /\ Cardinality(Running(w)') = count[w] - 1
  BY <1>1, <1>2, <1>4, FS_RemoveElement
<1>6. count[w] >= 1
  BY <1>5, <1>4, FS_CardinalityType
<1>7. count' = [count EXCEPT ![w] = count[w] - 1]
  <2>1. (IF count[w] <= 1 THEN 0 ELSE count[w] - 1) = count[w] - 1
    BY <1>4, <1>6
  <2>2. count' = [count EXCEPT ![w] = IF count[w] <= 1 THEN 0 ELSE count[w] - 1]
    BY DEF Release
  <2> QED
    BY <2>1, <2>2
<1>8. count'[w] = Cardinality(Running(w)') /\ count'[w] <= MaxSubs
  BY <1>1, <1>4, <1>5, <1>7 DEF Accounted
<1>9. ASSUME NEW u \in Users, u # w
      PROVE  /\ count'[u] = Cardinality(Running(u)')
             /\ count'[u] <= MaxSubs
             /\ IsFiniteSet(Running(u)')
  BY <1>1, <1>3, <1>7, <1>9 DEF Accounted
<1>10. count' \in [Users -> Nat]
  BY <1>1, <1>4, <1>6, <1>7 DEF Accounted
<1>11. ASSUME NEW u \in Users
       PROVE  /\ IsFiniteSet(Running(u)')
              /\ count'[u] = Cardinality(Running(u)')
              /\ count'[u] <= MaxSubs
  BY <1>5, <1>8, <1>9
<1> QED
  BY <1>10, <1>11 DEF Accounted

LEMMA InitAccounted == Init => Accounted
<1> SUFFICES ASSUME Init PROVE Accounted
  OBVIOUS
<1>1. ASSUME NEW u \in Users PROVE Running(u) = {}
  BY DEF Running, Init
<1>2. IsFiniteSet({}) /\ Cardinality({}) = 0
  BY FS_EmptySet
<1>3. ASSUME NEW u \in Users PROVE count[u] = 0 /\ 0 <= MaxSubs
  BY DEF Init
<1>4. count \in [Users -> Nat]
  BY DEF Init
<1>5. ASSUME NEW u \in Users
      PROVE  /\ IsFiniteSet(Running(u))
             /\ count[u] = Cardinality(Running(u))
             /\ count[u] <= MaxSubs
  BY <1>1, <1>2, <1>3, Zenon
<1> QED
  BY <1>4, <1>5 DEF Accounted

LEMMA NextAccounted == Typed /\ Accounted /\ [Next]_vars => Accounted'
<1> SUFFICES ASSUME Typed, Accounted, [Next]_vars PROVE Accounted'
  OBVIOUS
<1>1. ASSUME UNCHANGED <<pc, count>> PROVE Accounted'
  BY <1>1 DEF Accounted, Running
<1>2. ASSUME NEW s \in Streams, Deny(s) PROVE Accounted'
  BY <1>2, SlotsFrame DEF Deny, Labels
<1>3. ASSUME NEW s \in Streams, Subscribe(s) PROVE Accounted'
  BY <1>3, SlotsFrame DEF Subscribe, Labels
<1>4. ASSUME NEW s \in Streams, Unsubscribe(s) PROVE Accounted'
  BY <1>4, SlotsFrame DEF Unsubscribe, Labels
<1>5. ASSUME NEW s \in Streams, CloseLock(s) PROVE Accounted'
  BY <1>5, SlotsFrame DEF CloseLock, Labels
<1>6. ASSUME NEW s \in Streams, MarkClosed(s) PROVE Accounted'
  BY <1>6, SlotsFrame DEF MarkClosed, Labels
<1>7. ASSUME NEW s \in Streams, CloseChannel(s) PROVE Accounted'
  BY <1>7, SlotsFrame DEF CloseChannel, Labels
<1>8. ASSUME NEW s \in Streams, Receive(s) PROVE Accounted'
  BY <1>1, <1>8 DEF Receive
<1>9. ASSUME NEW p \in Publishers, PublisherStep(p) \/ \E t \in Topics : Publish(p, t)
      PROVE  Accounted'
  BY <1>1, <1>9 DEF PublisherStep, Publish, DeliverLock, Check, Send, streamVars
<1>10. ASSUME UNCHANGED vars PROVE Accounted'
  BY <1>1, <1>10 DEF vars, streamVars
<1> QED
  BY <1>2, <1>3, <1>4, <1>5, <1>6, <1>7, <1>8, <1>9, <1>10, AcquireSlots, ReleaseSlots
     DEF Next, StreamStep, Quiescent

(* A user's slots are exactly that user's running streams and never more    *)
(* than the limit, whatever the order in which streams open, are refused    *)
(* and end (acquireSubscription in signal_limits.go and the deferred        *)
(* release of handleSignalStream).                                          *)
THEOREM SlotsGivenBack == Spec => []SlotsAccounted
<1>1. IndInv => Typed
  BY DEF IndInv
<1>2. Accounted => SlotsAccounted
  BY DEF Accounted, SlotsAccounted, Running
<1> QED
  BY <1>1, <1>2, InitAccounted, NextAccounted, Inductive, PTL DEF Spec

-----------------------------------------------------------------------------
(* Types, and the delivery of messages *)

(* A publisher with deliveries to make has published. *)
Published == \A p \in Publishers : ~Idle(p) => sent[p] > 0

LEMMA InitTypes == Init => TypeOK /\ Published
  BY DEF Init, TypeOK, Labels, Message, Published, Idle

LEMMA NextTypes == IndInv /\ TypeOK /\ Published /\ [Next]_vars => TypeOK' /\ Published'
<1> SUFFICES ASSUME IndInv, TypeOK, Published, [Next]_vars PROVE TypeOK' /\ Published'
  OBVIOUS
<1> USE DEF TypeOK, Published, Idle, Labels, Goto
<1>1. ASSUME NEW s \in Streams, Acquire(s) PROVE TypeOK' /\ Published'
  <2>1. count' = count \/ count' = [count EXCEPT ![UserOf[s]] = @ + 1]
    BY <1>1 DEF Acquire
  <2>2. count' \in [Users -> Nat]
    <3>1. count \in [Users -> Nat] /\ UserOf[s] \in Users
      OBVIOUS
    <3> HIDE DEF TypeOK
    <3>2. \/ count' \in [Users -> Nat]
          \/ count' = [count EXCEPT ![UserOf[s]] = @ + 1]
      BY <2>1, <3>1
    <3> QED
      BY <3>1, <3>2
  <2>3. pc' \in [Streams -> Labels]
    BY <1>1, NextIndInv DEF Next, StreamStep, IndInv, Typed
  <2> QED
    BY <1>1, <2>2, <2>3 DEF Acquire, pubVars, chanVars
<1>2. ASSUME NEW s \in Streams, Deny(s) PROVE TypeOK' /\ Published'
  BY <1>2 DEF Deny, pubVars, chanVars
<1>3. ASSUME NEW s \in Streams, Subscribe(s) PROVE TypeOK' /\ Published'
  BY <1>3 DEF Subscribe, pubVars, chanVars
<1>4. ASSUME NEW s \in Streams, Receive(s) PROVE TypeOK' /\ Published'
  <2>1. /\ Head(ch[s]) \in Message /\ Tail(ch[s]) \in Seq(Message)
        /\ Len(Tail(ch[s])) = Len(ch[s]) - 1 /\ Len(ch[s]) \in Nat
    BY <1>4, HeadTailProperties, LenProperties DEF Receive
  <2>2. Append(got[s], Head(ch[s])) \in Seq(Message)
    BY <2>1, AppendProperties
  <2>3. got' \in [Streams -> Seq(Message)] /\ ch' \in [Streams -> Seq(Message)]
    BY <1>4, <2>1, <2>2 DEF Receive
  <2>4. ASSUME NEW z \in Streams PROVE Len(ch'[z]) <= Buffer
    BY <1>4, <2>1 DEF Receive
  <2> QED
    BY <1>4, <2>3, <2>4 DEF Receive, pubVars
<1>5. ASSUME NEW s \in Streams, Unsubscribe(s) PROVE TypeOK' /\ Published'
  BY <1>5 DEF Unsubscribe, pubVars, chanVars
<1>6. ASSUME NEW s \in Streams, CloseLock(s) PROVE TypeOK' /\ Published'
  BY <1>6 DEF CloseLock, pubVars, chanVars
<1>7. ASSUME NEW s \in Streams, MarkClosed(s) PROVE TypeOK' /\ Published'
  BY <1>7 DEF MarkClosed, pubVars
<1>8. ASSUME NEW s \in Streams, CloseChannel(s) PROVE TypeOK' /\ Published'
  BY <1>8 DEF CloseChannel, pubVars
<1>9. ASSUME NEW s \in Streams, Release(s) PROVE TypeOK' /\ Published'
  <2>1. (IF count[UserOf[s]] <= 1 THEN 0 ELSE count[UserOf[s]] - 1) \in Nat
    OBVIOUS
  <2>2. count' \in [Users -> Nat]
    BY <1>9, <2>1 DEF Release
  <2> QED
    BY <1>9, <2>2 DEF Release, pubVars, chanVars
<1>10. ASSUME NEW p \in Publishers, NEW t \in Topics, Publish(p, t)
       PROVE  TypeOK' /\ Published'
  BY <1>10 DEF Publish, streamVars, chanVars
<1>11. ASSUME NEW p \in Publishers, DeliverLock(p) PROVE TypeOK' /\ Published'
  BY <1>11 DEF DeliverLock, streamVars, chanVars
<1>12. ASSUME NEW p \in Publishers, Check(p) PROVE TypeOK' /\ Published'
  <2>1. TypeOK'
    BY <1>12 DEF Check, EndDelivery, streamVars, chanVars
  <2>2. Published'
    BY <1>12 DEF Check, EndDelivery
  <2> QED
    BY <2>1, <2>2
<1>13. ASSUME NEW p \in Publishers, Send(p) PROVE TypeOK' /\ Published'
  <2> DEFINE s == target[p]
             m == <<p, sent[p]>>
  <2>1. s \in Streams /\ m \in Message
    BY <1>13 DEF Send, IndInv, PublisherHolds, Message
  <2>2. /\ Append(ch[s], m) \in Seq(Message)
        /\ Len(Append(ch[s], m)) = Len(ch[s]) + 1 /\ Len(ch[s]) \in Nat
    BY <2>1, AppendProperties, LenProperties
  <2>3. ASSUME Len(ch[s]) < Buffer
        PROVE  /\ ch' \in [Streams -> Seq(Message)]
               /\ \A z \in Streams : Len(ch'[z]) <= Buffer
               /\ dropped' \in [Streams -> SUBSET Message]
    <3>1. ch' = [ch EXCEPT ![s] = Append(ch[s], m)] /\ dropped' = dropped
      BY <1>13, <2>2, <2>3 DEF Send
    <3>2. ch' \in [Streams -> Seq(Message)]
      BY <2>1, <2>2, <3>1
    <3>3. ASSUME NEW z \in Streams PROVE Len(ch'[z]) <= Buffer
      <4>1. CASE z = s
        BY <2>1, <2>2, <2>3, <3>1, <4>1
      <4>2. CASE z # s
        BY <2>1, <3>1, <4>2
      <4> QED
        BY <4>1, <4>2
    <3> QED
      BY <3>1, <3>2, <3>3
  <2>4. ASSUME Len(ch[s]) >= Buffer
        PROVE  /\ ch' \in [Streams -> Seq(Message)]
               /\ \A z \in Streams : Len(ch'[z]) <= Buffer
               /\ dropped' \in [Streams -> SUBSET Message]
    <3>1. ch' = ch /\ dropped' = [dropped EXCEPT ![s] = @ \cup {m}]
      BY <1>13, <2>2, <2>4 DEF Send
    <3>2. dropped[s] \cup {m} \in SUBSET Message
      BY <2>1
    <3> QED
      BY <2>1, <3>1, <3>2
  <2>5. /\ ch' \in [Streams -> Seq(Message)]
        /\ \A z \in Streams : Len(ch'[z]) <= Buffer
        /\ dropped' \in [Streams -> SUBSET Message]
    BY <2>2, <2>3, <2>4
  <2>7. Published'
    BY <1>13 DEF Send, EndDelivery
  <2> QED
    BY <1>13, <2>5, <2>7 DEF Send, EndDelivery, streamVars
<1>14. ASSUME UNCHANGED vars PROVE TypeOK' /\ Published'
  BY <1>14 DEF vars, streamVars, pubVars, chanVars
<1> QED
  BY <1>1, <1>2, <1>3, <1>4, <1>5, <1>6, <1>7, <1>8, <1>9, <1>10, <1>11, <1>12,
     <1>13, <1>14 DEF Next, StreamStep, PublisherStep, Quiescent

LEMMA TypesAndHistory == Spec => [](TypeOK /\ Published)
  BY InitTypes, NextTypes, Inductive, PTL DEF Spec

(* Every variable keeps its type, and a channel holds no more than its      *)
(* buffer, for every instance (signalSubscriberBufferSize in                *)
(* signal_broker.go).                                                       *)
THEOREM TypeCorrect == Spec => []TypeOK
  BY TypesAndHistory, PTL

-----------------------------------------------------------------------------
(* Nothing is lost *)

Holds(q, m) == \E i \in DOMAIN q : q[i] = m

(* The stream s has written the message m to its client or will read it. *)
Has(s, m) == Holds(got[s] \o ch[s], m)

(* A subscriber that a publisher found is still to be served, is being      *)
(* served, has left, or has lost the message to a full channel, or has it.  *)
Served ==
  \A p \in Publishers : \A s \in audience[p] :
    \/ pc[s] # "open"
    \/ s \in todo[p]
    \/ target[p] = s
    \/ <<p, sent[p]>> \in dropped[s]
    \/ Has(s, <<p, sent[p]>>)

(* A publisher finds streams that have opened, ... *)
AudienceOpened ==
  \A p \in Publishers : \A s \in audience[p] : pc[s] \notin {"new", "acquired"}

(* ... and a subscriber is marked closed after it left its topic. *)
ClosedAfterLeaving ==
  \A s \in Streams : closed[s] => pc[s] \in {"marked", "release", "done"}

DeliveryInv == Served /\ AudienceOpened /\ ClosedAfterLeaving

(* What a stream reads, it moves from its channel to its client. *)
LEMMA ReceiveKeeps ==
  ASSUME NEW g \in Seq(Message), NEW c \in Seq(Message), c # << >>
  PROVE  Append(g, Head(c)) \o Tail(c) = g \o c
<1>1. Head(c) \in Message /\ Tail(c) \in Seq(Message) /\ Head(c) = c[1]
  BY HeadTailProperties
<1>2. <<Head(c)>> \in Seq(Message)
  BY <1>1
<1>3. Append(g, Head(c)) = g \o <<Head(c)>>
  BY <1>1, AppendIsConcat
<1>4. (g \o <<Head(c)>>) \o Tail(c) = g \o (<<Head(c)>> \o Tail(c))
  BY <1>1, <1>2, ConcatAssociative
<1>5. <<Head(c)>> \o Tail(c) = c
  <2>1. Len(c) \in Nat \ {0} /\ Len(Tail(c)) = Len(c) - 1
    BY EmptySeq, HeadTailProperties
  <2>2. \A i \in 1..Len(Tail(c)) : Tail(c)[i] = c[i + 1]
    BY HeadTailProperties
  <2>3. /\ <<Head(c)>> \o Tail(c) \in Seq(Message)
        /\ Len(<<Head(c)>> \o Tail(c)) = Len(c)
    BY <1>1, <1>2, <2>1, ConcatProperties
  <2>4. ASSUME NEW i \in 1..Len(c) PROVE (<<Head(c)>> \o Tail(c))[i] = c[i]
    BY <1>1, <1>2, <2>1, <2>2, ConcatProperties
  <2> QED
    BY <2>3, <2>4, SeqEqual
<1> QED
  BY <1>3, <1>4, <1>5

(* A message put into a channel is there, with all that was. *)
LEMMA SendAdds ==
  ASSUME NEW g \in Seq(Message), NEW c \in Seq(Message), NEW m \in Message
  PROVE  /\ Holds(g \o Append(c, m), m)
         /\ \A n : Holds(g \o c, n) => Holds(g \o Append(c, m), n)
<1> DEFINE q == g \o Append(c, m)
           r == g \o c
<1>1. Append(c, m) \in Seq(Message) /\ Append(c, m) = c \o <<m>> /\ <<m>> \in Seq(Message)
  BY AppendProperties, AppendIsConcat
<1>2. r \in Seq(Message)
  BY ConcatProperties
<1>3. q = r \o <<m>>
  BY <1>1, ConcatAssociative
<1>4. q = Append(r, m)
  BY <1>2, <1>3, AppendIsConcat
<1>5. /\ Len(r) \in Nat /\ DOMAIN r = 1..Len(r)
      /\ DOMAIN q = 1..(Len(r) + 1) /\ q[Len(r) + 1] = m
      /\ \A i \in 1..Len(r) : q[i] = r[i]
  BY <1>2, <1>4, AppendProperties, LenProperties
<1> HIDE DEF q, r
<1>6. Holds(q, m) /\ \A n : Holds(r, n) => Holds(q, n)
  BY <1>5 DEF Holds
<1> QED
  BY <1>6 DEF q, r

LEMMA InitDelivery == Init => DeliveryInv
  BY DEF Init, DeliveryInv, Served, AudienceOpened, ClosedAfterLeaving

(* A step that leaves the messages and the publishers alone, and opens no   *)
(* stream that was open before.                                             *)
LEMMA ServedFrame ==
  ASSUME Served, UNCHANGED <<pubVars, got, ch, dropped>>,
         \A p \in Publishers : \A s \in audience[p] : pc'[s] = "open" => pc[s] = "open"
  PROVE  Served'
  BY DEF Served, Has, pubVars

LEMMA NextDelivery == IndInv /\ TypeOK /\ Published /\ DeliveryInv /\ [Next]_vars => DeliveryInv'
<1> SUFFICES ASSUME IndInv, TypeOK, Published, DeliveryInv, [Next]_vars PROVE DeliveryInv'
  OBVIOUS
<1>t. /\ subs \in [Topics -> SUBSET Streams] /\ pc \in [Streams -> Labels]
      /\ closed \in [Streams -> BOOLEAN]
      /\ got \in [Streams -> Seq(Message)] /\ ch \in [Streams -> Seq(Message)]
      /\ dropped \in [Streams -> SUBSET Message]
      /\ todo \in [Publishers -> SUBSET Streams] /\ audience \in [Publishers -> SUBSET Streams]
      /\ target \in [Publishers -> Streams \cup {None}] /\ ready \in [Publishers -> BOOLEAN]
      /\ sent \in [Publishers -> 0..MaxMessages]
  BY DEF TypeOK
<1> USE DEF DeliveryInv, AudienceOpened, ClosedAfterLeaving
<1>1. ASSUME NEW s \in Streams, StreamStep(s) \/ Unsubscribe(s) PROVE DeliveryInv'
  <2>1. UNCHANGED <<pubVars, got, ch, dropped>>
    BY <1>1 DEF StreamStep, Acquire, Deny, Subscribe, CloseLock, MarkClosed,
                CloseChannel, Release, Unsubscribe, chanVars
  <2>2. UNCHANGED audience
    BY <2>1 DEF pubVars
  <2>3. \E label \in Labels :
          /\ Goto(s, label)
          /\ label = "open" => pc[s] = "acquired"
          /\ label = "acquired" => pc[s] = "new"
          /\ label # "new"
          /\ pc[s] \in {"marked", "release", "done"} => label \in {"release", "done"}
          /\ \/ UNCHANGED closed
             \/ closed' = [closed EXCEPT ![s] = TRUE] /\ label = "marked"
    BY <1>1 DEF StreamStep, Acquire, Deny, Subscribe, CloseLock, MarkClosed,
                CloseChannel, Release, Unsubscribe, chanVars, Labels
  <2>4. PICK label \in Labels :
          /\ Goto(s, label)
          /\ label = "open" => pc[s] = "acquired"
          /\ label = "acquired" => pc[s] = "new"
          /\ label # "new"
          /\ pc[s] \in {"marked", "release", "done"} => label \in {"release", "done"}
          /\ \/ UNCHANGED closed
             \/ closed' = [closed EXCEPT ![s] = TRUE] /\ label = "marked"
    BY <2>3
  <2>5. Served'
    BY <1>t, <2>1, <2>4, ServedFrame DEF Goto
  <2>6. AudienceOpened'
    BY <1>t, <2>2, <2>4 DEF Goto
  <2>7. ClosedAfterLeaving'
    BY <1>t, <2>4 DEF Goto
  <2> QED
    BY <2>5, <2>6, <2>7
<1>2. ASSUME NEW s \in Streams, Receive(s) PROVE DeliveryInv'
  <2>1. got'[s] \o ch'[s] = got[s] \o ch[s]
    <3>1. got'[s] = Append(got[s], Head(ch[s])) /\ ch'[s] = Tail(ch[s]) /\ ch[s] # << >>
      BY <1>2, <1>t DEF Receive
    <3>2. got[s] \in Seq(Message) /\ ch[s] \in Seq(Message)
      BY <1>t
    <3> QED
      BY <3>1, <3>2, ReceiveKeeps
  <2>2. \A z \in Streams : got'[z] \o ch'[z] = got[z] \o ch[z]
    <3>1. ASSUME NEW z \in Streams, z # s PROVE got'[z] = got[z] /\ ch'[z] = ch[z]
      BY <1>2, <1>t, <3>1 DEF Receive
    <3> QED
      BY <2>1, <3>1
  <2>3. UNCHANGED <<pc, closed, dropped, todo, target, sent, audience>>
    BY <1>2 DEF Receive, pubVars
  <2>4. \A z \in Streams : \A m : Has(z, m) => Has(z, m)'
    BY <2>2 DEF Has
  <2>5. Served'
    BY <1>t, <2>3, <2>4 DEF Served
  <2> QED
    BY <2>3, <2>5
<1>3. ASSUME NEW p \in Publishers, NEW t \in Topics, Publish(p, t) PROVE DeliveryInv'
  <2>1. /\ todo' = [todo EXCEPT ![p] = subs[t]] /\ audience' = [audience EXCEPT ![p] = subs[t]]
        /\ sent' = [sent EXCEPT ![p] = @ + 1]
        /\ UNCHANGED <<pc, closed, got, ch, dropped, target>>
    BY <1>3 DEF Publish, streamVars, chanVars
  <2>2. \A s \in subs[t] : pc[s] = "open"
    BY DEF IndInv, NoLeakedSubscriber
  <2>3. AudienceOpened'
    BY <1>t, <2>1, <2>2
  <2>4. \A z, m : Has(z, m) => Has(z, m)'
    BY <2>1 DEF Has
  <2>5. Served'
    BY <1>t, <2>1, <2>4 DEF Served
  <2> QED
    BY <2>1, <2>3, <2>5
<1>4. ASSUME NEW p \in Publishers, DeliverLock(p) PROVE DeliveryInv'
  <2>1. PICK s \in todo[p] : /\ target' = [target EXCEPT ![p] = s]
                             /\ todo' = [todo EXCEPT ![p] = @ \ {s}]
    BY <1>4 DEF DeliverLock
  <2>2. UNCHANGED <<pc, closed, got, ch, dropped, sent, audience>> /\ target[p] = None
    BY <1>4 DEF DeliverLock, streamVars, chanVars
  <2>3. \A z, m : Has(z, m) => Has(z, m)'
    BY <2>2 DEF Has
  <2>4. Served'
    BY <1>t, <2>1, <2>2, <2>3 DEF Served
  <2> QED
    BY <2>2, <2>4
<1>5. ASSUME NEW p \in Publishers, Check(p) PROVE DeliveryInv'
  <2>1. UNCHANGED <<pc, closed, got, ch, dropped, todo, sent, audience>>
    BY <1>5 DEF Check, streamVars, chanVars
  <2>2. \/ target' = target
        \/ target' = [target EXCEPT ![p] = None] /\ target[p] # None /\ closed[target[p]]
    BY <1>5 DEF Check, EndDelivery
  <2>3. \A z, m : Has(z, m) => Has(z, m)'
    BY <2>1 DEF Has
  <2>4. Served'
    <3> SUFFICES ASSUME NEW q \in Publishers, NEW z \in audience[q], NEW m,
                        m = <<q, sent[q]>>
                 PROVE  \/ pc[z] # "open"
                        \/ z \in todo[q]
                        \/ target'[q] = z
                        \/ m \in dropped[z]
                        \/ Has(z, m)'
      BY <2>1 DEF Served
    <3>1. z \in Streams
      BY <1>t
    <3>2. \/ pc[z] # "open"
          \/ z \in todo[q]
          \/ target[q] = z
          \/ m \in dropped[z]
          \/ Has(z, m)'
      BY <2>3 DEF Served
    <3>3. CASE target'[q] = target[q]
      BY <3>2, <3>3
    <3>4. CASE target'[q] # target[q]
      <4>1. closed[target[q]]
        BY <1>t, <2>2, <3>4
      <4>2. CASE target[q] = z
        BY <3>1, <4>1, <4>2
      <4>3. CASE target[q] # z
        BY <3>2, <4>3
      <4> QED
        BY <4>2, <4>3
    <3> QED
      BY <3>3, <3>4
  <2> QED
    BY <2>1, <2>4
<1>6. ASSUME NEW p \in Publishers, Send(p) PROVE DeliveryInv'
  <2>1. /\ UNCHANGED <<pc, closed, got, todo, sent, audience>>
        /\ target' = [target EXCEPT ![p] = None]
        /\ ready[p]
    BY <1>6 DEF Send, EndDelivery, streamVars
  <2>2. target[p] \in Streams /\ <<p, sent[p]>> \in Message
    BY <1>t, <2>1 DEF IndInv, PublisherHolds, Published, Idle, Message
  <2>s. PICK s \in Streams, m \in Message : s = target[p] /\ m = <<p, sent[p]>>
    BY <2>2
  <2>3. \/ ch' = [ch EXCEPT ![s] = Append(@, m)] /\ dropped' = dropped
        \/ ch' = ch /\ dropped' = [dropped EXCEPT ![s] = @ \cup {m}]
    BY <1>6, <2>s DEF Send
  <2>4. \A z \in Streams : \A n : Has(z, n) => Has(z, n)'
    <3>1. CASE ch' = ch
      BY <2>1, <3>1 DEF Has
    <3>2. CASE ch' = [ch EXCEPT ![s] = Append(@, m)]
      <4>1. ASSUME NEW n, Has(s, n) PROVE Has(s, n)'
        <5>1. ch'[s] = Append(ch[s], m) /\ got'[s] = got[s]
          BY <1>t, <2>1, <2>2, <3>2
        <5>2. ch[s] \in Seq(Message) /\ got[s] \in Seq(Message)
          BY <1>t, <2>2
        <5> QED
          BY <4>1, <5>1, <5>2, SendAdds DEF Has
      <4>2. ASSUME NEW z \in Streams, z # s, NEW n, Has(z, n) PROVE Has(z, n)'
        <5>1. ch'[z] = ch[z] /\ got'[z] = got[z]
          BY <1>t, <2>1, <2>2, <3>2, <4>2
        <5> QED
          BY <4>2, <5>1 DEF Has
      <4> QED
        BY <4>1, <4>2
    <3> QED
      BY <2>3, <3>1, <3>2
  <2>5. m \in dropped'[s] \/ Has(s, m)'
    <3>1. CASE ch' = [ch EXCEPT ![s] = Append(@, m)]
      <4>1. ch'[s] = Append(ch[s], m) /\ got'[s] = got[s]
        BY <1>t, <2>1, <2>2, <3>1
      <4>2. ch[s] \in Seq(Message) /\ got[s] \in Seq(Message)
        BY <1>t, <2>2
      <4> QED
        BY <4>1, <4>2, SendAdds DEF Has
    <3>2. CASE dropped' = [dropped EXCEPT ![s] = @ \cup {m}]
      BY <1>t, <2>2, <3>2
    <3> QED
      BY <2>3, <3>1, <3>2
  <2>6. ASSUME NEW z \in Streams PROVE dropped[z] \subseteq dropped'[z]
    <3>1. dropped' = dropped \/ dropped' = [dropped EXCEPT ![s] = @ \cup {m}]
      BY <2>3
    <3>2. dropped'[z] = dropped[z] \/ dropped'[z] = dropped[z] \cup {m}
      BY <1>t, <3>1
    <3> QED
      BY <3>2
  <2>7. Served'
    <3> SUFFICES ASSUME NEW q \in Publishers, NEW z \in audience[q]
                 PROVE  \/ pc[z] # "open"
                        \/ z \in todo[q]
                        \/ target'[q] = z
                        \/ <<q, sent[q]>> \in dropped'[z]
                        \/ Has(z, <<q, sent[q]>>)'
      BY <2>1 DEF Served
    <3>1. z \in Streams
      BY <1>t
    <3>2. \/ pc[z] # "open"
          \/ z \in todo[q]
          \/ target[q] = z
          \/ <<q, sent[q]>> \in dropped[z]
          \/ Has(z, <<q, sent[q]>>)
      BY DEF Served
    <3>3. CASE target[q] # z
      BY <1>t, <2>1, <2>2, <2>4, <2>6, <2>s, <3>1, <3>2, <3>3
    <3>4. CASE target[q] = z /\ q # p
      BY <1>t, <2>1, <3>4
    <3>5. CASE target[q] = z /\ q = p
      BY <2>1, <2>5, <2>s, <3>5
    <3> QED
      BY <3>3, <3>4, <3>5
  <2> QED
    BY <2>1, <2>7
<1>7. ASSUME UNCHANGED vars PROVE DeliveryInv'
  BY <1>7 DEF vars, streamVars, pubVars, chanVars, Served, Has
<1> QED
  BY <1>1, <1>2, <1>3, <1>4, <1>5, <1>6, <1>7 DEF Next, PublisherStep, Quiescent

LEMMA Delivery == Spec => []DeliveryInv
  BY InitDelivery, NextDelivery, Inductive, TypesAndHistory, PTL DEF Spec

(* A stream that was subscribed when a message was published, and still is  *)
(* when the publisher is through, has the message or lost it to a full      *)
(* channel, however its deliveries race with streams that open, read and    *)
(* leave (Publish and deliver in signal_broker.go).                         *)
THEOREM NothingElseLoses == Spec => []NothingLost
<1>1. DeliveryInv /\ TypeOK => NothingLost
  <2> SUFFICES ASSUME DeliveryInv, TypeOK, NEW p \in Publishers, NEW s \in Streams,
                      Idle(p), s \in audience[p], pc[s] = "open"
               PROVE  <<p, sent[p]>> \in dropped[s] \/ Has(s, <<p, sent[p]>>)
    BY DEF NothingLost, Has, Holds
  <2> QED
    BY DEF DeliveryInv, Served, Idle
<1> QED
  BY <1>1, Delivery, TypesAndHistory, PTL

=============================================================================
