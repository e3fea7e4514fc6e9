----------------------------- MODULE VoiceInvites -----------------------------
(***************************************************************************)
(* Invitations to voice rooms (server/voice_invite_service.go): a post in   *)
(* the direct channel of inviter and invited user carries the invitation    *)
(* and its status, and the invited user answers it.  A request holds        *)
(* voiceDomainMu of its node from beginning to end, but the steps inside    *)
(* are separate calls to the key-value store and the post store: on another *)
(* node, and with the clock, anything can happen between them.              *)
(*                                                                         *)
(* The domain is changed by its own handlers in one step, under the same    *)
(* mutex (VoiceDomainStore shows their loop to amount to that).             *)
(***************************************************************************)
EXTENDS VoiceDomain, Sequences

CONSTANTS
  Nodes,
  Procs,       \* goroutines that serve invitation requests
  NodeOf,      \* the node of a goroutine
  Free,        \* holder of a free mutex
  InviteTTL,   \* voiceInviteTTLMillis, in ticks of the clock
  MaxInvites,  \* bound on the invitations ever made
  MaxGen,      \* bound on the rooms ever made
  MaxClock     \* bound on the clock

ASSUME InviteAssumption ==
  /\ Users # {}
  /\ NodeOf \in [Procs -> Nodes]
  /\ Free \notin Procs
  /\ InviteTTL \in Nat \ {0}
  /\ MaxInvites \in Nat /\ MaxGen \in Nat /\ MaxClock \in Nat

VARIABLES
  domain,   \* rooms and presence
  clock,
  nextGen,  \* the next room generation
  posts,    \* the invitation posts, in the order of their creation
  mu,       \* holder of a node's voiceDomainMu
  pc,       \* control state of a goroutine
  user,     \* whom it serves
  post,     \* the post it works on
  inv,      \* its copy of the invitation
  verdict,  \* the decision it is to record
  standing, \* history: the room of the invitation stood when it began to answer
  said      \* history: the decisions confirmed to the invited user, per post

procVars == <<pc, user, post, inv, verdict, standing>>
envVars == <<domain, clock, nextGen>>
vars == <<envVars, posts, mu, procVars, said>>

Decisions == {"accepted", "declined"}
Invite == [room : RoomIDs, gen : Nat, inviter : Users, target : Users,
           exp : Int, status : Decisions \cup {"pending"}]
NoInvite == [room |-> NoRoomID, target |-> CHOOSE u \in Users : TRUE]
InviteCopy == Invite \cup [room : RoomIDs \cup {NoRoomID}, target : Users]
NoPost == 0
Labels == {"idle", "invite", "create", "recheck", "load", "room", "valid",
           "update", "revalidate", "expire"}

Init ==
  /\ domain = [rooms |-> {}, presence |-> {}]
  /\ clock = 0
  /\ nextGen = 1
  /\ posts = << >>
  /\ mu = [n \in Nodes |-> Free]
  /\ pc = [p \in Procs |-> "idle"]
  /\ user = [p \in Procs |-> CHOOSE u \in Users : TRUE]
  /\ post = [p \in Procs |-> NoPost]
  /\ inv = [p \in Procs |-> NoInvite]
  /\ verdict = [p \in Procs |-> "accepted"]
  /\ standing = [p \in Procs |-> FALSE]
  /\ said = {}

-----------------------------------------------------------------------------
(* What a request checks. *)
Now == Pruned(domain, clock)
In(u, r) == \E e \in Now.presence : e.user = u /\ e.room = r

RoomStandsById(i) == i.room \in IdsOf(domain.rooms)  \* mutant: any room of that id

(* validateInviteRoom: the very room, not another one of its id. *)
RoomStands(i) == \E m \in domain.rooms : m.id = i.room /\ m.gen = i.gen

(* validateInviteResponse *)
StillOpen(i) == RoomStands(i) /\ In(i.inviter, i.room) /\ ~In(i.target, i.room)

Goto(p, label) == pc' = [pc EXCEPT ![p] = label]

(* The deferred unlock ends every request. *)
Finish(p) ==
  /\ Goto(p, "idle")
  /\ mu' = [mu EXCEPT ![NodeOf[p]] = Free]
  /\ inv' = [inv EXCEPT ![p] = NoInvite]
  /\ post' = [post EXCEPT ![p] = NoPost]
  /\ standing' = [standing EXCEPT ![p] = FALSE]
  /\ UNCHANGED <<user, verdict>>

NoLock(p) == UNCHANGED mu  \* mutant: the handlers do not lock

Lock(p) == mu[NodeOf[p]] = Free /\ mu' = [mu EXCEPT ![NodeOf[p]] = p]

-----------------------------------------------------------------------------
(* send *)
Send(p, inviter, target, r) ==
  /\ pc[p] = "idle"
  /\ Len(posts) < MaxInvites
  /\ inviter # target
  /\ Lock(p)
  /\ Goto(p, "invite")
  /\ user' = [user EXCEPT ![p] = inviter]
  /\ inv' = [inv EXCEPT ![p] = [room |-> r, target |-> target]]
  /\ UNCHANGED <<envVars, posts, post, verdict, standing, said>>

(* inviteRoom: the inviter must be in the room and the target must not. *)
ComposeInvite(p) ==
  LET q == inv[p]
      here == {m \in domain.rooms : m.id = q.room}
  IN  /\ pc[p] = "invite"
      /\ \/ /\ here = {} \/ ~In(user[p], q.room) \/ In(q.target, q.room)
            /\ Finish(p)
         \/ /\ In(user[p], q.room) /\ ~In(q.target, q.room)
            /\ \E m \in here :
                 inv' = [inv EXCEPT ![p] =
                           [room |-> m.id, gen |-> m.gen, inviter |-> user[p],
                            target |-> q.target, exp |-> clock + InviteTTL,
                            status |-> "pending"]]
            /\ Goto(p, "create")
            /\ UNCHANGED <<mu, user, post, verdict, standing>>
      /\ UNCHANGED <<envVars, posts, said>>

CreatePost(p) ==
  /\ pc[p] = "create"
  /\ Len(posts) < MaxInvites
  /\ posts' = Append(posts, inv[p])
  /\ post' = [post EXCEPT ![p] = Len(posts) + 1]
  /\ Goto(p, "recheck")
  /\ UNCHANGED <<envVars, mu, user, inv, verdict, standing, said>>

(* What happened meanwhile decides whether the target is told of the post,  *)
(* or the post is expired.                                                  *)
Recheck(p) ==
  /\ pc[p] = "recheck"
  /\ \/ StillOpen(inv[p]) /\ Finish(p)
     \/ /\ ~StillOpen(inv[p])
        /\ Goto(p, "expire")
        /\ UNCHANGED <<mu, user, post, inv, verdict, standing>>
  /\ UNCHANGED <<envVars, posts, said>>

-----------------------------------------------------------------------------
(* respond *)
Respond(p, i, decision) ==
  /\ pc[p] = "idle"
  /\ i \in DOMAIN posts
  /\ Lock(p)
  /\ Goto(p, "load")
  /\ user' = [user EXCEPT ![p] = posts[i].target]
  /\ post' = [post EXCEPT ![p] = i]
  /\ verdict' = [verdict EXCEPT ![p] = decision]
  /\ standing' = [standing EXCEPT ![p] = \E m \in domain.rooms : m.gen = posts[i].gen]
  /\ UNCHANGED <<envVars, posts, inv, said>>

LoadPost(p) ==
  LET i == posts[post[p]] IN
  /\ pc[p] = "load"
  /\ \/ i.exp <= clock /\ Finish(p)
     \/ /\ i.exp > clock
        /\ inv' = [inv EXCEPT ![p] = i]
        /\ Goto(p, "room")
        /\ UNCHANGED <<mu, user, post, verdict, standing>>
  /\ UNCHANGED <<envVars, posts, said>>

Confirm(p) == said' = said \cup {<<post[p], verdict[p]>>}

CheckRoomAnswersAgain(p) ==  \* mutant: an answered invitation can be answered again
  /\ pc[p] = "room"
  /\ \/ ~RoomStands(inv[p]) /\ Finish(p)
     \/ /\ RoomStands(inv[p])
        /\ Goto(p, "valid")
        /\ UNCHANGED <<mu, user, post, inv, verdict, standing>>
  /\ UNCHANGED <<envVars, posts, said>>

(* validateInviteRoom, then the status: the same answer again is confirmed, *)
(* the other one refused.                                                   *)
CheckRoom(p) ==
  LET i == inv[p] IN
  /\ pc[p] = "room"
  /\ \/ ~RoomStands(i) /\ Finish(p) /\ UNCHANGED said
     \/ /\ RoomStands(i) /\ i.status = verdict[p]
        /\ Confirm(p) /\ Finish(p)
     \/ /\ RoomStands(i) /\ i.status \notin {"pending", verdict[p]}
        /\ Finish(p) /\ UNCHANGED said
     \/ /\ RoomStands(i) /\ i.status = "pending"
        /\ Goto(p, "valid")
        /\ UNCHANGED <<mu, user, post, inv, verdict, standing, said>>
  /\ UNCHANGED <<envVars, posts>>

CheckValid(p) ==
  /\ pc[p] = "valid"
  /\ \/ ~StillOpen(inv[p]) /\ Finish(p)
     \/ /\ StillOpen(inv[p])
        /\ inv' = [inv EXCEPT ![p].status = verdict[p]]
        /\ Goto(p, "update")
        /\ UNCHANGED <<mu, user, post, verdict, standing>>
  /\ UNCHANGED <<envVars, posts, said>>

(* The whole invitation is written back as it was read, with the answer. *)
UpdatePost(p) ==
  /\ pc[p] = "update"
  /\ posts' = [posts EXCEPT ![post[p]] = inv[p]]
  /\ Goto(p, "revalidate")
  /\ UNCHANGED <<envVars, mu, user, post, inv, verdict, standing, said>>

RevalidateAfterConfirm(p) ==  \* mutant: the answer is confirmed either way
  /\ pc[p] = "revalidate"
  /\ Confirm(p)
  /\ \/ StillOpen(inv[p]) /\ Finish(p)
     \/ /\ ~StillOpen(inv[p])
        /\ Goto(p, "expire")
        /\ UNCHANGED <<mu, user, post, inv, verdict, standing>>
  /\ UNCHANGED <<envVars, posts>>

Revalidate(p) ==
  /\ pc[p] = "revalidate"
  /\ \/ StillOpen(inv[p]) /\ Confirm(p) /\ Finish(p)
     \/ /\ ~StillOpen(inv[p])
        /\ Goto(p, "expire")
        /\ UNCHANGED <<mu, user, post, inv, verdict, standing, said>>
  /\ UNCHANGED <<envVars, posts>>

(* expireInvitePost: pending again, and expired. *)
ExpirePost(p) ==
  /\ pc[p] = "expire"
  /\ posts' = [posts EXCEPT ![post[p]] =
                 [inv[p] EXCEPT !.status = "pending", !.exp = clock - 1]]
  /\ Finish(p)
  /\ UNCHANGED <<envVars, said>>

(* A lookup, the key-value store or the post store fails: the request ends  *)
(* with an error and leaves everything as it is.                            *)
Fail(p) ==
  /\ pc[p] # "idle"
  /\ Finish(p)
  /\ UNCHANGED <<envVars, posts, said>>

-----------------------------------------------------------------------------
(* The other handlers, on any node whose mutex is free. *)
Mutate(q) ==
  /\ \E n \in Nodes : mu[n] = Free
  /\ ~Refused(Now, q)
  /\ domain' = Apply(Now, q, clock, nextGen)
  /\ nextGen' = IF q.kind = "create" THEN nextGen + 1 ELSE nextGen
  /\ nextGen' <= MaxGen + 1
  /\ UNCHANGED <<clock, posts, mu, procVars, said>>

Tick ==
  /\ clock < MaxClock
  /\ clock' = clock + 1
  /\ UNCHANGED <<domain, nextGen, posts, mu, procVars, said>>

Idle == pc = [p \in Procs |-> "idle"] /\ UNCHANGED vars

Step(p) ==
  \/ ComposeInvite(p) \/ CreatePost(p) \/ Recheck(p)
  \/ LoadPost(p) \/ CheckRoom(p) \/ CheckValid(p) \/ UpdatePost(p) \/ Revalidate(p)
  \/ ExpirePost(p)

Next ==
  \/ \E p \in Procs :
       \/ Step(p)
       \/ Fail(p)
       \/ \E u, v \in Users, r \in RoomIDs : Send(p, u, v, r)
       \/ \E i \in 1..MaxInvites, d \in Decisions : Respond(p, i, d)
  \/ \E u \in Admins, r \in RoomIDs : Mutate([kind |-> "create", user |-> u, room |-> r])
  \/ \E u \in Users, r \in RoomIDs : Mutate([kind |-> "delete", user |-> u, room |-> r])
  \/ \E u \in Users, r \in RoomIDs \cup {NoRoomID} :
       Mutate([kind |-> "presence", user |-> u, room |-> r, audio |-> TRUE])
  \/ Tick
  \/ Idle

Spec == Init /\ [][Next]_vars

-----------------------------------------------------------------------------
TypeOK ==
  /\ domain \in Domain
  /\ clock \in Nat /\ nextGen \in Nat
  /\ posts \in Seq(Invite)
  /\ mu \in [Nodes -> Procs \cup {Free}]
  /\ pc \in [Procs -> Labels]
  /\ user \in [Procs -> Users]
  /\ post \in [Procs -> 0..Len(posts)]
  /\ verdict \in [Procs -> Decisions]
  /\ standing \in [Procs -> BOOLEAN]
  /\ inv \in [Procs -> InviteCopy]
  /\ said \subseteq ((DOMAIN posts) \X Decisions)

(* A decision that was confirmed to the invited user stays the status of    *)
(* the invitation: it is never overwritten, expired or contradicted.        *)
AnswerRecorded == \A x \in said : posts[x[1]].status = x[2]

(* An expiry is never put off to a time yet to come: an invitation that is  *)
(* dead stays dead, and no late writer revives it.                          *)
ExpiryFinal ==
  [][\A i \in DOMAIN posts : posts'[i].exp <= posts[i].exp \/ posts'[i].exp < clock]_vars

(* An answer to an invitation to a deleted room is not confirmed, even if   *)
(* a room of the same id has been created since.                            *)
NoAnswerForDeadRoom ==
  [][\A p \in Procs : said' # said /\ pc[p] # pc'[p] => standing[p]]_vars
=============================================================================
