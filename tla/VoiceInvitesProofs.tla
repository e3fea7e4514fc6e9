-------------------------- MODULE VoiceInvitesProofs --------------------------
(***************************************************************************)
(* What the mutex of one node gives the invitations: a decision that was    *)
(* confirmed stays recorded, and no expiry is put off.  The run             *)
(* invites_contradicted shows that the assumption of a single node cannot   *)
(* be dropped for the first.  The types, and that only an invitation to a   *)
(* room that stands is answered, need no mutex: they rest on the generation *)
(* of a post, which no writer changes.                                      *)
(***************************************************************************)
EXTENDS VoiceInvites, SequenceTheorems, TLAPS

OneMutex == \A p, q \in Procs : NodeOf[p] = NodeOf[q]

WithPost == {"recheck", "load", "room", "valid", "update", "revalidate", "expire"}
WithInvite == {"create", "recheck", "room", "valid", "update", "revalidate", "expire"}

Typed ==
  /\ domain \in Domain
  /\ clock \in Nat /\ nextGen \in Nat
  /\ posts \in Seq(Invite)
  /\ mu = [n \in Nodes |-> mu[n]]
  /\ pc \in [Procs -> Labels]
  /\ user = [p \in Procs |-> user[p]]
  /\ post = [p \in Procs |-> post[p]]
  /\ inv = [p \in Procs |-> inv[p]]
  /\ verdict \in [Procs -> Decisions]
  /\ said \subseteq ((DOMAIN posts) \X Decisions)

Exclusion == \A p \in Procs : pc[p] # "idle" => mu[NodeOf[p]] = p

(* What a goroutine knows at each place: nobody else has touched its post,  *)
(* and an answer it is still working on has not been confirmed.             *)
Stage(p) ==
  /\ pc[p] = "invite" => user[p] \in Users /\ inv[p].target \in Users
  /\ pc[p] \in WithPost => post[p] \in DOMAIN posts
  /\ pc[p] \in WithInvite => inv[p] \in Invite
  /\ pc[p] = "room" => inv[p] = posts[post[p]]
  /\ pc[p] \in {"recheck", "valid", "update"} => posts[post[p]].status = "pending"
  /\ pc[p] = "create" => inv[p].status = "pending"
  /\ pc[p] = "update" => inv[p].status = verdict[p]
  /\ pc[p] = "revalidate" => posts[post[p]].status = verdict[p]
  /\ pc[p] \in {"revalidate", "expire"} => \A x \in said : x[1] # post[p]

IInv == Typed /\ Exclusion /\ AnswerRecorded /\ \A p \in Procs : Stage(p)

-----------------------------------------------------------------------------
(* Pruning keeps a domain a domain (prunePresence). *)
LEMMA PrunedTyped ==
  ASSUME NEW d \in Domain, NEW now
  PROVE  Pruned(d, now) \in Domain
BY DEF Pruned, PrunePresence, Domain

(* So does every mutation of the service. That its presence stays sound,    *)
(* too, is a theorem about the store; nothing here rests on it.             *)
LEMMA ApplyTyped ==
  ASSUME NEW d \in Domain, NEW q \in Mutation, NEW now \in Nat, NEW g \in Nat
  PROVE  Apply(d, q, now, g) \in Domain
<1>1. CASE q \in CreateRequest
  <2>1. Apply(d, q, now, g) = CreateRoom(d, q, g)
    BY <1>1 DEF Apply, CreateRequest
  <2>2. [id |-> q.room, creator |-> q.user, gen |-> g] \in Room
    BY <1>1, DomainAssumption DEF CreateRequest, Room
  <2> QED
    BY <2>1, <2>2 DEF CreateRoom, Domain
<1>2. CASE q \in DeleteRequest
  <2>1. Apply(d, q, now, g) = DeleteRoom(d, q)
    BY <1>2 DEF Apply, DeleteRequest
  <2> QED
    BY <2>1 DEF DeleteRoom, Domain
<1>3. CASE q \in PresenceRequest
  <2>1. Apply(d, q, now, g) = SetPresence(d, q, now)
    BY <1>3 DEF Apply, PresenceRequest
  <2>2. q.room # NoRoomID =>
          [room |-> q.room, user |-> q.user, exp |-> now + TTL, audio |-> q.audio] \in Entry
    BY <1>3, DomainAssumption DEF PresenceRequest, Entry
  <2> QED
    BY <2>1, <2>2 DEF SetPresence, Domain
<1> QED
  BY <1>1, <1>2, <1>3 DEF Mutation

LEMMA Alone ==
  ASSUME OneMutex, Exclusion, NEW p \in Procs,
         pc[p] # "idle" \/ mu[NodeOf[p]] = Free
  PROVE  \A q \in Procs \ {p} : pc[q] = "idle"
BY InviteAssumption DEF OneMutex, Exclusion

LEMMA PendingUnsaid ==
  ASSUME Typed, AnswerRecorded, NEW i \in DOMAIN posts, posts[i].status = "pending"
  PROVE  \A x \in said : x[1] # i
BY DEF Typed, AnswerRecorded, Decisions

LEMMA InvitesBegin == Init => IInv
<1> SUFFICES ASSUME Init PROVE IInv
  OBVIOUS
<1>1. domain \in Domain
  BY DEF Init, Domain
<1>2. posts \in Seq(Invite) /\ said = {}
  BY DEF Init
<1>3. Typed
  BY <1>1, <1>2 DEF Init, Typed, Labels, Decisions
<1> QED
  BY <1>2, <1>3 DEF Init, IInv, Exclusion, AnswerRecorded, Stage, WithPost, WithInvite

-----------------------------------------------------------------------------
(* A request that ends leaves every goroutine of the node at rest. *)
LEMMA FinishRests ==
  ASSUME OneMutex, IInv, NEW p \in Procs, pc[p] # "idle", Finish(p)
  PROVE  /\ \A q \in Procs : pc'[q] = "idle"
         /\ Exclusion' /\ \A q \in Procs : Stage(q)'
         /\ pc' \in [Procs -> Labels] /\ mu' = [n \in Nodes |-> mu'[n]]
         /\ user' = [q \in Procs |-> user'[q]] /\ post' = [q \in Procs |-> post'[q]]
         /\ inv' = [q \in Procs |-> inv'[q]] /\ verdict' \in [Procs -> Decisions]
<1>1. \A q \in Procs \ {p} : pc[q] = "idle"
  BY Alone DEF IInv
<1>2. pc \in [Procs -> Labels]
  BY DEF IInv, Typed
<1>3. pc' \in [Procs -> Labels] /\ \A q \in Procs : pc'[q] = "idle"
  BY <1>1, <1>2 DEF Finish, Goto, Labels
<1>4. Exclusion' /\ \A q \in Procs : Stage(q)'
  BY <1>3 DEF Exclusion, Stage, WithPost, WithInvite
<1> QED
  BY <1>3, <1>4 DEF Finish, IInv, Typed

(* A step inside a request concerns the goroutine that takes it. *)
LEMMA StepConcernsOne ==
  ASSUME OneMutex, IInv, NEW p \in Procs, pc[p] # "idle", NEW l \in Labels,
         Goto(p, l), UNCHANGED mu, Stage(p)'
  PROVE  pc' \in [Procs -> Labels] /\ Exclusion' /\ \A q \in Procs : Stage(q)'
<1>1. \A q \in Procs \ {p} : pc[q] = "idle"
  BY Alone DEF IInv
<1>2. pc \in [Procs -> Labels] /\ mu[NodeOf[p]] = p
  BY DEF IInv, Typed, Exclusion
<1>3. pc' \in [Procs -> Labels] /\ \A q \in Procs \ {p} : pc'[q] = "idle"
  BY <1>1, <1>2 DEF Goto
<1>4. \A q \in Procs \ {p} : Stage(q)'
  BY <1>3 DEF Stage, WithPost, WithInvite
<1> QED
  BY <1>2, <1>3, <1>4 DEF Exclusion

(* So does the first one. *)
LEMMA BeginConcernsOne ==
  ASSUME OneMutex, IInv, NEW p \in Procs, Lock(p), NEW l \in Labels,
         Goto(p, l), Stage(p)'
  PROVE  /\ pc' \in [Procs -> Labels] /\ mu' = [n \in Nodes |-> mu'[n]]
         /\ Exclusion' /\ \A q \in Procs : Stage(q)'
<1>1. \A q \in Procs \ {p} : pc[q] = "idle"
  BY Alone DEF IInv, Lock
<1>2. pc \in [Procs -> Labels] /\ mu = [n \in Nodes |-> mu[n]] /\ NodeOf[p] \in Nodes
  BY InviteAssumption DEF IInv, Typed
<1>3. pc' \in [Procs -> Labels] /\ \A q \in Procs \ {p} : pc'[q] = "idle"
  BY <1>1, <1>2 DEF Goto
<1>4. mu' = [n \in Nodes |-> mu'[n]] /\ mu'[NodeOf[p]] = p
  BY <1>2 DEF Lock
<1>5. \A q \in Procs \ {p} : Stage(q)'
  BY <1>3 DEF Stage, WithPost, WithInvite
<1> QED
  BY <1>3, <1>4, <1>5 DEF Exclusion

-----------------------------------------------------------------------------
LEMMA SendKeeps ==
  ASSUME OneMutex, IInv, NEW p \in Procs, NEW u \in Users, NEW v \in Users,
         NEW r \in RoomIDs, Send(p, u, v, r)
  PROVE  IInv'
<1>1. Stage(p)'
  BY DEF Send, Goto, Stage, WithPost, WithInvite, IInv, Typed
<1>2. pc' \in [Procs -> Labels] /\ mu' = [n \in Nodes |-> mu'[n]]
      /\ Exclusion' /\ \A q \in Procs : Stage(q)'
  BY <1>1, BeginConcernsOne DEF Send, Labels
<1>3. Typed' /\ AnswerRecorded'
  BY <1>2 DEF Send, IInv, Typed, AnswerRecorded, envVars
<1> QED
  BY <1>2, <1>3 DEF IInv

LEMMA ComposeInviteKeeps ==
  ASSUME OneMutex, IInv, NEW p \in Procs, ComposeInvite(p)
  PROVE  IInv'
<1>1. pc[p] = "invite" /\ UNCHANGED <<envVars, posts, said>>
  BY DEF ComposeInvite
<1>2. CASE Finish(p)
  <2>1. Typed' /\ AnswerRecorded'
    BY <1>1, <1>2, FinishRests DEF IInv, Typed, AnswerRecorded, envVars
  <2> QED
    BY <1>1, <1>2, <2>1, FinishRests DEF IInv
<1>3. ASSUME NEW m \in domain.rooms,
             inv' = [inv EXCEPT ![p] =
                       [room |-> m.id, gen |-> m.gen, inviter |-> user[p],
                        target |-> inv[p].target, exp |-> clock + InviteTTL,
                        status |-> "pending"]],
             Goto(p, "create"), UNCHANGED <<mu, user, post, verdict, standing>>
      PROVE  IInv'
  <2>1. m.id \in RoomIDs /\ m.gen \in Nat /\ clock \in Nat
    BY DEF IInv, Typed, Domain, Room
  <2>2. clock + InviteTTL \in Int
    BY <2>1, InviteAssumption
  <2>3. user[p] \in Users /\ inv[p].target \in Users
    BY <1>1 DEF IInv, Stage
  <2>4. inv'[p] = [room |-> m.id, gen |-> m.gen, inviter |-> user[p],
                   target |-> inv[p].target, exp |-> clock + InviteTTL,
                   status |-> "pending"]
    BY <1>3 DEF IInv, Typed
  <2>5. inv'[p] \in Invite /\ inv'[p].status = "pending"
    BY <2>1, <2>2, <2>3, <2>4 DEF Invite
  <2>6. pc'[p] = "create"
    BY <1>3 DEF IInv, Typed, Goto
  <2>7. Stage(p)'
    BY <2>5, <2>6 DEF Stage, WithPost, WithInvite
  <2>8. pc' \in [Procs -> Labels] /\ Exclusion' /\ \A q \in Procs : Stage(q)'
    BY <1>1, <1>3, <2>7, StepConcernsOne DEF Labels
  <2>9. Typed' /\ AnswerRecorded'
    BY <1>1, <1>3, <2>8 DEF IInv, Typed, AnswerRecorded, envVars
  <2> QED
    BY <2>8, <2>9 DEF IInv
<1> QED
  BY <1>2, <1>3 DEF ComposeInvite

LEMMA CreatePostKeeps ==
  ASSUME OneMutex, IInv, NEW p \in Procs, CreatePost(p)
  PROVE  IInv'
<1>1. /\ pc[p] = "create" /\ posts \in Seq(Invite) /\ inv[p] \in Invite
      /\ inv[p].status = "pending"
  BY DEF CreatePost, IInv, Typed, Stage, WithInvite
<1>2. /\ posts' \in Seq(Invite) /\ Len(posts') = Len(posts) + 1
      /\ \A i \in DOMAIN posts : i \in DOMAIN posts' /\ posts'[i] = posts[i]
      /\ Len(posts) + 1 \in DOMAIN posts' /\ posts'[Len(posts) + 1] = inv[p]
  BY <1>1 DEF CreatePost
<1>3. pc'[p] = "recheck" /\ post'[p] = Len(posts) + 1 /\ inv' = inv
  BY DEF CreatePost, Goto, IInv, Typed
<1>4. Stage(p)'
  BY <1>1, <1>2, <1>3 DEF Stage, WithPost, WithInvite
<1>5. pc' \in [Procs -> Labels] /\ Exclusion' /\ \A q \in Procs : Stage(q)'
  BY <1>1, <1>4, StepConcernsOne DEF CreatePost, Labels
<1>6. said' \subseteq ((DOMAIN posts') \X Decisions) /\ AnswerRecorded'
  BY <1>2 DEF CreatePost, IInv, Typed, AnswerRecorded
<1>7. Typed'
  BY <1>2, <1>5, <1>6 DEF CreatePost, IInv, Typed, envVars
<1> QED
  BY <1>5, <1>6, <1>7 DEF IInv

(* A step that changes neither a post nor what was said. *)
LEMMA QuietKeeps ==
  ASSUME OneMutex, IInv, NEW p \in Procs, pc[p] # "idle",
         UNCHANGED <<envVars, posts, said>>,
         \/ Finish(p)
         \/ /\ \E l \in Labels : Goto(p, l)
            /\ UNCHANGED <<mu, user, post, verdict>>
            /\ inv' = [q \in Procs |-> inv'[q]]
            /\ Stage(p)'
  PROVE  IInv'
<1>1. CASE Finish(p)
  BY <1>1, FinishRests DEF IInv, Typed, AnswerRecorded, envVars
<1>2. CASE /\ \E l \in Labels : Goto(p, l)
           /\ UNCHANGED <<mu, user, post, verdict>>
           /\ inv' = [q \in Procs |-> inv'[q]]
           /\ Stage(p)'
  <2>1. pc' \in [Procs -> Labels] /\ Exclusion' /\ \A q \in Procs : Stage(q)'
    BY <1>2, StepConcernsOne
  <2> QED
    BY <1>2, <2>1 DEF IInv, Typed, AnswerRecorded, envVars
<1> QED
  BY <1>1, <1>2

LEMMA RecheckKeeps ==
  ASSUME OneMutex, IInv, NEW p \in Procs, Recheck(p)
  PROVE  IInv'
<1>1. pc[p] = "recheck" /\ UNCHANGED <<envVars, posts, said>>
  BY DEF Recheck
<1>2. ASSUME Goto(p, "expire"), UNCHANGED <<mu, user, post, inv, verdict, standing>>
      PROVE  Stage(p)' /\ inv' = [q \in Procs |-> inv'[q]]
  <2>1. post[p] \in DOMAIN posts /\ inv[p] \in Invite /\ posts[post[p]].status = "pending"
    BY <1>1 DEF IInv, Stage, WithPost, WithInvite
  <2>2. \A x \in said : x[1] # post[p]
    BY <2>1, PendingUnsaid DEF IInv
  <2>3. pc'[p] = "expire"
    BY <1>2 DEF Goto, IInv, Typed
  <2> QED
    BY <1>1, <1>2, <2>1, <2>2, <2>3 DEF Stage, WithPost, WithInvite, IInv, Typed
<1>3. CASE Finish(p)
  BY <1>1, <1>3, QuietKeeps
<1>4. CASE Goto(p, "expire") /\ UNCHANGED <<mu, user, post, inv, verdict, standing>>
  BY <1>1, <1>2, <1>4, QuietKeeps DEF Labels
<1> QED
  BY <1>3, <1>4 DEF Recheck

LEMMA RespondKeeps ==
  ASSUME OneMutex, IInv, NEW p \in Procs, NEW i, NEW d \in Decisions, Respond(p, i, d)
  PROVE  IInv'
<1>1. Stage(p)'
  BY DEF Respond, Goto, Stage, WithPost, WithInvite, IInv, Typed
<1>2. pc' \in [Procs -> Labels] /\ mu' = [n \in Nodes |-> mu'[n]]
      /\ Exclusion' /\ \A q \in Procs : Stage(q)'
  BY <1>1, BeginConcernsOne DEF Respond, Labels
<1>3. Typed' /\ AnswerRecorded'
  BY <1>2 DEF Respond, IInv, Typed, AnswerRecorded, envVars
<1> QED
  BY <1>2, <1>3 DEF IInv

LEMMA LoadPostKeeps ==
  ASSUME OneMutex, IInv, NEW p \in Procs, LoadPost(p)
  PROVE  IInv'
<1>1. pc[p] = "load" /\ UNCHANGED <<envVars, posts, said>>
  BY DEF LoadPost
<1>2. ASSUME inv' = [inv EXCEPT ![p] = posts[post[p]]], Goto(p, "room"),
             UNCHANGED <<mu, user, post, verdict, standing>>
      PROVE  Stage(p)' /\ inv' = [q \in Procs |-> inv'[q]]
  <2>1. post[p] \in DOMAIN posts /\ posts \in Seq(Invite)
    BY <1>1 DEF IInv, Typed, Stage, WithPost
  <2>2. posts[post[p]] \in Invite
    BY <2>1
  <2>3. pc'[p] = "room" /\ inv'[p] = posts[post[p]]
    BY <1>2 DEF Goto, IInv, Typed
  <2> QED
    BY <1>1, <1>2, <2>1, <2>2, <2>3 DEF Stage, WithPost, WithInvite, IInv, Typed
<1>3. CASE Finish(p)
  BY <1>1, <1>3, QuietKeeps
<1>4. CASE /\ inv' = [inv EXCEPT ![p] = posts[post[p]]] /\ Goto(p, "room")
           /\ UNCHANGED <<mu, user, post, verdict, standing>>
  BY <1>1, <1>2, <1>4, QuietKeeps DEF Labels
<1> QED
  BY <1>3, <1>4 DEF LoadPost

(* The answer is confirmed while the post carries it. *)
LEMMA ConfirmKeeps ==
  ASSUME OneMutex, IInv, NEW p \in Procs, pc[p] # "idle", Confirm(p), Finish(p),
         post[p] \in DOMAIN posts, posts[post[p]].status = verdict[p],
         UNCHANGED <<envVars, posts>>
  PROVE  IInv'
<1>1. verdict[p] \in Decisions
  BY DEF IInv, Typed
<1>2. said' \subseteq ((DOMAIN posts') \X Decisions) /\ AnswerRecorded'
  BY <1>1 DEF Confirm, IInv, Typed, AnswerRecorded
<1>3. Typed'
  BY <1>2, FinishRests DEF IInv, Typed, envVars
<1> QED
  BY <1>2, <1>3, FinishRests DEF IInv

LEMMA CheckRoomKeeps ==
  ASSUME OneMutex, IInv, NEW p \in Procs, CheckRoom(p)
  PROVE  IInv'
<1>1. /\ pc[p] = "room" /\ UNCHANGED <<envVars, posts>>
      /\ post[p] \in DOMAIN posts /\ inv[p] \in Invite /\ inv[p] = posts[post[p]]
  BY DEF CheckRoom, IInv, Stage, WithPost, WithInvite
<1>2. CASE Finish(p) /\ UNCHANGED said
  BY <1>1, <1>2, QuietKeeps
<1>3. CASE inv[p].status = verdict[p] /\ Confirm(p) /\ Finish(p)
  BY <1>1, <1>3, ConfirmKeeps
<1>4. CASE /\ inv[p].status = "pending" /\ Goto(p, "valid")
           /\ UNCHANGED <<mu, user, post, inv, verdict, standing, said>>
  <2>1. pc'[p] = "valid"
    BY <1>4 DEF Goto, IInv, Typed
  <2>2. Stage(p)'
    BY <1>1, <1>4, <2>1 DEF Stage, WithPost, WithInvite
  <2> QED
    BY <1>1, <1>4, <2>2, QuietKeeps DEF Labels, IInv, Typed
<1> QED
  BY <1>2, <1>3, <1>4 DEF CheckRoom

LEMMA CheckValidKeeps ==
  ASSUME OneMutex, IInv, NEW p \in Procs, CheckValid(p)
  PROVE  IInv'
<1>1. /\ pc[p] = "valid" /\ UNCHANGED <<envVars, posts, said>>
      /\ post[p] \in DOMAIN posts /\ inv[p] \in Invite
      /\ posts[post[p]].status = "pending" /\ verdict[p] \in Decisions
  BY DEF CheckValid, IInv, Typed, Stage, WithPost, WithInvite
<1>2. CASE Finish(p)
  BY <1>1, <1>2, QuietKeeps
<1>3. CASE /\ inv' = [inv EXCEPT ![p].status = verdict[p]] /\ Goto(p, "update")
           /\ UNCHANGED <<mu, user, post, verdict, standing>>
  <2>1. pc'[p] = "update" /\ inv'[p] = [inv[p] EXCEPT !.status = verdict[p]]
    BY <1>3 DEF Goto, IInv, Typed
  <2>2. inv'[p] \in Invite /\ inv'[p].status = verdict[p]
    BY <1>1, <2>1 DEF Invite
  <2>3. Stage(p)'
    BY <1>1, <1>3, <2>1, <2>2 DEF Stage, WithPost, WithInvite
  <2>4. inv' = [q \in Procs |-> inv'[q]]
    BY <1>3 DEF IInv, Typed
  <2> QED
    BY <1>1, <1>3, <2>3, <2>4, QuietKeeps DEF Labels
<1> QED
  BY <1>2, <1>3 DEF CheckValid

LEMMA UpdatePostKeeps ==
  ASSUME OneMutex, IInv, NEW p \in Procs, UpdatePost(p)
  PROVE  IInv'
<1>1. /\ pc[p] = "update" /\ posts \in Seq(Invite) /\ post[p] \in DOMAIN posts
      /\ inv[p] \in Invite /\ inv[p].status = verdict[p]
      /\ posts[post[p]].status = "pending"
  BY DEF UpdatePost, IInv, Typed, Stage, WithPost, WithInvite
<1>2. \A x \in said : x[1] # post[p]
  BY <1>1, PendingUnsaid DEF IInv
<1>3. /\ posts' \in Seq(Invite) /\ DOMAIN posts' = DOMAIN posts
      /\ posts'[post[p]] = inv[p]
      /\ \A i \in DOMAIN posts : i # post[p] => posts'[i] = posts[i]
  BY <1>1 DEF UpdatePost
<1>4. pc'[p] = "revalidate"
  BY DEF UpdatePost, Goto, IInv, Typed
<1>5. Stage(p)'
  BY <1>1, <1>2, <1>3, <1>4 DEF UpdatePost, Stage, WithPost, WithInvite
<1>6. pc' \in [Procs -> Labels] /\ Exclusion' /\ \A q \in Procs : Stage(q)'
  BY <1>1, <1>5, StepConcernsOne DEF UpdatePost, Labels
<1>7. said' \subseteq ((DOMAIN posts') \X Decisions) /\ AnswerRecorded'
  BY <1>2, <1>3 DEF UpdatePost, IInv, Typed, AnswerRecorded
<1>8. Typed'
  BY <1>3, <1>6, <1>7 DEF UpdatePost, IInv, Typed, envVars
<1> QED
  BY <1>6, <1>7, <1>8 DEF IInv

LEMMA RevalidateKeeps ==
  ASSUME OneMutex, IInv, NEW p \in Procs, Revalidate(p)
  PROVE  IInv'
<1>1. /\ pc[p] = "revalidate" /\ UNCHANGED <<envVars, posts>>
      /\ post[p] \in DOMAIN posts /\ inv[p] \in Invite
      /\ posts[post[p]].status = verdict[p] /\ \A x \in said : x[1] # post[p]
  BY DEF Revalidate, IInv, Stage, WithPost, WithInvite
<1>2. CASE Confirm(p) /\ Finish(p)
  BY <1>1, <1>2, ConfirmKeeps
<1>3. CASE Goto(p, "expire") /\ UNCHANGED <<mu, user, post, inv, verdict, standing, said>>
  <2>1. pc'[p] = "expire"
    BY <1>3 DEF Goto, IInv, Typed
  <2>2. Stage(p)'
    BY <1>1, <1>3, <2>1 DEF Stage, WithPost, WithInvite
  <2> QED
    BY <1>1, <1>3, <2>2, QuietKeeps DEF Labels, IInv, Typed
<1> QED
  BY <1>2, <1>3 DEF Revalidate

LEMMA ExpirePostKeeps ==
  ASSUME OneMutex, IInv, NEW p \in Procs, ExpirePost(p)
  PROVE  IInv'
<1>1. /\ pc[p] = "expire" /\ posts \in Seq(Invite) /\ post[p] \in DOMAIN posts
      /\ inv[p] \in Invite /\ \A x \in said : x[1] # post[p]
      /\ clock - 1 \in Int
  BY DEF ExpirePost, IInv, Typed, Stage, WithPost, WithInvite
<1>2. [inv[p] EXCEPT !.status = "pending", !.exp = clock - 1] \in Invite
  BY <1>1 DEF Invite
<1>3. /\ posts' \in Seq(Invite) /\ DOMAIN posts' = DOMAIN posts
      /\ \A i \in DOMAIN posts : i # post[p] => posts'[i] = posts[i]
  BY <1>1, <1>2 DEF ExpirePost
<1>4. said' \subseteq ((DOMAIN posts') \X Decisions) /\ AnswerRecorded'
  BY <1>1, <1>3 DEF ExpirePost, IInv, Typed, AnswerRecorded
<1>5. Typed'
  BY <1>1, <1>3, <1>4, FinishRests DEF ExpirePost, IInv, Typed, envVars
<1> QED
  BY <1>1, <1>4, <1>5, FinishRests DEF ExpirePost, IInv

LEMMA MutateKeeps ==
  ASSUME IInv, NEW q \in Mutation, Mutate(q)
  PROVE  IInv'
<1>1. Now \in Domain
  BY PrunedTyped DEF Now, IInv, Typed
<1>2. domain' \in Domain
  BY <1>1, ApplyTyped DEF Mutate, IInv, Typed
<1>3. nextGen' \in Nat
  BY DEF Mutate, IInv, Typed
<1>4. Typed'
  BY <1>2, <1>3 DEF Mutate, procVars, IInv, Typed
<1>5. Exclusion' /\ AnswerRecorded'
  BY DEF Mutate, procVars, IInv, Exclusion, AnswerRecorded
<1>6. \A p \in Procs : Stage(p)'
  BY DEF Mutate, procVars, IInv, Stage
<1> QED
  BY <1>4, <1>5, <1>6 DEF IInv

LEMMA RestKeeps ==
  ASSUME IInv, Tick \/ UNCHANGED vars
  PROVE  IInv'
<1>1. clock' \in Nat /\ UNCHANGED <<domain, nextGen, posts, mu, procVars, said>>
  BY DEF IInv, Typed, Tick, vars, envVars
<1>2. Typed'
  BY <1>1 DEF IInv, Typed, procVars
<1>3. Exclusion' /\ AnswerRecorded'
  BY <1>1 DEF IInv, Exclusion, AnswerRecorded, procVars
<1>4. \A p \in Procs : Stage(p)'
  BY <1>1 DEF IInv, Stage, procVars
<1> QED
  BY <1>2, <1>3, <1>4 DEF IInv

LEMMA InvitesStep == OneMutex /\ IInv /\ [Next]_vars => IInv'
<1> SUFFICES ASSUME OneMutex, IInv, [Next]_vars PROVE IInv'
  OBVIOUS
<1>1. ASSUME NEW p \in Procs, Step(p) PROVE IInv'
  BY <1>1, ComposeInviteKeeps, CreatePostKeeps, RecheckKeeps, LoadPostKeeps,
     CheckRoomKeeps, CheckValidKeeps, UpdatePostKeeps, RevalidateKeeps,
     ExpirePostKeeps DEF Step
<1>2. ASSUME NEW p \in Procs, Fail(p) PROVE IInv'
  BY <1>2, QuietKeeps DEF Fail
<1>3. ASSUME NEW p \in Procs, NEW u \in Users, NEW v \in Users, NEW r \in RoomIDs,
             Send(p, u, v, r)
      PROVE  IInv'
  BY <1>3, SendKeeps
<1>4. ASSUME NEW p \in Procs, NEW i \in 1..MaxInvites, NEW d \in Decisions, Respond(p, i, d)
      PROVE  IInv'
  BY <1>4, RespondKeeps
<1>5. ASSUME NEW u \in Admins, NEW r \in RoomIDs,
             Mutate([kind |-> "create", user |-> u, room |-> r])
      PROVE  IInv'
  BY <1>5, MutateKeeps DEF Mutation, CreateRequest
<1>6. ASSUME NEW u \in Users, NEW r \in RoomIDs,
             Mutate([kind |-> "delete", user |-> u, room |-> r])
      PROVE  IInv'
  BY <1>6, MutateKeeps DEF Mutation, DeleteRequest
<1>7. ASSUME NEW u \in Users, NEW r \in RoomIDs \cup {NoRoomID},
             Mutate([kind |-> "presence", user |-> u, room |-> r, audio |-> TRUE])
      PROVE  IInv'
  BY <1>7, MutateKeeps DEF Mutation, PresenceRequest
<1>8. CASE Tick \/ Idle \/ UNCHANGED vars
  BY <1>8, RestKeeps DEF Idle
<1> QED
  BY <1>1, <1>2, <1>3, <1>4, <1>5, <1>6, <1>7, <1>8 DEF Next

(* On one node a decision that was confirmed to the invited user stays the  *)
(* status of the invitation, whatever requests, changes of the rooms and    *)
(* ticks of the clock come between: voiceDomainMu makes each request of     *)
(* handleVoiceInvite and handleVoiceInviteResponse the only one that reads  *)
(* and writes a post.                                                       *)
THEOREM AnswersStand == OneMutex => (Spec => []AnswerRecorded)
<1> SUFFICES ASSUME OneMutex PROVE Spec => []AnswerRecorded
  OBVIOUS
<1>1. Init => IInv
  BY InvitesBegin
<1>2. IInv /\ [Next]_vars => IInv'
  BY InvitesStep
<1>3. IInv => AnswerRecorded
  BY DEF IInv
<1> QED
  BY <1>1, <1>2, <1>3, PTL DEF Spec

-----------------------------------------------------------------------------
(* What holds whatever the nodes do, for a generation is the one thing of a *)
(* post that no writer ever changes: the types, and that only an invitation *)
(* to a room that stands is answered.                                       *)
Answering == {"load", "room", "valid", "update", "revalidate"}

RoomOfGen(d, g) == \E m \in d.rooms : m.gen = g

Generations ==
  /\ \A m \in domain.rooms : m.gen < nextGen
  /\ \A i \in DOMAIN posts : posts[i].gen < nextGen

Known(p) ==
  /\ pc[p] = "invite" => inv[p] \in [room : RoomIDs, target : Users]
  /\ pc[p] \in WithPost => post[p] \in DOMAIN posts
  /\ pc[p] \in WithInvite => inv[p] \in Invite /\ inv[p].gen < nextGen
  /\ pc[p] \in WithInvite \cap WithPost => inv[p].gen = posts[post[p]].gen
  /\ pc[p] \in Answering /\ ~standing[p] => ~RoomOfGen(domain, posts[post[p]].gen)

GInv == TypeOK /\ Generations /\ \A p \in Procs : Known(p)

(* What every step does to the generations: those of the posts stay, and    *)
(* the only new one among the rooms is the next one.                        *)
Onward ==
  /\ nextGen' \in Nat /\ nextGen <= nextGen'
  /\ \A i \in DOMAIN posts : i \in DOMAIN posts' /\ posts'[i].gen = posts[i].gen
  /\ \A i \in DOMAIN posts' : posts'[i].gen < nextGen'
  /\ \A m \in domain'.rooms :
       RoomOfGen(domain, m.gen) \/ (m.gen = nextGen /\ nextGen < nextGen')

(* NoInvite is a copy, and so is an invitation. *)
LEMMA Copies ==
  /\ NoInvite \in InviteCopy
  /\ Invite \subseteq InviteCopy
  /\ [room : RoomIDs, target : Users] \subseteq InviteCopy
<1>1. (CHOOSE u \in Users : TRUE) \in Users
  BY InviteAssumption
<1> QED
  BY <1>1 DEF NoInvite, InviteCopy

LEMMA GenerationsBegin == Init => GInv
<1> SUFFICES ASSUME Init PROVE GInv
  OBVIOUS
<1>1. domain \in Domain
  BY DEF Init, Domain
<1>2. posts \in Seq(Invite) /\ Len(posts) = 0 /\ said = {} /\ DOMAIN posts = {}
  BY DEF Init
<1>3. (CHOOSE u \in Users : TRUE) \in Users
  BY InviteAssumption
<1>4. TypeOK
  BY <1>1, <1>2, <1>3, Copies DEF Init, TypeOK, Labels, Decisions, NoPost
<1>5. Generations
  BY <1>2 DEF Init, Generations
<1> QED
  BY <1>1, <1>4, <1>5 DEF Init, GInv, Known, WithPost, WithInvite, Answering

LEMMA PostsTyped ==
  ASSUME GInv
  PROVE  \A i \in DOMAIN posts : /\ posts[i] \in Invite /\ posts[i].gen \in Nat
                                 /\ posts[i].gen < nextGen
<1>1. posts \in Seq(Invite)
  BY DEF GInv, TypeOK
<1>2. \A i \in DOMAIN posts : posts[i] \in Invite
  BY <1>1
<1>3. \A v \in Invite : v.gen \in Nat
  BY DEF Invite
<1> QED
  BY <1>2, <1>3 DEF GInv, Generations

(* A goroutine that does not move keeps what it knows. *)
LEMMA KnownKept ==
  ASSUME GInv, Onward, NEW p \in Procs,
         pc'[p] = pc[p], inv'[p] = inv[p], post'[p] = post[p], standing'[p] = standing[p]
  PROVE  Known(p)'
<1>1. Known(p) /\ nextGen \in Nat
  BY DEF GInv, TypeOK
<1>2. pc[p] \in WithInvite => inv[p].gen < nextGen'
  BY <1>1 DEF Onward, Known, Invite
<1>3. ASSUME pc[p] \in Answering, ~standing[p]
      PROVE  ~RoomOfGen(domain', posts'[post[p]].gen)
  <2>1. post[p] \in DOMAIN posts /\ posts'[post[p]].gen = posts[post[p]].gen
    BY <1>1, <1>3 DEF Known, Answering, WithPost, Onward
  <2>2. posts[post[p]].gen < nextGen /\ posts[post[p]].gen \in Nat
    BY <2>1, PostsTyped
  <2>3. ~RoomOfGen(domain, posts[post[p]].gen)
    BY <1>1, <1>3 DEF Known
  <2> QED
    BY <2>1, <2>2, <2>3, <1>1 DEF Onward, RoomOfGen
<1> QED
  BY <1>1, <1>2, <1>3 DEF Known, Onward, WithPost, WithInvite, RoomOfGen

(* The generations go on. *)
LEMMA GenerationsKept ==
  ASSUME GInv, Onward
  PROVE  Generations'
<1>1. /\ nextGen \in Nat /\ nextGen' \in Nat
      /\ \A m \in domain.rooms : m.gen \in Nat /\ m.gen < nextGen
  BY DEF GInv, TypeOK, Generations, Domain, Room, Onward
<1> QED
  BY <1>1 DEF Onward, Generations, RoomOfGen

(* A step that touches neither the posts nor the rooms. *)
LEMMA QuietOnward ==
  ASSUME GInv, UNCHANGED <<domain, nextGen, posts>>
  PROVE  Onward
BY DEF GInv, TypeOK, Generations, Onward, RoomOfGen

(* A step of one goroutine: what it now knows itself is all there is to     *)
(* show, the others have stood by.                                          *)
LEMMA OneMoves ==
  ASSUME GInv, Onward, TypeOK', NEW p \in Procs, Known(p)',
         \A q \in Procs \ {p} : /\ pc'[q] = pc[q] /\ inv'[q] = inv[q]
                                /\ post'[q] = post[q] /\ standing'[q] = standing[q]
  PROVE  GInv'
<1>1. \A q \in Procs : Known(q)'
  BY KnownKept
<1> QED
  BY <1>1, GenerationsKept DEF GInv

(* Every request that ends, whatever it confirmed. *)
LEMMA FinishStays ==
  ASSUME GInv, NEW p \in Procs, Finish(p), UNCHANGED <<envVars, posts>>,
         said' \subseteq ((DOMAIN posts) \X Decisions)
  PROVE  GInv'
<1>1. Onward
  BY QuietOnward DEF envVars
<1>2. NodeOf[p] \in Nodes
  BY InviteAssumption
<1>3. TypeOK'
  BY <1>2, Copies DEF GInv, TypeOK, Finish, Goto, envVars, Labels, NoPost
<1>4. pc'[p] = "idle"
  BY DEF Finish, Goto, GInv, TypeOK
<1>5. Known(p)'
  BY <1>4 DEF Known, WithPost, WithInvite, Answering
<1> QED
  BY <1>1, <1>3, <1>5, OneMoves DEF Finish, Goto, envVars, GInv, TypeOK

(* A step inside a request that only moves on. *)
LEMMA OnStays ==
  ASSUME GInv, NEW p \in Procs, NEW l \in Labels, Goto(p, l),
         UNCHANGED <<envVars, posts, mu, user, post, inv, verdict, standing, said>>,
         Known(p)'
  PROVE  GInv'
<1>1. Onward
  BY QuietOnward DEF envVars
<1>2. TypeOK'
  BY DEF GInv, TypeOK, Goto, envVars
<1> QED
  BY <1>1, <1>2, OneMoves DEF Goto, GInv, TypeOK

-----------------------------------------------------------------------------
LEMMA SendStays ==
  ASSUME GInv, NEW p \in Procs, NEW u \in Users, NEW v \in Users, NEW r \in RoomIDs,
         Send(p, u, v, r)
  PROVE  GInv'
<1>1. Onward
  BY QuietOnward DEF Send, envVars
<1>2. NodeOf[p] \in Nodes
  BY InviteAssumption
<1>3. [room |-> r, target |-> v] \in [room : RoomIDs, target : Users]
  OBVIOUS
<1>4. inv' \in [Procs -> InviteCopy]
  BY <1>3, Copies DEF Send, GInv, TypeOK
<1>5. pc' \in [Procs -> Labels] /\ user' \in [Procs -> Users] /\ mu' \in [Nodes -> Procs \cup {Free}]
  BY <1>2 DEF Send, Goto, Lock, GInv, TypeOK, Labels
<1>6. TypeOK'
  BY <1>4, <1>5 DEF Send, GInv, TypeOK, envVars
<1>7. pc'[p] = "invite" /\ inv'[p] = [room |-> r, target |-> v]
  BY DEF Send, Goto, GInv, TypeOK
<1>8. Known(p)'
  BY <1>3, <1>7 DEF Known, WithPost, WithInvite, Answering
<1> QED
  BY <1>1, <1>6, <1>8, OneMoves DEF Send, Goto, GInv, TypeOK

LEMMA ComposeInviteStays ==
  ASSUME GInv, NEW p \in Procs, ComposeInvite(p)
  PROVE  GInv'
<1>1. pc[p] = "invite" /\ UNCHANGED <<envVars, posts, said>>
  BY DEF ComposeInvite
<1>2. CASE Finish(p)
  BY <1>1, <1>2, FinishStays DEF GInv, TypeOK
<1>3. ASSUME NEW m \in domain.rooms,
             inv' = [inv EXCEPT ![p] =
                       [room |-> m.id, gen |-> m.gen, inviter |-> user[p],
                        target |-> inv[p].target, exp |-> clock + InviteTTL,
                        status |-> "pending"]],
             Goto(p, "create"), UNCHANGED <<mu, user, post, verdict, standing>>
      PROVE  GInv'
  <2>1. /\ m.id \in RoomIDs /\ m.gen \in Nat /\ m.gen < nextGen
        /\ clock + InviteTTL \in Int
    BY InviteAssumption DEF GInv, TypeOK, Generations, Domain, Room
  <2>2. user[p] \in Users /\ inv[p].target \in Users
    BY <1>1 DEF GInv, TypeOK, Known
  <2>3. inv'[p] = [room |-> m.id, gen |-> m.gen, inviter |-> user[p],
                   target |-> inv[p].target, exp |-> clock + InviteTTL,
                   status |-> "pending"]
    BY <1>3 DEF GInv, TypeOK
  <2>4. inv'[p] \in Invite /\ inv'[p].gen < nextGen
    BY <2>1, <2>2, <2>3 DEF Invite
  <2>5. inv' \in [Procs -> InviteCopy]
    BY <1>3, <2>3, <2>4, Copies DEF GInv, TypeOK
  <2>6. pc' \in [Procs -> Labels] /\ pc'[p] = "create"
    BY <1>3 DEF Goto, GInv, TypeOK, Labels
  <2>7. TypeOK'
    BY <1>1, <1>3, <2>5, <2>6 DEF GInv, TypeOK, envVars
  <2>8. Known(p)'
    BY <1>1, <2>4, <2>6 DEF Known, WithPost, WithInvite, Answering, envVars
  <2>9. Onward
    BY <1>1, QuietOnward DEF envVars
  <2> QED
    BY <1>3, <2>7, <2>8, <2>9, OneMoves DEF Goto, GInv, TypeOK
<1> QED
  BY <1>2, <1>3 DEF ComposeInvite

LEMMA CreatePostStays ==
  ASSUME GInv, NEW p \in Procs, CreatePost(p)
  PROVE  GInv'
<1>1. /\ pc[p] = "create" /\ posts \in Seq(Invite) /\ inv[p] \in Invite
      /\ inv[p].gen < nextGen /\ UNCHANGED <<envVars, mu, user, inv, verdict, standing, said>>
  BY DEF CreatePost, GInv, TypeOK, Known, WithInvite
<1>2. /\ posts' \in Seq(Invite) /\ Len(posts) \in Nat /\ Len(posts') = Len(posts) + 1
      /\ DOMAIN posts = 1..Len(posts) /\ DOMAIN posts' = 1..(Len(posts) + 1)
      /\ \A i \in DOMAIN posts : posts'[i] = posts[i]
      /\ posts'[Len(posts) + 1] = inv[p]
  BY <1>1 DEF CreatePost
<1>3. Onward
  <2>1. \A i \in DOMAIN posts' : posts'[i].gen < nextGen'
    <3> SUFFICES ASSUME NEW i \in DOMAIN posts' PROVE posts'[i].gen < nextGen'
      OBVIOUS
    <3>1. i \in DOMAIN posts \/ i = Len(posts) + 1
      BY <1>2
    <3> QED
      BY <1>1, <1>2, <3>1, PostsTyped DEF envVars
  <2>2. \A i \in DOMAIN posts : i \in DOMAIN posts' /\ posts'[i].gen = posts[i].gen
    BY <1>2
  <2> QED
    BY <1>1, <2>1, <2>2 DEF GInv, TypeOK, Onward, RoomOfGen, envVars
<1>4. /\ pc' \in [Procs -> Labels] /\ pc'[p] = "recheck"
      /\ post' \in [Procs -> 0..Len(posts')] /\ post'[p] = Len(posts) + 1
  BY <1>2 DEF CreatePost, Goto, GInv, TypeOK, Labels
<1>5. said' \subseteq ((DOMAIN posts') \X Decisions)
  BY <1>1, <1>2 DEF GInv, TypeOK
<1>6. TypeOK'
  BY <1>1, <1>2, <1>4, <1>5 DEF GInv, TypeOK, envVars
<1>7. Known(p)'
  BY <1>1, <1>2, <1>4 DEF Known, WithPost, WithInvite, Answering, envVars
<1> QED
  BY <1>1, <1>3, <1>6, <1>7, OneMoves DEF CreatePost, Goto, GInv, TypeOK

LEMMA RespondStays ==
  ASSUME GInv, NEW p \in Procs, NEW i, NEW d \in Decisions, Respond(p, i, d)
  PROVE  GInv'
<1>1. /\ i \in DOMAIN posts /\ posts \in Seq(Invite) /\ posts[i] \in Invite
      /\ UNCHANGED <<envVars, posts, inv, said>>
  BY DEF Respond, GInv, TypeOK
<1>2. Onward
  BY <1>1, QuietOnward DEF envVars
<1>3. NodeOf[p] \in Nodes
  BY InviteAssumption
<1>4. posts[i].target \in Users /\ i \in 0..Len(posts)
  BY <1>1 DEF Invite
<1>5. pc' \in [Procs -> Labels] /\ user' \in [Procs -> Users] /\ mu' \in [Nodes -> Procs \cup {Free}]
  BY <1>3, <1>4 DEF Respond, Goto, Lock, GInv, TypeOK, Labels
<1>6. post' \in [Procs -> 0..Len(posts)] /\ verdict' \in [Procs -> Decisions]
      /\ standing' \in [Procs -> BOOLEAN]
  BY <1>4 DEF Respond, GInv, TypeOK
<1>7. TypeOK'
  BY <1>1, <1>5, <1>6 DEF GInv, TypeOK, envVars
<1>8. pc'[p] = "load" /\ post'[p] = i /\ (standing'[p] <=> RoomOfGen(domain, posts[i].gen))
  BY DEF Respond, Goto, GInv, TypeOK, RoomOfGen
<1>9. Known(p)'
  BY <1>1, <1>8 DEF Known, WithPost, WithInvite, Answering, envVars
<1> QED
  BY <1>2, <1>7, <1>9, OneMoves DEF Respond, Goto, GInv, TypeOK

LEMMA LoadPostStays ==
  ASSUME GInv, NEW p \in Procs, LoadPost(p)
  PROVE  GInv'
<1>1. pc[p] = "load" /\ UNCHANGED <<envVars, posts, said>>
  BY DEF LoadPost
<1>2. CASE Finish(p)
  BY <1>1, <1>2, FinishStays DEF GInv, TypeOK
<1>3. CASE /\ inv' = [inv EXCEPT ![p] = posts[post[p]]] /\ Goto(p, "room")
           /\ UNCHANGED <<mu, user, post, verdict, standing>>
  <2>1. post[p] \in DOMAIN posts /\ posts[post[p]] \in Invite
        /\ posts[post[p]].gen < nextGen
    BY <1>1 DEF GInv, TypeOK, Generations, Known, WithPost
  <2>2. inv' \in [Procs -> InviteCopy] /\ inv'[p] = posts[post[p]]
    BY <1>3, <2>1, Copies DEF GInv, TypeOK
  <2>3. pc' \in [Procs -> Labels] /\ pc'[p] = "room"
    BY <1>3 DEF Goto, GInv, TypeOK, Labels
  <2>4. TypeOK'
    BY <1>1, <1>3, <2>2, <2>3 DEF GInv, TypeOK, envVars
  <2>5. Known(p)'
    BY <1>1, <1>3, <2>1, <2>2, <2>3
       DEF GInv, Known, WithPost, WithInvite, Answering, envVars
  <2>6. Onward
    BY <1>1, QuietOnward DEF envVars
  <2> QED
    BY <1>3, <2>4, <2>5, <2>6, OneMoves DEF Goto, GInv, TypeOK
<1> QED
  BY <1>2, <1>3 DEF LoadPost

(* What a goroutine knows of a post goes with it from one place to the next. *)
LEMMA KnownOnward ==
  ASSUME GInv, NEW p \in Procs, NEW l, Goto(p, l),
         UNCHANGED <<envVars, posts, post, inv, standing>>,
         \/ pc[p] = "recheck" /\ l = "expire"
         \/ pc[p] = "room" /\ l = "valid"
         \/ pc[p] = "revalidate" /\ l = "expire"
  PROVE  Known(p)'
<1>1. pc'[p] = l
  BY DEF Goto, GInv, TypeOK
<1> QED
  BY <1>1 DEF GInv, Known, WithPost, WithInvite, Answering, envVars

LEMMA ConfirmStays ==
  ASSUME GInv, NEW p \in Procs, pc[p] \in WithPost, Confirm(p), Finish(p),
         UNCHANGED <<envVars, posts>>
  PROVE  GInv'
<1>1. said' \subseteq ((DOMAIN posts) \X Decisions)
  BY DEF Confirm, GInv, TypeOK, Known
<1> QED
  BY <1>1, FinishStays

LEMMA ChecksStay ==
  ASSUME GInv, NEW p \in Procs, Recheck(p) \/ CheckRoom(p) \/ Revalidate(p)
  PROVE  GInv'
<1>1. CASE Recheck(p)
  <2>1. CASE Finish(p)
    BY <1>1, <2>1, FinishStays DEF Recheck, GInv, TypeOK
  <2>2. CASE Goto(p, "expire") /\ UNCHANGED <<mu, user, post, inv, verdict, standing>>
    BY <1>1, <2>2, KnownOnward, OnStays DEF Recheck, Labels
  <2> QED
    BY <1>1, <2>1, <2>2 DEF Recheck
<1>2. CASE CheckRoom(p)
  <2>1. CASE Finish(p) /\ UNCHANGED said
    BY <1>2, <2>1, FinishStays DEF CheckRoom, GInv, TypeOK
  <2>2. CASE Confirm(p) /\ Finish(p)
    BY <1>2, <2>2, ConfirmStays DEF CheckRoom, WithPost
  <2>3. CASE /\ Goto(p, "valid")
             /\ UNCHANGED <<mu, user, post, inv, verdict, standing, said>>
    BY <1>2, <2>3, KnownOnward, OnStays DEF CheckRoom, Labels
  <2> QED
    BY <1>2, <2>1, <2>2, <2>3 DEF CheckRoom
<1>3. CASE Revalidate(p)
  <2>1. CASE Confirm(p) /\ Finish(p)
    BY <1>3, <2>1, ConfirmStays DEF Revalidate, WithPost
  <2>2. CASE /\ Goto(p, "expire")
             /\ UNCHANGED <<mu, user, post, inv, verdict, standing, said>>
    BY <1>3, <2>2, KnownOnward, OnStays DEF Revalidate, Labels
  <2> QED
    BY <1>3, <2>1, <2>2 DEF Revalidate
<1> QED
  BY <1>1, <1>2, <1>3

LEMMA CheckValidStays ==
  ASSUME GInv, NEW p \in Procs, CheckValid(p)
  PROVE  GInv'
<1>1. pc[p] = "valid" /\ UNCHANGED <<envVars, posts, said>>
  BY DEF CheckValid
<1>2. CASE Finish(p)
  BY <1>1, <1>2, FinishStays DEF GInv, TypeOK
<1>3. CASE /\ inv' = [inv EXCEPT ![p].status = verdict[p]] /\ Goto(p, "update")
           /\ UNCHANGED <<mu, user, post, verdict, standing>>
  <2>1. inv[p] \in Invite /\ verdict[p] \in Decisions
    BY <1>1 DEF GInv, TypeOK, Known, WithInvite
  <2>2. inv'[p] = [inv[p] EXCEPT !.status = verdict[p]]
    BY <1>3 DEF GInv, TypeOK
  <2>3. inv'[p] \in Invite /\ inv'[p].gen = inv[p].gen
    BY <2>1, <2>2 DEF Invite
  <2>4. inv' \in [Procs -> InviteCopy]
    BY <1>3, <2>2, <2>3, Copies DEF GInv, TypeOK
  <2>5. pc' \in [Procs -> Labels] /\ pc'[p] = "update"
    BY <1>3 DEF Goto, GInv, TypeOK, Labels
  <2>6. TypeOK'
    BY <1>1, <1>3, <2>4, <2>5 DEF GInv, TypeOK, envVars
  <2>7. Known(p)'
    BY <1>1, <1>3, <2>3, <2>5 DEF GInv, Known, WithPost, WithInvite, Answering, envVars
  <2>8. Onward
    BY <1>1, QuietOnward DEF envVars
  <2> QED
    BY <1>3, <2>6, <2>7, <2>8, OneMoves DEF Goto, GInv, TypeOK
<1> QED
  BY <1>2, <1>3 DEF CheckValid

(* Whatever is written over a post, it is of the generation of the post. *)
LEMMA RewriteOnward ==
  ASSUME GInv, NEW i \in DOMAIN posts, NEW v \in Invite, v.gen = posts[i].gen,
         posts' = [posts EXCEPT ![i] = v], UNCHANGED <<domain, nextGen>>
  PROVE  Onward /\ posts' \in Seq(Invite) /\ Len(posts') = Len(posts) /\ DOMAIN posts' = DOMAIN posts
<1>1. posts \in Seq(Invite)
  BY DEF GInv, TypeOK
<1>2. /\ posts' \in Seq(Invite) /\ Len(posts') = Len(posts) /\ DOMAIN posts' = DOMAIN posts
      /\ posts'[i] = v /\ \A j \in DOMAIN posts : j # i => posts'[j] = posts[j]
  BY <1>1
<1>3. \A j \in DOMAIN posts : posts'[j].gen = posts[j].gen
  BY <1>2
<1> QED
  BY <1>2, <1>3 DEF GInv, TypeOK, Generations, Onward, RoomOfGen

LEMMA UpdatePostStays ==
  ASSUME GInv, NEW p \in Procs, UpdatePost(p)
  PROVE  GInv'
<1>1. /\ pc[p] = "update" /\ post[p] \in DOMAIN posts /\ inv[p] \in Invite
      /\ inv[p].gen = posts[post[p]].gen /\ posts' = [posts EXCEPT ![post[p]] = inv[p]]
      /\ UNCHANGED <<envVars, mu, user, post, inv, verdict, standing, said>>
  BY DEF UpdatePost, GInv, Known, WithPost, WithInvite
<1>2. Onward /\ posts' \in Seq(Invite) /\ Len(posts') = Len(posts) /\ DOMAIN posts' = DOMAIN posts
  BY <1>1, RewriteOnward DEF envVars
<1>3. pc' \in [Procs -> Labels] /\ pc'[p] = "revalidate"
  BY DEF UpdatePost, Goto, GInv, TypeOK, Labels
<1>4. TypeOK'
  BY <1>1, <1>2, <1>3 DEF GInv, TypeOK, envVars
<1>5. posts'[post[p]].gen = posts[post[p]].gen
  BY <1>1, <1>2 DEF Onward
<1>6. Known(p)'
  BY <1>1, <1>2, <1>3, <1>5 DEF GInv, Known, WithPost, WithInvite, Answering, envVars
<1> QED
  BY <1>1, <1>2, <1>4, <1>6, OneMoves DEF UpdatePost, Goto, GInv, TypeOK

LEMMA ExpirePostStays ==
  ASSUME GInv, NEW p \in Procs, ExpirePost(p)
  PROVE  GInv'
<1>1. /\ pc[p] = "expire" /\ post[p] \in DOMAIN posts /\ inv[p] \in Invite
      /\ inv[p].gen = posts[post[p]].gen /\ clock - 1 \in Int
      /\ UNCHANGED <<envVars, said>> /\ Finish(p)
  BY DEF ExpirePost, GInv, TypeOK, Known, WithPost, WithInvite
<1>2. PICK v : v = [inv[p] EXCEPT !.status = "pending", !.exp = clock - 1]
  OBVIOUS
<1>3. v \in Invite /\ v.gen = posts[post[p]].gen
  BY <1>1, <1>2 DEF Invite
<1>4. Onward /\ posts' \in Seq(Invite) /\ Len(posts') = Len(posts) /\ DOMAIN posts' = DOMAIN posts
  BY <1>1, <1>2, <1>3, RewriteOnward DEF ExpirePost, envVars
<1>5. NodeOf[p] \in Nodes
  BY InviteAssumption
<1>6. TypeOK'
  BY <1>1, <1>4, <1>5, Copies DEF GInv, TypeOK, Finish, Goto, envVars, Labels, NoPost
<1>7. pc'[p] = "idle"
  BY <1>1 DEF Finish, Goto, GInv, TypeOK
<1>8. Known(p)'
  BY <1>7 DEF Known, WithPost, WithInvite, Answering
<1> QED
  BY <1>1, <1>4, <1>6, <1>8, OneMoves DEF Finish, Goto, GInv, TypeOK

LEMMA MutateStays ==
  ASSUME GInv, NEW q \in Mutation, Mutate(q)
  PROVE  GInv'
<1>1. /\ domain \in Domain /\ clock \in Nat /\ nextGen \in Nat
      /\ UNCHANGED <<clock, posts, mu, procVars, said>>
  BY DEF GInv, TypeOK, Mutate
<1>2. Now \in Domain /\ Now.rooms = domain.rooms
  BY <1>1, PrunedTyped DEF Now, Pruned, Domain
<1>3. domain' \in Domain
  BY <1>1, <1>2, ApplyTyped DEF Mutate
<1>4. nextGen' \in Nat /\ nextGen <= nextGen' /\ (q.kind = "create" => nextGen < nextGen')
  BY <1>1 DEF Mutate
<1>5. \A m \in domain'.rooms : m \in domain.rooms \/ (m.gen = nextGen /\ nextGen < nextGen')
  <2>1. CASE q \in CreateRequest
    <3>1. q.kind = "create" /\ domain' = CreateRoom(Now, q, nextGen)
      BY <2>1 DEF Mutate, Apply, CreateRequest
    <3> QED
      BY <1>2, <1>4, <3>1 DEF CreateRoom, Domain
  <2>2. CASE q \in DeleteRequest
    <3>1. domain' = DeleteRoom(Now, q)
      BY <2>2 DEF Mutate, Apply, DeleteRequest
    <3> QED
      BY <1>2, <3>1 DEF DeleteRoom
  <2>3. CASE q \in PresenceRequest
    <3>1. domain' = SetPresence(Now, q, clock)
      BY <2>3 DEF Mutate, Apply, PresenceRequest
    <3>2. domain'.rooms = Now.rooms
      BY <1>2, <3>1 DEF SetPresence, Domain
    <3> QED
      BY <1>2, <3>2
  <2> QED
    BY <2>1, <2>2, <2>3 DEF Mutation
<1>6. \A i \in DOMAIN posts : posts[i].gen \in Nat /\ posts[i].gen < nextGen
  BY PostsTyped
<1>7. Onward
  BY <1>1, <1>4, <1>5, <1>6 DEF Onward, RoomOfGen
<1>8. TypeOK'
  BY <1>1, <1>3, <1>4 DEF GInv, TypeOK, procVars
<1>9. \A p \in Procs : Known(p)'
  BY <1>1, <1>7, KnownKept DEF procVars
<1> QED
  BY <1>7, <1>8, <1>9, GenerationsKept DEF GInv

LEMMA RestStays ==
  ASSUME GInv, Tick \/ UNCHANGED vars
  PROVE  GInv'
<1>1. clock' \in Nat /\ UNCHANGED <<domain, nextGen, posts, mu, procVars, said>>
  BY DEF GInv, TypeOK, Tick, vars, envVars
<1>2. Onward
  BY <1>1, QuietOnward
<1>3. TypeOK'
  BY <1>1 DEF GInv, TypeOK, procVars
<1>4. \A p \in Procs : Known(p)'
  BY <1>1, <1>2, KnownKept DEF procVars
<1> QED
  BY <1>2, <1>3, <1>4, GenerationsKept DEF GInv

LEMMA GenerationsStep == GInv /\ [Next]_vars => GInv'
<1> SUFFICES ASSUME GInv, [Next]_vars PROVE GInv'
  OBVIOUS
<1>1. ASSUME NEW p \in Procs, Step(p) PROVE GInv'
  BY <1>1, ComposeInviteStays, CreatePostStays, ChecksStay, LoadPostStays,
     CheckValidStays, UpdatePostStays, ExpirePostStays DEF Step
<1>2. ASSUME NEW p \in Procs, Fail(p) PROVE GInv'
  BY <1>2, FinishStays DEF Fail, GInv, TypeOK
<1>3. ASSUME NEW p \in Procs, NEW u \in Users, NEW v \in Users, NEW r \in RoomIDs,
             Send(p, u, v, r)
      PROVE  GInv'
  BY <1>3, SendStays
<1>4. ASSUME NEW p \in Procs, NEW i \in 1..MaxInvites, NEW d \in Decisions, Respond(p, i, d)
      PROVE  GInv'
  BY <1>4, RespondStays
<1>5. ASSUME NEW u \in Admins, NEW r \in RoomIDs,
             Mutate([kind |-> "create", user |-> u, room |-> r])
      PROVE  GInv'
  BY <1>5, MutateStays DEF Mutation, CreateRequest
<1>6. ASSUME NEW u \in Users, NEW r \in RoomIDs,
             Mutate([kind |-> "delete", user |-> u, room |-> r])
      PROVE  GInv'
  BY <1>6, MutateStays DEF Mutation, DeleteRequest
<1>7. ASSUME NEW u \in Users, NEW r \in RoomIDs \cup {NoRoomID},
             Mutate([kind |-> "presence", user |-> u, room |-> r, audio |-> TRUE])
      PROVE  GInv'
  BY <1>7, MutateStays DEF Mutation, PresenceRequest
<1>8. CASE Tick \/ Idle \/ UNCHANGED vars
  BY <1>8, RestStays DEF Idle
<1> QED
  BY <1>1, <1>2, <1>3, <1>4, <1>5, <1>6, <1>7, <1>8 DEF Next

LEMMA GenerationsHold == Spec => []GInv
BY GenerationsBegin, GenerationsStep, PTL DEF Spec

(* On any number of nodes the variables keep their types. *)
THEOREM TypeCorrect == Spec => []TypeOK
<1>1. GInv => TypeOK
  BY DEF GInv
<1> QED
  BY <1>1, GenerationsHold, PTL

-----------------------------------------------------------------------------
(* Whoever confirms an answer has just found the room of the post. *)
LEMMA ConfirmedStands ==
  ASSUME GInv, NEW p \in Procs, pc[p] \in {"room", "revalidate"}, RoomStands(inv[p])
  PROVE  standing[p]
<1>1. RoomOfGen(domain, inv[p].gen) /\ inv[p].gen = posts[post[p]].gen
  BY DEF GInv, Known, WithPost, WithInvite, RoomStands, RoomOfGen
<1> QED
  BY <1>1 DEF GInv, TypeOK, Known, Answering

LEMMA SpeakingStands ==
  ASSUME GInv, Next, said' # said
  PROVE  \E p \in Procs : standing[p] /\ \A q \in Procs \ {p} : pc'[q] = pc[q]
<1>1. ASSUME NEW p \in Procs, Step(p)
      PROVE  standing[p] /\ \A q \in Procs \ {p} : pc'[q] = pc[q]
  <2>1. CASE CheckRoom(p)
    <3>1. pc[p] = "room" /\ RoomStands(inv[p]) /\ Finish(p)
      BY <2>1 DEF CheckRoom
    <3> QED
      BY <3>1, ConfirmedStands DEF Finish, Goto, GInv, TypeOK
  <2>2. CASE Revalidate(p)
    <3>1. pc[p] = "revalidate" /\ RoomStands(inv[p]) /\ Finish(p)
      BY <2>2 DEF Revalidate, StillOpen
    <3> QED
      BY <3>1, ConfirmedStands DEF Finish, Goto, GInv, TypeOK
  <2> QED
    BY <1>1, <2>1, <2>2
       DEF Step, ComposeInvite, CreatePost, Recheck, LoadPost, CheckValid, UpdatePost, ExpirePost
<1> QED
  BY <1>1 DEF Next, Fail, Send, Respond, Mutate, Tick, Idle, vars

(* On any number of nodes, an answer is only confirmed to the invited user  *)
(* when the very room of the invitation stood as the request began: a room  *)
(* created anew under the same id carries a later generation, which         *)
(* validateInviteRoom tells apart, and no writer changes that of a post.    *)
THEOREM RoomsAnsweredFor == Spec => NoAnswerForDeadRoom
<1> DEFINE A == \A p \in Procs : said' # said /\ pc[p] # pc'[p] => standing[p]
<1>1. GInv /\ Next => A
  BY SpeakingStands
<1>2. GInv /\ [Next]_vars => [A]_vars
  BY <1>1
<1> HIDE DEF A
<1>3. Spec => [][A]_vars
  BY <1>2, GenerationsHold, PTL DEF Spec
<1> QED
  BY <1>3 DEF NoAnswerForDeadRoom, A

-----------------------------------------------------------------------------
(* On one node the copy a goroutine will write back still has the expiry of *)
(* its post.                                                                *)
SameExpiry ==
  \A p \in Procs : pc[p] \in {"room", "valid", "update"} =>
                     /\ inv[p] \in Invite /\ post[p] \in DOMAIN posts
                     /\ inv[p].exp = posts[post[p]].exp

(* Another goroutine's step finds nobody at work. *)
LEMMA RestingExpiry ==
  ASSUME OneMutex, IInv, NEW p \in Procs, pc[p] # "idle" \/ mu[NodeOf[p]] = Free,
         NEW l \in Labels, Goto(p, l),
         l \in {"room", "valid", "update"} =>
           /\ inv'[p] \in Invite /\ post'[p] \in DOMAIN posts'
           /\ inv'[p].exp = posts'[post'[p]].exp
  PROVE  SameExpiry'
<1>1. \A q \in Procs \ {p} : pc[q] = "idle"
  BY Alone DEF IInv
<1>2. pc'[p] = l /\ \A q \in Procs \ {p} : pc'[q] = "idle"
  BY <1>1 DEF Goto, IInv, Typed
<1> QED
  BY <1>2 DEF SameExpiry

LEMMA ExpiryStep ==
  ASSUME OneMutex, IInv, SameExpiry, [Next]_vars
  PROVE  SameExpiry'
<1>1. ASSUME NEW p \in Procs, pc[p] # "idle", NEW l \in Labels, Goto(p, l),
             l \notin {"room", "valid", "update"}
      PROVE  SameExpiry'
  BY <1>1, RestingExpiry
<1>2. ASSUME NEW p \in Procs, pc[p] # "idle", Finish(p) PROVE SameExpiry'
  BY <1>1, <1>2 DEF Finish, Labels
<1>3. ASSUME NEW p \in Procs, LoadPost(p) PROVE SameExpiry'
  <2>1. pc[p] = "load" /\ post[p] \in DOMAIN posts /\ posts \in Seq(Invite)
    BY <1>3 DEF LoadPost, IInv, Typed, Stage, WithPost
  <2>2. posts[post[p]] \in Invite
    BY <2>1
  <2>3. CASE Finish(p)
    BY <1>2, <2>1, <2>3
  <2>4. CASE /\ inv' = [inv EXCEPT ![p] = posts[post[p]]] /\ Goto(p, "room")
             /\ UNCHANGED <<post, posts>>
    <3>1. inv'[p] = posts[post[p]]
      BY <2>4 DEF IInv, Typed
    <3> QED
      BY <2>1, <2>2, <2>4, <3>1, RestingExpiry DEF Labels
  <2> QED
    BY <1>3, <2>3, <2>4 DEF LoadPost
<1>4. ASSUME NEW p \in Procs, CheckRoom(p) PROVE SameExpiry'
  <2>1. pc[p] = "room" /\ UNCHANGED posts
    BY <1>4 DEF CheckRoom
  <2>2. CASE Finish(p)
    BY <1>2, <2>1, <2>2
  <2>3. CASE Goto(p, "valid") /\ UNCHANGED <<post, inv>>
    BY <2>1, <2>3, RestingExpiry DEF SameExpiry, Labels
  <2> QED
    BY <1>4, <2>2, <2>3 DEF CheckRoom
<1>5. ASSUME NEW p \in Procs, CheckValid(p) PROVE SameExpiry'
  <2>1. pc[p] = "valid" /\ UNCHANGED posts
    BY <1>5 DEF CheckValid
  <2>2. CASE Finish(p)
    BY <1>2, <2>1, <2>2
  <2>3. CASE /\ inv' = [inv EXCEPT ![p].status = verdict[p]] /\ Goto(p, "update")
             /\ UNCHANGED post
    <3>1. inv[p] \in Invite /\ verdict[p] \in Decisions
      BY <2>1 DEF SameExpiry, IInv, Typed
    <3>2. inv'[p] = [inv[p] EXCEPT !.status = verdict[p]]
      BY <2>3 DEF IInv, Typed
    <3>3. inv'[p] \in Invite /\ inv'[p].exp = inv[p].exp
      BY <3>1, <3>2 DEF Invite
    <3> QED
      BY <2>1, <2>3, <3>3, RestingExpiry DEF SameExpiry, Labels
  <2> QED
    BY <1>5, <2>2, <2>3 DEF CheckValid
<1>6. ASSUME NEW p \in Procs, Step(p) PROVE SameExpiry'
  <2>1. CASE ComposeInvite(p) \/ Recheck(p) \/ Revalidate(p) \/ ExpirePost(p)
    BY <2>1, <1>1, <1>2 DEF ComposeInvite, Recheck, Revalidate, ExpirePost, Labels
  <2>2. CASE CreatePost(p) \/ UpdatePost(p)
    BY <2>2, <1>1 DEF CreatePost, UpdatePost, Labels
  <2> QED
    BY <1>3, <1>4, <1>5, <1>6, <2>1, <2>2 DEF Step
<1>7. ASSUME NEW p \in Procs, Fail(p) PROVE SameExpiry'
  BY <1>2, <1>7 DEF Fail
<1>8. ASSUME NEW p \in Procs, NEW u \in Users, NEW v \in Users, NEW r \in RoomIDs,
             Send(p, u, v, r)
      PROVE  SameExpiry'
  BY <1>8, RestingExpiry DEF Send, Lock, Labels
<1>9. ASSUME NEW p \in Procs, NEW i \in 1..MaxInvites, NEW d \in Decisions, Respond(p, i, d)
      PROVE  SameExpiry'
  BY <1>9, RestingExpiry DEF Respond, Lock, Labels
<1>10. CASE UNCHANGED <<posts, pc, inv, post>>
  BY <1>10 DEF SameExpiry
<1> QED
  BY <1>6, <1>7, <1>8, <1>9, <1>10 DEF Next, Mutate, Tick, Idle, vars, procVars

(* A post is only written over with its own expiry, or with one gone by.    *)
LEMMA WritersKeepExpiry ==
  ASSUME OneMutex, IInv, SameExpiry, Next, NEW i \in DOMAIN posts
  PROVE  posts'[i].exp <= posts[i].exp \/ posts'[i].exp < clock
<1>1. posts \in Seq(Invite) /\ clock \in Nat
  BY DEF IInv, Typed
<1>2. posts[i] \in Invite
  BY <1>1
<1>3. posts[i].exp \in Int
  BY <1>2 DEF Invite
<1>4. ASSUME NEW p \in Procs, CreatePost(p) PROVE posts'[i] = posts[i]
  BY <1>1, <1>4 DEF CreatePost, IInv, Stage, WithInvite
<1>5. ASSUME NEW p \in Procs, UpdatePost(p) PROVE posts'[i].exp = posts[i].exp
  <2>1. /\ inv[p] \in Invite /\ post[p] \in DOMAIN posts
        /\ inv[p].exp = posts[post[p]].exp /\ posts' = [posts EXCEPT ![post[p]] = inv[p]]
    BY <1>5 DEF UpdatePost, SameExpiry
  <2> QED
    BY <1>1, <2>1
<1>6. ASSUME NEW p \in Procs, ExpirePost(p)
      PROVE  posts'[i] = posts[i] \/ posts'[i].exp = clock - 1
  <2>1. /\ inv[p] \in Invite /\ post[p] \in DOMAIN posts
        /\ posts' = [posts EXCEPT ![post[p]] =
                       [inv[p] EXCEPT !.status = "pending", !.exp = clock - 1]]
    BY <1>6 DEF ExpirePost, IInv, Stage, WithPost, WithInvite
  <2>2. PICK v : v = [inv[p] EXCEPT !.status = "pending", !.exp = clock - 1]
    OBVIOUS
  <2>3. v.exp = clock - 1
    BY <2>1, <2>2 DEF Invite
  <2> QED
    BY <1>1, <2>1, <2>2, <2>3
<1>7. CASE UNCHANGED posts
  BY <1>3, <1>7
<1>8. ASSUME NEW p \in Procs, Step(p)
      PROVE  posts'[i].exp <= posts[i].exp \/ posts'[i].exp < clock
  BY <1>1, <1>3, <1>4, <1>5, <1>6, <1>7, <1>8
     DEF Step, ComposeInvite, Recheck, LoadPost, CheckRoom, CheckValid, Revalidate
<1> QED
  BY <1>7, <1>8 DEF Next, Fail, Send, Respond, Mutate, Tick, Idle, vars

(* On one node no writer puts the expiry of an invitation off to a time yet *)
(* to come: the answer is written with the expiry that was read, for nobody *)
(* else has written since, and expireInvitePost leaves one that has passed. *)
THEOREM DeadStayDead == OneMutex => (Spec => ExpiryFinal)
<1> SUFFICES ASSUME OneMutex PROVE Spec => ExpiryFinal
  OBVIOUS
<1> DEFINE A == \A i \in DOMAIN posts : posts'[i].exp <= posts[i].exp \/ posts'[i].exp < clock
           I == IInv /\ SameExpiry
<1>1. Init => I
  BY InvitesBegin DEF Init, SameExpiry
<1>2. I /\ [Next]_vars => I'
  BY InvitesStep, ExpiryStep
<1>3. I /\ [Next]_vars => [A]_vars
  BY WritersKeepExpiry
<1> HIDE DEF A, I
<1>4. Spec => [][A]_vars
  BY <1>1, <1>2, <1>3, PTL DEF Spec
<1> QED
  BY <1>4 DEF ExpiryFinal, A
=============================================================================
