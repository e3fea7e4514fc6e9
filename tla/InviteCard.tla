------------------------------ MODULE InviteCard ------------------------------
(* How a user answers an invitation to a voice room in the browser: on the  *)
(* card of the panel (audio_group_call.jsx, voiceInviteController.js) or on *)
(* the post in the channel (voice_invite_post.jsx). The card shows the last *)
(* invitation only and has one timer, every post has its own. Either sends  *)
(* its answer in a request whose outcome comes later, when the card may     *)
(* show another invitation. Operators on the card and on a post; VoiceLobby *)
(* sends the requests.                                                      *)
EXTENDS Naturals

CONSTANTS Invites, NoInvite

ASSUME CardAssumption == NoInvite \notin Invites

Decisions == {"accepted", "declined"}

Card == [shows : Invites \cup {NoInvite}, timer : Invites \cup {NoInvite},
         pending : BOOLEAN]
NoCard == [shows |-> NoInvite, timer |-> NoInvite, pending |-> FALSE]

Post == [submitting : BOOLEAN, local : Decisions \cup {"none"},
         seen : Decisions \cup {"pending"}, timed : BOOLEAN, expired : BOOLEAN]
NewPost == [submitting |-> FALSE, local |-> "none", seen |-> "pending",
            timed |-> TRUE, expired |-> FALSE]

-----------------------------------------------------------------------------
(* An invitation arrives: it takes the place of the card, with its timer    *)
(* and whatever was pending, unless it is too late.                         *)
Offered(card, i, late) ==
  IF late THEN card ELSE [shows |-> i, timer |-> i, pending |-> FALSE]

(* The timer of the card. *)
CardExpires(card) ==
  [card EXCEPT !.timer = NoInvite,
               !.shows = IF @ = card.timer THEN NoInvite ELSE @,
               !.pending = IF card.shows = card.timer THEN FALSE ELSE @]

(* A click on the card: what is too late is only taken away. *)
CardClicked(card, late) ==
  IF late THEN [card EXCEPT !.shows = NoInvite, !.timer = NoInvite]
  ELSE [card EXCEPT !.pending = TRUE]

(* An invitation was answered, here or on its post. *)
SettledAny(card, i) == NoCard
Settled(card, i) == IF card.shows = i THEN NoCard ELSE card

(* The answer was refused because the invitation is over: the card goes,    *)
(* whatever it shows by now. After another error it may be tried again.     *)
RefusedKeepsCard(card) == [card EXCEPT !.timer = NoInvite]
Refused(card) == NoCard
StuckAfterError(card) == card
TryAgain(card) == [card EXCEPT !.pending = FALSE]

-----------------------------------------------------------------------------
(* The buttons of a post are there while nobody answered, as far as it      *)
(* knows, and its time was not up when it was drawn.                        *)
Status(post) == IF post.local # "none" THEN post.local ELSE post.seen
CanRespond(post) ==
  ~post.submitting /\ Status(post) = "pending" /\ ~post.expired

PostExpires(post) == [post EXCEPT !.timed = FALSE, !.expired = TRUE]
PostClicked(post, late) ==
  IF late THEN [post EXCEPT !.expired = TRUE] ELSE [post EXCEPT !.submitting = TRUE]
PostAnsweredEitherWay(post, d, ok) ==
  [post EXCEPT !.submitting = FALSE, !.local = d, !.timed = FALSE]
PostAnswered(post, d, ok) ==
  IF ok THEN [post EXCEPT !.submitting = FALSE, !.local = d, !.timed = FALSE]
  ELSE [post EXCEPT !.submitting = FALSE]

(* The post was edited: the timer starts again or ends with the status. *)
PostEdited(post, status) == [post EXCEPT !.seen = status, !.timed = FALSE]
=============================================================================
