----------------------------- MODULE InvitePicker -----------------------------
(* The dialog of the panel in which a user searches for users to invite,    *)
(* and the menu of a room, one of which is open at most                     *)
(* (audio_group_call.jsx). Every keystroke asks the server anew; answers    *)
(* come in any order, and only that of the latest request is taken.         *)
(* Operators on the dialog; VoiceLobby sends the requests.                  *)
EXTENDS Naturals

CONSTANTS
  Terms,    \* texts long enough to search for
  NoTerm,   \* a text that is too short
  Menus,    \* what can have an open menu
  NoMenu

ASSUME PickerAssumption == NoTerm \notin Terms /\ NoMenu \notin Menus

(* The results of a search stand for its term; Failed for its failure. *)
Failed == "failed"
Picker == [open : BOOLEAN, term : Terms \cup {NoTerm},
           results : Terms \cup {NoTerm, Failed}, pending : BOOLEAN,
           inviting : BOOLEAN, menu : Menus \cup {NoMenu}]
NoPicker ==
  [open |-> FALSE, term |-> NoTerm, results |-> NoTerm, pending |-> FALSE,
   inviting |-> FALSE, menu |-> NoMenu]

(* A stay ends; another begins. *)
Reset(p) == [NoPicker EXCEPT !.menu = p.menu]
Entered == NoPicker

(* The buttons and the mouse outside. *)
Closed(p) == [NoPicker EXCEPT !.menu = p.menu]
Toggled(p) ==
  IF p.open THEN Closed(p)
  ELSE [NoPicker EXCEPT !.open = TRUE, !.inviting = p.inviting]

(* The menu of a room hides the dialog. *)
MenuToggled(p, r) ==
  [p EXCEPT !.menu = IF @ = r THEN NoMenu ELSE r, !.open = FALSE]
MenuLeft(p, r) == [p EXCEPT !.menu = IF @ = r THEN NoMenu ELSE @]

(* A text is typed: it is searched for if it is long enough. *)
Typed(p, term) ==
  [p EXCEPT !.term = term, !.results = NoTerm, !.pending = (term # NoTerm)]

(* An answer, to the latest request or to an earlier one. *)
FoundAnyway(p, results, latest) ==
  [p EXCEPT !.results = results, !.pending = FALSE]
Found(p, results, latest) ==
  IF latest THEN [p EXCEPT !.results = results, !.pending = FALSE] ELSE p

Inviting(p) == [p EXCEPT !.inviting = TRUE]
Invited(p) == [p EXCEPT !.inviting = FALSE]
=============================================================================
