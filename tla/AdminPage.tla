-------------------------------- MODULE AdminPage --------------------------------
(***************************************************************************)
(* admin.js: the editors' page.  It shows one content item with the buttons   *)
(* its user may press, and sends what they do about it.  Responses render     *)
(* again whenever they come: after another click, after the logout, after     *)
(* the next login.  The server is external: it accepts or refuses, and others *)
(* may have moved an item on.  Lists, labels and the second factor           *)
(* (SecondFactorDialog) are left out.                                       *)
(***************************************************************************)
EXTENDS Naturals

CONSTANTS LastRequest, LastLogin   \* bounds on what is under way at once

VARIABLES
  currentUser,       \* currentUser: the application panel is shown iff there is one
  selectedContent,   \* selectedContent, the item that the page's requests are about
  screen,            \* the selected panel: its item, its buttons, for whom they were made,
                     \* and whether no login panel has been shown since
  requests,          \* content, claim and account requests under way
  entering,          \* login forms submitted
  leaving,           \* whether a logout is under way
  boot               \* whether the /auth/me of loadApplication is

pageVars == <<currentUser, selectedContent, screen, requests, entering, leaving, boot>>

Users == {"owner", "editor"}
Nobody == "nobody"
NoItem == "none"
Statuses == {"draft", "reviewed", "published", "archived"}
Unsent == [kind |-> "none"]

(* ROLE_PERMISSIONS, as far as the page asks for them *)
Permissions(user) ==
  CASE user = "owner" ->
         {"content:write", "content:review", "content:publish", "claims:review", "users:manage"}
    [] user = "editor" -> {"content:write"}
    [] OTHER -> {}

(* addAction: the buttons of an item, each with the permission it takes *)
Actions ==
  {[from |-> "draft", target |-> "reviewed", permission |-> "content:review"],
   [from |-> "reviewed", target |-> "draft", permission |-> "content:write"],
   [from |-> "reviewed", target |-> "published", permission |-> "content:publish"],
   [from |-> "published", target |-> "archived", permission |-> "content:publish"],
   [from |-> "archived", target |-> "draft", permission |-> "content:write"]}

Offered(status, user) ==
  {act \in Actions : act.from = status /\ act.permission \in Permissions(user)}

Blank == [item |-> NoItem, buttons |-> {}, for |-> Nobody, current |-> TRUE]

(* The login panel is shown, and loadApplication asks who this is. *)
Init ==
  /\ currentUser = Nobody /\ selectedContent = NoItem /\ screen = Blank
  /\ requests = [r \in 1..LastRequest |-> Unsent]
  /\ entering = [l \in 1..LastLogin |-> Nobody]
  /\ leaving = FALSE /\ boot = TRUE

-----------------------------------------------------------------------------
(* What is shown                                                           *)

(* The selected panel is left as it is, in a panel that is hidden. *)
ShowLogin ==
  /\ currentUser' = Nobody
  /\ selectedContent' = NoItem
  /\ screen' = [screen EXCEPT !.current = FALSE]

ShowApp(user) ==
  /\ currentUser' = user
  /\ UNCHANGED <<selectedContent, screen>>

(* The item has the status that the response gives it. *)
RenderSelected(status) ==
  /\ selectedContent' = status
  /\ screen' = [item |-> status, buttons |-> Offered(status, currentUser), for |-> currentUser,
                current |-> TRUE]
  /\ UNCHANGED currentUser

shownNow == <<currentUser, selectedContent, screen>>

-----------------------------------------------------------------------------
(* Sessions                                                                *)

Booted ==
  /\ boot /\ boot' = FALSE
  /\ (\E u \in Users : ShowApp(u)) \/ ShowLogin \/ UNCHANGED shownNow
  /\ UNCHANGED <<requests, entering, leaving>>

(* The step-up dialog is modal: nothing under it can be clicked. *)
Clickable == \A r \in 1..LastRequest : requests[r].kind # "none" => requests[r].phase # "dialog"

(* The button of the form is not disabled while a login is under way. *)
SubmitLogin(l) ==
  /\ currentUser = Nobody /\ entering[l] = Nobody /\ Clickable
  /\ \E u \in Users : entering' = [entering EXCEPT ![l] = u]
  /\ UNCHANGED <<shownNow, requests, leaving, boot>>

LoginDone(l) ==
  /\ entering[l] # Nobody
  /\ ShowApp(entering[l]) \/ UNCHANGED shownNow
  /\ entering' = [entering EXCEPT ![l] = Nobody]
  /\ UNCHANGED <<requests, leaving, boot>>

ClickLogout ==
  /\ currentUser # Nobody /\ Clickable
  /\ leaving' = TRUE
  /\ UNCHANGED <<shownNow, requests, entering, boot>>

(* finally: whatever came of it; a second click is answered by itself. *)
LogoutDone ==
  /\ leaving /\ leaving' \in BOOLEAN
  /\ ShowLogin
  /\ UNCHANGED <<requests, entering, boot>>

-----------------------------------------------------------------------------
(* Requests                                                                *)

NewRequest(kind, act, sensitive) ==
  [kind |-> kind, action |-> act, for |-> screen.for, sensitive |-> sensitive, phase |-> "sent"]

NoAction == [from |-> NoItem, target |-> NoItem, permission |-> "none"]

Send(r, request) ==
  /\ currentUser # Nobody /\ Clickable /\ requests[r] = Unsent
  /\ requests' = [requests EXCEPT ![r] = request]
  /\ UNCHANGED <<shownNow, entering, leaving, boot>>

SelectContent(r) == Send(r, NewRequest("open", NoAction, FALSE))

(* Publishing and archiving go through sensitiveApi. *)
TransitionContent(r) ==
  /\ selectedContent # NoItem
  /\ \E act \in screen.buttons :
       Send(r, NewRequest("transition", act, act.target \in {"published", "archived"}))

(* The buttons of a claim remain on a panel nothing is selected in. *)
ReviewClaim(r) ==
  /\ screen.item # NoItem /\ "claims:review" \in Permissions(screen.for)
  /\ \E sensitive \in BOOLEAN : Send(r, NewRequest("review", NoAction, sensitive))

(* A source or a claim of the selected item, or a new item *)
SubmitForm(r) ==
  /\ "content:write" \in Permissions(currentUser)
  /\ \/ Send(r, NewRequest("create", NoAction, FALSE))
     \/ selectedContent # NoItem /\ Send(r, NewRequest("attach", NoAction, FALSE))

CreateUser(r) ==
  /\ "users:manage" \in Permissions(currentUser)
  /\ Send(r, NewRequest("account", NoAction, TRUE))

Close(r) == requests' = [requests EXCEPT ![r] = Unsent]

(* A refusal shows its message; one that asks for a step-up opens the dialog  *)
(* the first time.                                                         *)
Refused(r) ==
  /\ requests[r].kind # "none" /\ requests[r].phase \in {"sent", "again"}
  /\ \/ Close(r)
     \/ /\ requests[r].sensitive /\ requests[r].phase = "sent"
        /\ requests' = [requests EXCEPT ![r].phase = "dialog"]
  /\ UNCHANGED <<shownNow, entering, leaving, boot>>

(* requestStepUp: a wrong password leaves the dialog open. *)
StepUp(r) ==
  /\ requests[r].kind # "none" /\ requests[r].phase = "dialog"
  /\ Close(r) \/ requests' = [requests EXCEPT ![r].phase = "again"]
  /\ UNCHANGED <<shownNow, entering, leaving, boot>>

(* What is accepted is rendered, except that a reviewed claim opens the item   *)
(* that is selected by now, if there is one, and an account only its list.     *)
Accepted(r) ==
  /\ requests[r].kind # "none" /\ requests[r].phase \in {"sent", "again"}
  /\ CASE requests[r].kind = "account" -> Close(r) /\ UNCHANGED shownNow
       [] requests[r].kind = "review" ->
            /\ requests' = [requests EXCEPT ![r] =
                              IF selectedContent = NoItem THEN Unsent
                              ELSE NewRequest("open", NoAction, FALSE)]
            /\ UNCHANGED shownNow
       [] requests[r].kind = "transition" -> Close(r) /\ RenderSelected(requests[r].action.target)
       [] requests[r].kind = "create" -> Close(r) /\ RenderSelected("draft")
       [] OTHER -> Close(r) /\ \E status \in Statuses : RenderSelected(status)
  /\ UNCHANGED <<entering, leaving, boot>>

Step ==
  \/ Booted \/ ClickLogout \/ LogoutDone
  \/ \E l \in 1..LastLogin : SubmitLogin(l) \/ LoginDone(l)
  \/ \E r \in 1..LastRequest :
       \/ SelectContent(r) \/ TransitionContent(r) \/ ReviewClaim(r) \/ SubmitForm(r) \/ CreateUser(r)
       \/ Accepted(r) \/ Refused(r) \/ StepUp(r)

-----------------------------------------------------------------------------
(* Properties                                                              *)

TypeOK ==
  /\ currentUser \in Users \union {Nobody}
  /\ selectedContent \in Statuses \union {NoItem}
  /\ screen.item \in Statuses \union {NoItem} /\ screen.buttons \subseteq Actions
  /\ leaving \in BOOLEAN /\ boot \in BOOLEAN

(* However late a response renders, and whoever logs in next: the item that   *)
(* requests are about is the item on the page, with buttons that were made     *)
(* after the last login panel; and a transition under way, also one repeated   *)
(* after a step-up, was a button of the status then shown, made for somebody   *)
(* who may press it.                                                       *)
ButtonsOfWhatIsShown ==
  /\ selectedContent # NoItem => screen.item = selectedContent /\ screen.current
  /\ \A r \in 1..LastRequest :
       requests[r].kind = "transition" =>
         requests[r].action \in Offered(requests[r].action.from, requests[r].for)
==============================================================================
