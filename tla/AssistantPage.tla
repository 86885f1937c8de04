------------------------------ MODULE AssistantPage ------------------------------
(***************************************************************************)
(* assistant.js: one page on which people log in, ask, log out and log in     *)
(* again while requests of before are still under way.  A request carries     *)
(* the cookie of its moment; its response may set or clear the cookie of      *)
(* another moment.  The server and the network are external.                *)
(***************************************************************************)
EXTENDS Naturals

CONSTANTS
  LastSession,          \* bound on the sessions opened, and
  LastAsk, LastLogout   \* on the questions and logouts

VARIABLES
  alive, holder,        \* sessions the server accepts, and their users
  cookie,               \* the browser's session, or 0
  panel, identity,      \* what the page shows, and state.user
  epoch, controller,    \* state.sessionEpoch, state.answerController
  result,               \* the answer that is shown
  login,                \* the login handler, and what /auth/me answered
  asks, logouts         \* the requests

vars == <<alive, holder, cookie, panel, identity, epoch, controller, result, login, asks, logouts>>

Users == {"amal", "bob"}
Nobody == "nobody"
NoAsk == [phase |-> "none"]
NoLogout == [phase |-> "none"]
Hidden == [by |-> Nobody, epoch |-> 0]

(* bootstrap, from a cookie of an earlier visit or without one *)
Init ==
  /\ cookie \in {0, 1} /\ alive = {cookie} \ {0}
  /\ holder = [s \in 1..LastSession |-> IF s = cookie THEN "amal" ELSE Nobody]
  /\ panel = (IF cookie = 1 THEN "assistant" ELSE "login")
  /\ identity = (IF cookie = 1 THEN "amal" ELSE Nobody)
  /\ epoch = 1 /\ controller = 0 /\ result = Hidden
  /\ login = [phase |-> "idle", user |-> Nobody]
  /\ asks = [a \in 1..LastAsk |-> NoAsk]
  /\ logouts = [l \in 1..LastLogout |-> NoLogout]

(* cancelAnswerRequest *)
Aborted == IF controller = 0 THEN asks ELSE [asks EXCEPT ![controller] = NoAsk]

ShowAuthenticated(user) ==
  /\ asks' = Aborted /\ controller' = 0
  /\ epoch' = epoch + 1 /\ identity' = user
  /\ panel' = "assistant" /\ UNCHANGED result

(* mutant: the result panel stays as it was *)
KeptResult(shownResult) == shownResult

Cleared(shownResult) == Hidden

ShowLoggedOut(kept) ==
  /\ asks' = kept /\ controller' = 0
  /\ epoch' = epoch + 1 /\ identity' = Nobody
  /\ panel' = "login" /\ result' = Cleared(result)

shown == <<panel, identity, epoch, controller, result>>

(* The server ends a session: expiry, or an administrator. *)
Expire ==
  /\ \E s \in alive : alive' = alive \ {s}
  /\ UNCHANGED <<holder, cookie, shown, login, asks, logouts>>

(* The login handler: its button is disabled until it is done. *)
LogIn ==
  /\ panel = "login" /\ login.phase = "idle"
  /\ \E u \in Users : login' = [phase |-> "posted", user |-> u]
  /\ UNCHANGED <<alive, holder, cookie, shown, asks, logouts>>

(* The response sets the cookie, unless the login failed; a session that      *)
(* still needs a second factor sends the browser to the admin page.          *)
LoginAnswered ==
  /\ login.phase = "posted"
  /\ \/ login' = [phase |-> "idle", user |-> Nobody] /\ UNCHANGED <<alive, holder, cookie, panel>>
     \/ \E s \in 1..LastSession :
          /\ holder[s] = Nobody /\ \A t \in 1..s - 1 : holder[t] # Nobody
          /\ holder' = [holder EXCEPT ![s] = login.user]
          /\ alive' = alive \union {s} /\ cookie' = s
          /\ \/ login' = [login EXCEPT !.phase = "me"] /\ UNCHANGED panel
             \/ login' = [phase |-> "idle", user |-> Nobody] /\ panel' = "left"
  /\ UNCHANGED <<identity, epoch, controller, result, asks, logouts>>

(* /auth/me is answered for the cookie that goes with it, and shown later. *)
MeServed ==
  /\ login.phase = "me"
  /\ login' = IF cookie \in alive THEN [phase |-> "welcome", user |-> holder[cookie]]
              ELSE [phase |-> "idle", user |-> Nobody]
  /\ UNCHANGED <<alive, holder, cookie, shown, asks, logouts>>

Welcome ==
  /\ login.phase = "welcome"
  /\ ShowAuthenticated(login.user)
  /\ login' = [phase |-> "idle", user |-> Nobody]
  /\ UNCHANGED <<alive, holder, cookie, logouts>>

(* A question aborts the one before it; without a cookie it is a 401.        *)
Ask(a) ==
  /\ panel = "assistant" /\ asks[a] = NoAsk /\ controller = 0
  /\ IF cookie = 0
     THEN ShowLoggedOut(asks)
     ELSE /\ asks' = [asks EXCEPT ![a] = [phase |-> "sent", by |-> cookie, epoch |-> epoch]]
          /\ controller' = a /\ result' = Hidden
          /\ UNCHANGED <<panel, identity, epoch>>
  /\ UNCHANGED <<alive, holder, cookie, login, logouts>>

AskServed(a) ==
  /\ asks[a].phase = "sent"
  /\ \E answer \in IF asks[a].by \in alive THEN {"answer", "forbidden", "other"} ELSE {"expired"} :
       asks' = [asks EXCEPT ![a].phase = answer]
  /\ UNCHANGED <<alive, holder, cookie, shown, login, logouts>>

StillCurrent(ask) == ask.epoch = epoch /\ identity # Nobody

(* What the question's handler does when its response arrives: an aborted     *)
(* one never does, one of an earlier epoch is dropped, a refusal ends the     *)
(* session on the page.                                                    *)
AskAnswered(a) ==
  /\ asks[a].phase \in {"answer", "forbidden", "other", "expired"}
  /\ IF asks[a].phase \in {"forbidden", "expired"} /\ StillCurrent(asks[a])
     THEN ShowLoggedOut([asks EXCEPT ![a] = NoAsk])
     ELSE /\ result' = IF asks[a].phase = "answer" /\ StillCurrent(asks[a])
                       THEN [by |-> holder[asks[a].by], epoch |-> asks[a].epoch] ELSE result
          /\ controller' = (IF controller = a THEN 0 ELSE controller)
          /\ asks' = [asks EXCEPT ![a] = NoAsk]
          /\ UNCHANGED <<panel, identity, epoch>>
  /\ UNCHANGED <<alive, holder, cookie, login, logouts>>

(* The logout button is never disabled, so that it may be clicked twice. *)
LogOut(l) ==
  /\ panel = "assistant" /\ logouts[l] = NoLogout
  /\ \A k \in 1..l - 1 : logouts[k] # NoLogout
  /\ logouts' = [logouts EXCEPT ![l] = [phase |-> "sent", of |-> cookie]]
  /\ asks' = Aborted /\ controller' = 0
  /\ UNCHANGED <<alive, holder, cookie, panel, identity, epoch, result, login>>

(* The network may lose the request, or its response. *)
LogoutServed(l) ==
  /\ logouts[l].phase = "sent"
  /\ \/ /\ alive' = alive \ {logouts[l].of}
        /\ logouts' = [logouts EXCEPT ![l].phase = IF logouts[l].of \in alive THEN "revoked" ELSE "expired"]
     \/ /\ alive' \in {alive, alive \ {logouts[l].of}}
        /\ logouts' = [logouts EXCEPT ![l].phase = "lost"]
  /\ UNCHANGED <<holder, cookie, shown, login, asks>>

(* Success clears the cookie, whichever it is by now; a 401 shows the session *)
(* as ended, and any other failure says that it is still there.              *)
LogoutAnswered(l) ==
  /\ logouts[l].phase \in {"revoked", "expired", "lost"}
  /\ cookie' = IF logouts[l].phase = "revoked" THEN 0 ELSE cookie
  /\ IF logouts[l].phase = "lost" THEN UNCHANGED <<shown, asks>> ELSE ShowLoggedOut(Aborted)
  /\ logouts' = [logouts EXCEPT ![l].phase = "over"]
  /\ UNCHANGED <<alive, holder, login>>

Step ==
  \/ panel # "left" /\ (LogIn \/ LoginAnswered \/ MeServed \/ Welcome)
  \/ panel # "left" /\ \E a \in 1..LastAsk : Ask(a) \/ AskAnswered(a)
  \/ panel # "left" /\ \E l \in 1..LastLogout : LogOut(l) \/ LogoutAnswered(l)
  \/ Expire \/ (\E a \in 1..LastAsk : AskServed(a)) \/ \E l \in 1..LastLogout : LogoutServed(l)

-----------------------------------------------------------------------------
(* Properties                                                              *)

TypeOK ==
  /\ cookie \in 0..LastSession /\ alive \subseteq 1..LastSession
  /\ holder \in [1..LastSession -> Users \union {Nobody}]
  /\ panel \in {"assistant", "login", "left"} /\ identity \in Users \union {Nobody}
  /\ epoch \in Nat /\ controller \in 0..LastAsk
  /\ login.phase \in {"idle", "posted", "me", "welcome"}

(* However late a response comes, what the page shows belongs together: the   *)
(* answer to the user it names and to the time since they logged in, that     *)
(* user to the cookie their questions carry, and nothing to a page that asks  *)
(* for a login.                                                            *)
OneUserAtATime ==
  /\ panel = "login" => result = Hidden /\ identity = Nobody
  /\ result # Hidden => result.by = identity /\ result.epoch = epoch
  /\ panel = "assistant" /\ cookie # 0 => holder[cookie] = identity
==============================================================================
