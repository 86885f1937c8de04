---------------------------- MODULE SecondFactorDialog ----------------------------
(***************************************************************************)
(* mfa-bridge.js: it stands between the admin page and the network, and holds *)
(* the response of a login back until the second factor is settled: enrolled, *)
(* verified or not required.  The login button stays enabled, so that two     *)
(* logins may be under way; every request carries the cookie of its moment.   *)
(* The server (SecondFactor in AccountSessions) is external here.             *)
(***************************************************************************)
EXTENDS Naturals, Sequences

CONSTANTS
  Logins,        \* logins that may be under way together
  LastSession    \* bound on the sessions opened

VARIABLES
  required,      \* users who need a second factor, and
  enrolled,      \* those who have one
  pending,       \* those who started to enroll
  session,       \* sessions: their user, whether accepted, whether the factor was verified
  jar,           \* the browser's session cookie, or 0
  fetching,      \* each login: where it is, for whom, and the session of its last request
  dialogs        \* dialogs on the screen, the topmost first

bridgeVars == <<required, enrolled, pending, session, jar, fetching, dialogs>>

People == {"amal", "bob"}
Unborn == [user |-> "nobody", alive |-> FALSE, verified |-> FALSE]
Idle == [phase |-> "idle", user |-> "nobody", by |-> 0, enrolling |-> FALSE]

Init ==
  /\ required \in SUBSET People /\ enrolled \in SUBSET required /\ pending = {}
  /\ session = [s \in 1..LastSession |-> Unborn] /\ jar = 0
  /\ fetching = [l \in Logins |-> Idle] /\ dialogs = <<>>

At(l, phase) == fetching[l].phase = phase

Go(l, phase) == fetching' = [fetching EXCEPT ![l].phase = phase]

(* directApi: the request goes with the cookie of now. *)
Ask(l, phase) == fetching' = [fetching EXCEPT ![l].phase = phase, ![l].by = jar]

Open(l) == dialogs' = <<l>> \o dialogs
OnTop(l) == dialogs # <<>> /\ Head(dialogs) = l
CloseTop == dialogs' = Tail(dialogs)

(* The session that the request carries, if the server still accepts it *)
Accepted(l) == fetching[l].by # 0 /\ session[fetching[l].by].alive
Holder(l) == session[fetching[l].by].user

server == <<required, enrolled, pending, session, jar>>

-----------------------------------------------------------------------------
(* The wrapped fetch                                                       *)

Submit(l) ==
  /\ At(l, "idle") /\ dialogs = <<>>
  /\ \E u \in People : fetching' = [fetching EXCEPT ![l] = [Idle EXCEPT !.phase = "posted", !.user = u]]
  /\ UNCHANGED <<server, dialogs>>

(* A login that fails is passed on as it is. *)
LoginRefused(l) == At(l, "posted") /\ Go(l, "idle") /\ UNCHANGED <<server, dialogs>>

LoginAccepted(l) ==
  /\ At(l, "posted")
  /\ \E s \in 1..LastSession :
       /\ session[s] = Unborn /\ \A t \in 1..s - 1 : session[t] # Unborn
       /\ session' = [session EXCEPT ![s] = [user |-> fetching[l].user, alive |-> TRUE, verified |-> FALSE]]
       /\ jar' = s
  /\ Go(l, "accepted")
  /\ UNCHANGED <<required, enrolled, pending, dialogs>>

(* The cookie may be that of another login by now. *)
StatusAsked(l) == At(l, "accepted") /\ Ask(l, "status") /\ UNCHANGED <<server, dialogs>>

(* Whether the second factor is outstanding, as /auth/mfa/status says *)
Outstanding(l) == Holder(l) \in required /\ ~session[fetching[l].by].verified

StatusAnswered(l) ==
  /\ At(l, "status") /\ Accepted(l)
  /\ IF ~Outstanding(l) THEN Go(l, "ready") /\ UNCHANGED dialogs
     ELSE IF Holder(l) \in enrolled THEN Go(l, "code") /\ Open(l)
     ELSE Ask(l, "enroll") /\ UNCHANGED dialogs
  /\ UNCHANGED server

(* enrollMfa, with the password of the login *)
EnrollStarted(l) ==
  /\ At(l, "enroll") /\ Accepted(l) /\ Holder(l) = fetching[l].user /\ Holder(l) \notin enrolled
  /\ fetching' = [fetching EXCEPT ![l].phase = "secret", ![l].enrolling = TRUE] /\ Open(l)
  /\ pending' = pending \union {Holder(l)}
  /\ UNCHANGED <<required, enrolled, session, jar>>

Proceed(l) ==
  /\ At(l, "secret") /\ OnTop(l)
  /\ Go(l, "code")      \* its dialog is closed and the code's opened
  /\ UNCHANGED <<server, dialogs>>

EnterCode(l) ==
  /\ At(l, "code") /\ OnTop(l)
  /\ Ask(l, "checking") /\ CloseTop
  /\ UNCHANGED server

Cancel(l) ==
  /\ fetching[l].phase \in {"secret", "code"} /\ OnTop(l)
  /\ Ask(l, "cancel") /\ CloseTop
  /\ UNCHANGED server

(* The code is right: verify, or enroll/confirm, which also enrolls. *)
CodeTaken(l) ==
  /\ At(l, "checking") /\ Accepted(l)
  /\ Holder(l) \in IF fetching[l].enrolling THEN pending ELSE enrolled
  /\ session' = [session EXCEPT ![fetching[l].by].verified = TRUE]
  /\ enrolled' = enrolled \union {Holder(l)}
  /\ pending' = pending \ {Holder(l)}
  /\ UNCHANGED <<required, jar>>

CodeAccepted(l) ==
  /\ CodeTaken(l)
  /\ IF fetching[l].enrolling THEN Go(l, "codes") /\ Open(l) ELSE Go(l, "ready") /\ UNCHANGED dialogs

(* 401: a wrong code, or a session that the server has ended, which the page   *)
(* cannot tell apart and asks for another code; misses end the session.        *)
CodeRefused(l) ==
  /\ At(l, "checking") /\ Go(l, "code") /\ Open(l)
  /\ \/ UNCHANGED session
     \/ Accepted(l) /\ session' = [session EXCEPT ![fetching[l].by].alive = FALSE]
  /\ UNCHANGED <<required, enrolled, pending, jar>>

(* The recovery codes are shown until their reader says they are kept. *)
Acknowledge(l) ==
  /\ At(l, "codes") /\ OnTop(l)
  /\ Go(l, "ready") /\ CloseTop
  /\ UNCHANGED server

(* Any other failure ends the login; the request may have been served.        *)
Fails(l) ==
  /\ fetching[l].phase \in {"status", "enroll", "checking"}
  /\ Ask(l, "cancel")
  /\ UNCHANGED server \/ CodeTaken(l)
  /\ UNCHANGED dialogs

(* cancelPendingSession, at best; the page is answered 401. *)
Cancelled(l) ==
  /\ At(l, "cancel")
  /\ \/ /\ Accepted(l)
        /\ session' = [session EXCEPT ![fetching[l].by].alive = FALSE] /\ jar' = 0
     \/ UNCHANGED <<session, jar>>
  /\ fetching' = [fetching EXCEPT ![l] = Idle]
  /\ UNCHANGED <<required, enrolled, pending, dialogs>>

(* The response is handed to the page, which shows the application. *)
Deliver(l) ==
  /\ At(l, "ready")
  /\ fetching' = [fetching EXCEPT ![l] = Idle]
  /\ UNCHANGED <<server, dialogs>>

(* The server ends a session: expiry, or an administrator. *)
Expire ==
  /\ \E s \in 1..LastSession : session[s].alive /\ session' = [session EXCEPT ![s].alive = FALSE]
  /\ UNCHANGED <<required, enrolled, pending, jar, fetching, dialogs>>

Step ==
  \/ Expire
  \/ \E l \in Logins :
       \/ Submit(l) \/ LoginRefused(l) \/ LoginAccepted(l) \/ StatusAsked(l)
       \/ StatusAnswered(l) \/ EnrollStarted(l) \/ Proceed(l) \/ EnterCode(l) \/ Cancel(l) \/ CodeAccepted(l)
       \/ CodeRefused(l) \/ Acknowledge(l) \/ Fails(l) \/ Cancelled(l) \/ Deliver(l)

-----------------------------------------------------------------------------
(* Properties                                                              *)

TypeOK ==
  /\ required \subseteq People /\ enrolled \subseteq People
  /\ pending \subseteq People /\ jar \in 0..LastSession
  /\ \A l \in Logins : fetching[l].by \in 0..LastSession /\ fetching[l].enrolling \in BOOLEAN
  /\ dialogs \in Seq(Logins)

(* A login reaches the page only when the session its last request carried    *)
(* has its second factor behind it, or its user needs none; also when two      *)
(* logins share the one cookie, codes are refused or the session ends in the   *)
(* middle.  A dialog on the screen belongs to a login that waits for it.       *)
FactorSettled ==
  /\ \A l \in Logins :
       At(l, "ready") => session[fetching[l].by].verified \/ Holder(l) \notin required
  /\ \A l \in Logins :
       fetching[l].phase \in {"secret", "code", "codes"} <=> \E i \in DOMAIN dialogs : dialogs[i] = l
==============================================================================
