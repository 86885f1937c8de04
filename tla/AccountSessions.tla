--------------------------- MODULE AccountSessions ---------------------------
(***************************************************************************)
(* One account, its sessions and its second factor (auth.py, routes_auth.py,*)
(* routes_mfa.py, mfa.py, and update_user of routes_admin.py) on            *)
(* PostgreSQL.  A request authenticates without locks, locks the user row   *)
(* and then the session row, reading both anew, and commits.  Time counts   *)
(* TOTP periods.                                                            *)
(***************************************************************************)
EXTENDS Integers, Sequences

CONSTANTS
  Workers,                \* requests in progress at a time
  Sessions,               \* the sessions the account may ever have
  RequireMfa,             \* settings.require_mfa_for_privileged
  MaxFailures,            \* settings.login_max_failures
  SessionTtl, StepUpTtl, EnrollmentTtl, LockTtl,
  CodeCount,              \* recovery codes per batch (10 in the code)
  MaxNow, MaxSecrets, MaxBatches, MaxEpoch, MaxMisses,    \* bounds of the model
  NoWorker, NoSession

ASSUME AccountAssumption ==
  /\ RequireMfa \in BOOLEAN
  /\ MaxFailures \in Nat \ {0}
  /\ SessionTtl \in Nat /\ StepUpTtl \in Nat /\ EnrollmentTtl \in Nat /\ LockTtl \in Nat
  /\ CodeCount \in Nat
  /\ MaxNow \in Nat /\ MaxSecrets \in Nat /\ MaxBatches \in Nat
  /\ MaxEpoch \in Nat /\ MaxMisses \in Nat
  /\ NoWorker \notin Workers /\ NoSession \notin Sessions

VARIABLES
  now,
  user,           \* the users row
  sessions,       \* the admin_sessions rows
  recovery,       \* the unused mfa_recovery_codes rows
  issued,         \* how many secrets and batches of codes were ever generated
  userLock, sessionLock,      \* the requests that hold the rows
  req,
  accepted,       \* history: the codes that were accepted
  misses          \* history: the wrong factors since the last right one

vars == <<now, user, sessions, recovery, issued, userLock, sessionLock, req, accepted, misses>>

NoSecret == 0
NoCounter == -1
TOTP_WINDOW == 1

(* epoch counts the security changes: it names the password, role and       *)
(* activation that are in force.                                            *)
Accounts == [active : BOOLEAN, privileged : BOOLEAN, epoch : Nat]
Lockouts == [failed : Nat, until : Nat]
Factors == [secret : Nat, counter : Int]      \* the last counter that was accepted
Pendings == [secret : Nat, until : Nat]
UserRows == [account : Accounts, lockout : Lockouts, factor : Factors, pending : Pendings]

NoLockout == [failed |-> 0, until |-> 0]
NoFactor == [secret |-> NoSecret, counter |-> NoCounter]
NoPending == [secret |-> NoSecret, until |-> 0]

SessionRows ==
  [issued : BOOLEAN, revoked : BOOLEAN, expires : Nat, elevatedUntil : Nat,
   verified : BOOLEAN, epoch : Nat]

Unissued == [issued |-> FALSE, revoked |-> FALSE, expires |-> 0, elevatedUntil |-> 0,
             verified |-> FALSE, epoch |-> 0]

TotpCodes == [kind : {"totp"}, secret : Nat, counter : Nat]
RecoveryCodes == [kind : {"recovery"}, batch : Nat, index : 1..CodeCount]
Codes == TotpCodes \union RecoveryCodes

MfaOps == {"start", "confirm", "verify", "regenerate", "disable", "cancel"}
AuthOps == {"step_up", "logout"}
AdminOps == {"login", "update"}             \* act on the account, not within a session
Ops == MfaOps \union AuthOps \union AdminOps

PrincipalOps == {"step_up", "logout", "regenerate", "disable"}   \* behind get_principal
SensitiveOps == {"regenerate", "disable"}      \* behind require_sensitive_mutation
SessionOnlyOps == {"logout", "cancel"}         \* lock no user row

Idle == [phase |-> "idle"]

NewUser(privileged) ==
  [account |-> [active |-> TRUE, privileged |-> privileged, epoch |-> 0],
   lockout |-> NoLockout, factor |-> NoFactor, pending |-> NoPending]

Init ==
  /\ now = 0
  /\ \E privileged \in BOOLEAN : user = NewUser(privileged)
  /\ sessions = [s \in Sessions |-> Unissued]
  /\ recovery = {}
  /\ issued = [secrets |-> 0, batches |-> 0]
  /\ userLock = NoWorker
  /\ sessionLock = [s \in Sessions |-> NoWorker]
  /\ req = [w \in Workers |-> Idle]
  /\ accepted = <<>>
  /\ misses = 0

Tick ==
  /\ now < MaxNow
  /\ now' = now + 1
  /\ UNCHANGED <<user, sessions, recovery, issued, userLock, sessionLock, req, accepted, misses>>

-----------------------------------------------------------------------------
(* Authentication and locking                                              *)

mfa_required_for_user == user.factor.secret # NoSecret \/ (RequireMfa /\ user.account.privileged)

Live(row) == row.issued /\ ~row.revoked
Expired(row) == row.expires <= now
Elevated(row) == row.elevatedUntil > now

Authenticated(s, op) ==
  /\ Live(sessions[s]) /\ ~Expired(sessions[s]) /\ user.account.active
  /\ op \in PrincipalOps /\ mfa_required_for_user => sessions[s].verified
  /\ op \in SensitiveOps => Elevated(sessions[s])

Begin(w, op, s) ==
  /\ req[w].phase = "idle"
  /\ IF op \in AdminOps THEN s = NoSession ELSE s \in Sessions /\ Authenticated(s, op)
  /\ req' = [req EXCEPT ![w] = [phase |-> "new", op |-> op, session |-> s]]
  /\ UNCHANGED <<now, user, sessions, recovery, issued, userLock, sessionLock, accepted, misses>>

(* get_base_principal revokes a session it finds expired or idle for too    *)
(* long; last_seen_at is not tracked, so any session may be idle.           *)
FindStale(s) ==
  /\ Live(sessions[s]) /\ user.account.active
  /\ sessionLock[s] = NoWorker
  /\ sessions' = [sessions EXCEPT ![s].revoked = TRUE]
  /\ UNCHANGED <<now, user, recovery, issued, userLock, sessionLock, req, accepted, misses>>

(* mutant: SELECT without FOR UPDATE *)
ReadUserUnlocked(w) == UNCHANGED userLock

TakeUserLock(w) == userLock = NoWorker /\ userLock' = w

(* _lock_user, and the locking reads of login and update_user. *)
LockUser(w) ==
  /\ req[w].phase = "new" /\ req[w].op \notin SessionOnlyOps
  /\ TakeUserLock(w)
  /\ req' = [req EXCEPT ![w] = [phase |-> IF req[w].op \in AdminOps THEN "ready" ELSE "user",
                                op |-> req[w].op, session |-> req[w].session,
                                user |-> user, row |-> Unissued]]
  /\ UNCHANGED <<now, user, sessions, recovery, issued, sessionLock, accepted, misses>>

(* _lock_session; routes_mfa's _lock_user has refused an inactive user by now. *)
LockSession(w) ==
  LET s == req[w].session IN
  /\ \/ req[w].phase = "user" /\ (req[w].op \in MfaOps => req[w].user.account.active)
     \/ req[w].phase = "new" /\ req[w].op \in SessionOnlyOps
  /\ sessionLock[s] = NoWorker
  /\ sessionLock' = [sessionLock EXCEPT ![s] = w]
  /\ req' = [req EXCEPT ![w] = [phase |-> "ready", op |-> req[w].op, session |-> s,
                                user |-> IF req[w].phase = "user" THEN req[w].user
                                         ELSE NewUser(FALSE),      \* not looked at
                                row |-> sessions[s]]]
  /\ UNCHANGED <<now, user, sessions, recovery, issued, userLock, accepted, misses>>

Finish(w) ==
  /\ req' = [req EXCEPT ![w] = Idle]
  /\ userLock' = IF userLock = w THEN NoWorker ELSE userLock
  /\ sessionLock' = [s \in Sessions |-> IF sessionLock[s] = w THEN NoWorker ELSE sessionLock[s]]

(* A refusal, a failed decryption or a lost connection rolls back. *)
RollBack(w) ==
  /\ req[w].phase # "idle"
  /\ Finish(w)
  /\ UNCHANGED <<now, user, sessions, recovery, issued, accepted, misses>>

-----------------------------------------------------------------------------
(* What the handlers write.  Each is a commit: w holds its locks, decides    *)
(* on the rows it read under them, and lets go.                              *)

Doing(w, op) == req[w].phase = "ready" /\ req[w].op = op

(* mutant: the session is not read again once it is locked *)
AdmittedAsAuthenticated(w) == req[w].row.issued

Admitted(w) == Live(req[w].row)

Proceeds(w) == Admitted(w) /\ req[w].user.account.active /\ ~Expired(req[w].row)

Unlocked(row) == [row EXCEPT !.lockout = NoLockout]

min(a, b) == IF a < b THEN a ELSE b

RecoveryGone == {}

(* The codes of a batch. *)
NewRecoveryCodes(b) == [kind : {"recovery"}, batch : {b}, index : 1..CodeCount]

(* _replace_recovery_codes *)
ReplaceRecoveryCodes ==
  /\ issued.batches < MaxBatches
  /\ recovery' = NewRecoveryCodes(issued.batches + 1)

(* A session that turns out to be expired, or whose user is inactive, is     *)
(* revoked on the spot.  logout alone does not look.                         *)
RevokeExpired(w) ==
  /\ req[w].phase = "ready" /\ req[w].op \in (MfaOps \union {"step_up"})
  /\ Admitted(w) /\ ~Proceeds(w)
  /\ req[w].op # "step_up" => Expired(req[w].row)
  /\ sessions' = [sessions EXCEPT ![req[w].session].revoked = TRUE]
  /\ UNCHANGED <<user, recovery, issued, accepted, misses>>

(* The audit row refers to the user: its foreign key waits for the user row, *)
(* which the others hold already.                                           *)
EndSession(w) ==
  /\ \/ Doing(w, "logout") /\ Admitted(w)
     \/ Doing(w, "cancel") /\ Admitted(w) /\ ~Expired(req[w].row)
  /\ userLock = NoWorker
  /\ sessions' = [sessions EXCEPT ![req[w].session].revoked = TRUE]
  /\ UNCHANGED <<user, recovery, issued, accepted, misses>>

(* The request has come to the point where it checks a password or a code.   *)
ChecksFactor(w) ==
  /\ req[w].phase = "ready" /\ Proceeds(w)
  /\ \/ Doing(w, "step_up")
     \/ Doing(w, "start") /\ req[w].user.factor.secret = NoSecret
     \/ Doing(w, "confirm") /\ req[w].user.pending.secret # NoSecret /\ req[w].user.pending.until > now
     \/ Doing(w, "verify") /\ req[w].user.factor.secret # NoSecret

(* _record_failed_factor, and its twin in step_up. *)
WrongFactor(w) ==
  LET failed == req[w].user.lockout.failed + 1
      locks == failed >= MaxFailures IN
  /\ ChecksFactor(w)
  /\ misses < MaxMisses
  /\ misses' = misses + 1
  /\ user' = [user EXCEPT !.lockout = IF locks THEN [failed |-> 0, until |-> now + LockTtl]
                                              ELSE [@ EXCEPT !.failed = failed]]
  /\ sessions' = IF locks THEN [sessions EXCEPT ![req[w].session].revoked = TRUE] ELSE sessions
  /\ UNCHANGED <<recovery, issued, accepted>>

StepUp(w) ==
  /\ Doing(w, "step_up") /\ ChecksFactor(w)
  /\ user' = Unlocked(user)
  /\ sessions' = [sessions EXCEPT ![req[w].session].elevatedUntil =
                    min(now + StepUpTtl, req[w].row.expires)]
  /\ misses' = 0
  /\ UNCHANGED <<recovery, issued, accepted>>

StartEnrollment(w) ==
  /\ Doing(w, "start") /\ ChecksFactor(w)
  /\ issued.secrets < MaxSecrets
  /\ issued' = [issued EXCEPT !.secrets = @ + 1]
  /\ user' = [user EXCEPT !.pending = [secret |-> issued.secrets + 1, until |-> now + EnrollmentTtl]]
  /\ UNCHANGED <<sessions, recovery, accepted, misses>>

ForgetEnrollment(w) ==
  /\ Doing(w, "confirm") /\ Proceeds(w)
  /\ req[w].user.pending.secret # NoSecret /\ req[w].user.pending.until <= now
  /\ user' = [user EXCEPT !.pending = NoPending]
  /\ UNCHANGED <<sessions, recovery, issued, accepted, misses>>

(* mutant: the counter that was accepted last is accepted again *)
NotYetUsed(counter, last) == counter >= last

AfterLast(counter, last) == counter > last

(* verify_totp: the counters that a code of this secret may have now.        *)
verify_totp(last) ==
  {counter \in (now - TOTP_WINDOW)..(now + TOTP_WINDOW) : counter >= 0 /\ AfterLast(counter, last)}

(* mutant: the pending secret stays *)
EnrolledStillPending(row, counter) ==
  [account |-> row.account, lockout |-> NoLockout, pending |-> row.pending,
   factor |-> [secret |-> row.pending.secret, counter |-> counter]]

(* A confirmed enrolment leaves no pending one. *)
Enrolled(row, counter) ==
  [account |-> row.account, lockout |-> NoLockout, pending |-> NoPending,
   factor |-> [secret |-> row.pending.secret, counter |-> counter]]

ConfirmEnrollment(w) ==
  /\ Doing(w, "confirm") /\ ChecksFactor(w)
  /\ \E counter \in verify_totp(NoCounter) :
       /\ user' = Enrolled(user, counter)
       /\ accepted' = Append(accepted, [kind |-> "totp", secret |-> user.pending.secret,
                                         counter |-> counter])
  /\ ReplaceRecoveryCodes
  /\ issued' = [issued EXCEPT !.batches = @ + 1]
  /\ sessions' = [sessions EXCEPT ![req[w].session].verified = TRUE]
  /\ misses' = 0

VerifyFactor(w) ==
  /\ Doing(w, "verify") /\ ChecksFactor(w)
  /\ \/ \E counter \in verify_totp(req[w].user.factor.counter) :
          /\ user' = [Unlocked(user) EXCEPT !.factor.counter = counter]
          /\ accepted' = Append(accepted, [kind |-> "totp", secret |-> req[w].user.factor.secret,
                                           counter |-> counter])
          /\ UNCHANGED recovery
     \/ \E code \in recovery :
          /\ user' = Unlocked(user)
          /\ recovery' = recovery \ {code}
          /\ accepted' = Append(accepted, code)
  /\ sessions' = [sessions EXCEPT ![req[w].session].verified = TRUE]
  /\ misses' = 0
  /\ UNCHANGED issued

RegenerateCodes(w) ==
  /\ Doing(w, "regenerate") /\ Proceeds(w)
  /\ Elevated(req[w].row) /\ req[w].row.verified /\ req[w].user.factor.secret # NoSecret
  /\ ReplaceRecoveryCodes
  /\ issued' = [issued EXCEPT !.batches = @ + 1]
  /\ UNCHANGED <<user, sessions, accepted, misses>>

(* mutant: the policy is forgotten *)
NeverMandatory(row) == FALSE

Mandatory(row) == RequireMfa /\ row.account.privileged

DisableMfa(w) ==
  /\ Doing(w, "disable") /\ Proceeds(w)
  /\ Elevated(req[w].row) /\ req[w].row.verified /\ ~Mandatory(req[w].user)
  /\ user' = [user EXCEPT !.factor = NoFactor, !.pending = NoPending]
  /\ recovery' = RecoveryGone
  /\ sessions' = [sessions EXCEPT ![req[w].session].verified = FALSE]
  /\ UNCHANGED <<issued, accepted, misses>>

NewSession(epoch) ==
  [issued |-> TRUE, revoked |-> FALSE, expires |-> now + SessionTtl, elevatedUntil |-> 0,
   verified |-> FALSE, epoch |-> epoch]

(* A login with the right password; one with a wrong password is a matter of *)
(* the login throttle and leaves the account alone.                          *)
Login(w) ==
  /\ Doing(w, "login")
  /\ req[w].user.account.active /\ req[w].user.lockout.until <= now
  /\ user' = Unlocked(user)
  /\ \E s \in Sessions :
       /\ ~sessions[s].issued
       /\ sessions' = [sessions EXCEPT ![s] = NewSession(req[w].user.account.epoch)]
  /\ misses' = 0
  /\ UNCHANGED <<recovery, issued, accepted>>

(* _revoke_sessions: the UPDATE waits for the rows that are locked. *)
RevokedSessions == [s \in Sessions |->
  IF Live(sessions[s]) THEN [sessions[s] EXCEPT !.revoked = TRUE] ELSE sessions[s]]

(* update_user with a new role, activation or password. *)
UpdateUser(w) ==
  /\ Doing(w, "update")
  /\ user.account.epoch < MaxEpoch
  /\ \E privileged \in BOOLEAN, active \in BOOLEAN :
       user' = [user EXCEPT !.account = [active |-> active, privileged |-> privileged,
                                         epoch |-> user.account.epoch + 1]]
  /\ \A s \in Sessions : Live(sessions[s]) => sessionLock[s] = NoWorker
  /\ sessions' = RevokedSessions
  /\ UNCHANGED <<recovery, issued, accepted, misses>>

Commit(w) ==
  /\ \/ RevokeExpired(w) \/ EndSession(w) \/ WrongFactor(w) \/ StepUp(w)
     \/ StartEnrollment(w) \/ ForgetEnrollment(w) \/ ConfirmEnrollment(w)
     \/ VerifyFactor(w) \/ RegenerateCodes(w) \/ DisableMfa(w)
     \/ Login(w) \/ UpdateUser(w)
  /\ Finish(w)
  /\ UNCHANGED now

Next ==
  \/ Tick
  \/ \E s \in Sessions : FindStale(s)
  \/ \E w \in Workers :
       \/ \E op \in Ops, s \in Sessions \union {NoSession} : Begin(w, op, s)
       \/ LockUser(w)
       \/ LockSession(w)
       \/ Commit(w)
       \/ RollBack(w)

Spec == Init /\ [][Next]_vars

-----------------------------------------------------------------------------
(* Properties                                                              *)

SessionOps == Ops \ AdminOps

Requests ==
  {Idle}
  \union [phase : {"new"}, op : AdminOps, session : {NoSession}]
  \union [phase : {"new"}, op : SessionOps, session : Sessions]
  \union [phase : {"user"}, op : SessionOps \ SessionOnlyOps, session : Sessions,
          user : UserRows, row : SessionRows]
  \union [phase : {"ready"}, op : AdminOps, session : {NoSession},
          user : UserRows, row : SessionRows]
  \union [phase : {"ready"}, op : SessionOps, session : Sessions,
          user : UserRows, row : SessionRows]

TypeOK ==
  /\ now \in Nat
  /\ user \in UserRows
  /\ sessions \in [Sessions -> SessionRows]
  /\ recovery \in SUBSET RecoveryCodes
  /\ issued \in [secrets : Nat, batches : Nat]
  /\ userLock \in Workers \union {NoWorker}
  /\ sessionLock \in [Sessions -> Workers \union {NoWorker}]
  /\ req \in [Workers -> Requests]
  /\ accepted \in Seq(Codes)
  /\ misses \in Nat

(* routes_mfa.py:284, "closes same-code replay races": however requests      *)
(* overlap, no one-time or recovery code is ever accepted a second time.     *)
CodesAcceptedOnce ==
  \A i, j \in 1..Len(accepted) : i # j => accepted[i] # accepted[j]

(* PERFECT-MASTER-2026.md, section 2, "security-sensitive user changes       *)
(* revoke active sessions": a live session was always opened under the       *)
(* password, role and activation that are in force now, also when the login  *)
(* overlapped the change.                                                    *)
LiveSessionsCurrent ==
  \A s \in Sessions : Live(sessions[s]) => sessions[s].epoch = user.account.epoch

(* A revoked session is never used again: a request it had in flight gains   *)
(* it neither elevation nor verification nor its life back.                  *)
RevokedIsFinal ==
  [][\A s \in Sessions : sessions[s].revoked => sessions'[s] = sessions[s]]_vars

(* Recovery codes belong to an active factor, and an enrolment is pending    *)
(* only while there is none, so that confirming one never replaces a factor. *)
FactorCoherent ==
  /\ recovery # {} => user.factor.secret # NoSecret
  /\ user.pending.secret # NoSecret => user.factor.secret = NoSecret

(* Every wrong factor counts toward the lock, also when two are judged at    *)
(* the same time.                                                            *)
EveryMissCounts == user.lockout.failed = misses % MaxFailures

(* README.md:80: a role for which MFA is mandatory never loses its factor,   *)
(* also when the role changes while the factor is being removed.             *)
MandatoryFactorKept ==
  [][user.factor.secret # NoSecret /\ user'.factor.secret = NoSecret =>
       ~(RequireMfa /\ user.account.privileged)]_vars
==============================================================================
