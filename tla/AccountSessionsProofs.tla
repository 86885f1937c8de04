------------------------ MODULE AccountSessionsProofs ------------------------
(***************************************************************************)
(* What TLAPS proves of AccountSessions, for any number of requests and    *)
(* sessions and any length of every period: the user lock makes each       *)
(* handler decide on the rows as they are, and from that follow the        *)
(* replay, revocation and enrolment guarantees.                            *)
(***************************************************************************)
EXTENDS AccountSessions, TLAPS

-----------------------------------------------------------------------------
(* Types                                                                   *)

(* A request under way has an operation, and a session to do it in. *)
LEMMA BusyFacts ==
  ASSUME TypeOK, NEW w \in Workers, req[w].phase # "idle"
  PROVE  /\ req[w].phase \in {"new", "user", "ready"} /\ req[w].op \in Ops
         /\ req[w].op \in AdminOps => req[w].session = NoSession
         /\ req[w].op \notin AdminOps => req[w].session \in Sessions
         /\ req[w].phase = "user" => req[w].op \notin (AdminOps \union SessionOnlyOps)
  BY DEF TypeOK, Requests, SessionOps, Idle, Ops, AdminOps, MfaOps, AuthOps

(* A request that has taken a lock has read both rows. *)
LEMMA ReadFacts ==
  ASSUME TypeOK, NEW w \in Workers, req[w].phase \in {"user", "ready"}
  PROVE  req[w].user \in UserRows /\ req[w].row \in SessionRows
  BY DEF TypeOK, Requests, Idle

(* Letting go keeps the requests and the locks well typed. *)
LEMMA FinishType ==
  ASSUME TypeOK, NEW w \in Workers, Finish(w)
  PROVE  /\ req' \in [Workers -> Requests] /\ userLock' \in Workers \union {NoWorker}
         /\ sessionLock' \in [Sessions -> Workers \union {NoWorker}]
  BY DEF TypeOK, Finish, Requests

(* A commit ends a request that was ready. *)
LEMMA CommitFacts ==
  ASSUME NEW w \in Workers, Commit(w)
  PROVE  req[w].phase = "ready" /\ Finish(w) /\ now' = now
  BY DEF Commit, RevokeExpired, EndSession, WrongFactor, StepUp, StartEnrollment,
     ForgetEnrollment, ConfirmEnrollment, VerifyFactor, RegenerateCodes, DisableMfa, Login,
     UpdateUser, Doing, ChecksFactor

(* Changing one session keeps them all well typed. *)
LEMMA RevokedType ==
  ASSUME TypeOK, NEW s \in Sessions PROVE [sessions EXCEPT ![s].revoked = TRUE] \in [Sessions -> SessionRows]
  BY DEF TypeOK, SessionRows

LEMMA VerifiedType ==
  ASSUME TypeOK, NEW s \in Sessions, NEW b \in BOOLEAN
  PROVE  [sessions EXCEPT ![s].verified = b] \in [Sessions -> SessionRows]
  BY DEF TypeOK, SessionRows

LEMMA ElevatedType ==
  ASSUME TypeOK, NEW s \in Sessions, NEW n \in Nat
  PROVE  [sessions EXCEPT ![s].elevatedUntil = n] \in [Sessions -> SessionRows]
  BY DEF TypeOK, SessionRows

(* What the helpers on the users row return. *)
LEMMA UnlockedType ==
  ASSUME NEW u \in UserRows PROVE Unlocked(u) \in UserRows
  BY DEF UserRows, Lockouts, Unlocked, NoLockout

LEMMA EnrolledType ==
  ASSUME NEW u \in UserRows, NEW c \in Int PROVE Enrolled(u, c) \in UserRows
  BY DEF UserRows, Lockouts, Factors, Pendings, Enrolled, NoLockout, NoPending, NoSecret

LEMMA CountedType ==
  ASSUME NEW u \in UserRows, NEW c \in Int PROVE [u EXCEPT !.factor.counter = c] \in UserRows
  BY DEF UserRows, Factors

LEMMA NewUserType == ASSUME NEW b \in BOOLEAN PROVE NewUser(b) \in UserRows
  BY DEF NewUser, UserRows, Accounts, Lockouts, Factors, Pendings, NoLockout, NoFactor,
     NoPending, NoSecret, NoCounter

(* The handlers that act within a session. *)
InSession(w) ==
  \/ RevokeExpired(w) \/ EndSession(w) \/ WrongFactor(w) \/ StepUp(w)
  \/ StartEnrollment(w) \/ ForgetEnrollment(w) \/ ConfirmEnrollment(w)
  \/ VerifyFactor(w) \/ RegenerateCodes(w) \/ DisableMfa(w)

(* They have one. *)
LEMMA InSessionFacts ==
  ASSUME TypeOK, NEW w \in Workers, InSession(w)
  PROVE  req[w].session \in Sessions /\ req[w].op \in SessionOps
<1>1. req[w].phase = "ready" /\ req[w].op \in Ops /\ req[w].op \notin AdminOps
  BY DEF InSession, RevokeExpired, EndSession, WrongFactor, StepUp, StartEnrollment,
     ForgetEnrollment, ConfirmEnrollment, VerifyFactor, RegenerateCodes, DisableMfa, Doing,
     ChecksFactor, Ops, AdminOps, MfaOps, AuthOps
<1> QED
  BY <1>1, BusyFacts DEF SessionOps

(* Every handler keeps the rows well typed. *)
LEMMA HandlerType ==
  ASSUME TypeOK, NEW w \in Workers, Commit(w)
  PROVE  /\ user' \in UserRows /\ sessions' \in [Sessions -> SessionRows]
         /\ recovery' \in SUBSET RecoveryCodes /\ issued' \in [secrets : Nat, batches : Nat]
         /\ accepted' \in Seq(Codes) /\ misses' \in Nat
<1>0. /\ now \in Nat /\ user \in UserRows /\ sessions \in [Sessions -> SessionRows]
      /\ recovery \in SUBSET RecoveryCodes /\ issued \in [secrets : Nat, batches : Nat]
      /\ accepted \in Seq(Codes) /\ misses \in Nat
      /\ req[w].user \in UserRows /\ req[w].row \in SessionRows
  BY CommitFacts, ReadFacts DEF TypeOK
<1>s. InSession(w) => req[w].session \in Sessions
  BY InSessionFacts
<1>a. /\ SessionTtl \in Nat /\ StepUpTtl \in Nat /\ EnrollmentTtl \in Nat /\ LockTtl \in Nat
  BY AccountAssumption
<1>e. /\ [issued EXCEPT !.secrets = @ + 1] \in [secrets : Nat, batches : Nat]
      /\ [issued EXCEPT !.batches = @ + 1] \in [secrets : Nat, batches : Nat]
  BY <1>0
<1>1. CASE RevokeExpired(w)
  BY <1>0, <1>s, <1>1, RevokedType DEF RevokeExpired, InSession
<1>2. CASE EndSession(w)
  BY <1>0, <1>s, <1>2, RevokedType DEF EndSession, InSession
<1>3. CASE WrongFactor(w)
  <2>1. user' \in UserRows
    <3>1. req[w].user.lockout.failed + 1 \in Nat /\ now + LockTtl \in Nat
      BY <1>0, <1>a DEF UserRows, Lockouts
    <3>2. PICK l \in Lockouts : user' = [user EXCEPT !.lockout = l]
      BY <1>0, <1>3, <3>1 DEF WrongFactor, UserRows, Lockouts
    <3> QED
      BY <1>0, <3>2 DEF UserRows
  <2>2. sessions' \in [Sessions -> SessionRows]
    BY <1>0, <1>s, <1>3, RevokedType DEF WrongFactor, InSession
  <2> QED
    BY <1>0, <1>3, <2>1, <2>2 DEF WrongFactor
<1>4. CASE StepUp(w)
  <2>1. min(now + StepUpTtl, req[w].row.expires) \in Nat
    BY <1>0, <1>a DEF min, SessionRows
  <2> QED
    BY <1>0, <1>s, <1>4, <2>1, ElevatedType, UnlockedType DEF StepUp, InSession
<1>5. CASE StartEnrollment(w)
  <2>1. [secret |-> issued.secrets + 1, until |-> now + EnrollmentTtl] \in Pendings
    BY <1>0, <1>a DEF Pendings
  <2>2. user' \in UserRows
    BY <1>0, <1>5, <2>1 DEF StartEnrollment, UserRows
  <2> QED
    BY <1>0, <1>5, <1>e, <2>2 DEF StartEnrollment
<1>6. CASE ForgetEnrollment(w)
  BY <1>0, <1>6 DEF ForgetEnrollment, UserRows, Pendings, NoPending, NoSecret
<1>b. \A c \in verify_totp(NoCounter) : c \in Nat
  BY <1>0 DEF verify_totp, TOTP_WINDOW
<1>c. \A c \in verify_totp(req[w].user.factor.counter) : c \in Nat
  BY <1>0 DEF verify_totp, TOTP_WINDOW
<1>d. ReplaceRecoveryCodes => recovery' \in SUBSET RecoveryCodes
  BY <1>0 DEF ReplaceRecoveryCodes, NewRecoveryCodes, RecoveryCodes
<1>7. CASE ConfirmEnrollment(w)
  <2>1. PICK c \in Nat : /\ user' = Enrolled(user, c)
                         /\ accepted' = Append(accepted, [kind |-> "totp", secret |-> user.pending.secret,
                                                          counter |-> c])
    BY <1>7, <1>b DEF ConfirmEnrollment
  <2>2. [kind |-> "totp", secret |-> user.pending.secret, counter |-> c] \in Codes
    BY <1>0 DEF Codes, TotpCodes, UserRows, Factors, Pendings
  <2>3. user' \in UserRows
    BY <1>0, <2>1, EnrolledType
  <2>4. accepted' \in Seq(Codes)
    BY <1>0, <2>1, <2>2
  <2> QED
    BY <1>0, <1>s, <1>7, <1>d, <1>e, <2>3, <2>4, VerifiedType DEF ConfirmEnrollment, InSession
<1>8. CASE VerifyFactor(w)
  <2>1. user' \in UserRows /\ recovery' \in SUBSET RecoveryCodes /\ accepted' \in Seq(Codes)
    <3>1. ASSUME NEW c \in verify_totp(req[w].user.factor.counter),
                 user' = [Unlocked(user) EXCEPT !.factor.counter = c],
                 accepted' = Append(accepted, [kind |-> "totp", secret |-> req[w].user.factor.secret,
                                               counter |-> c]),
                 recovery' = recovery
          PROVE  user' \in UserRows /\ recovery' \in SUBSET RecoveryCodes /\ accepted' \in Seq(Codes)
      <4>1. [kind |-> "totp", secret |-> req[w].user.factor.secret, counter |-> c] \in Codes
        BY <1>0, <1>c DEF Codes, TotpCodes, UserRows, Factors, Pendings
      <4>2. c \in Int
        BY <1>c
      <4> QED
        BY <1>0, <3>1, <4>1, <4>2, UnlockedType, CountedType
    <3>2. ASSUME NEW code \in recovery, user' = Unlocked(user), recovery' = recovery \ {code},
                 accepted' = Append(accepted, code)
          PROVE  user' \in UserRows /\ recovery' \in SUBSET RecoveryCodes /\ accepted' \in Seq(Codes)
      <4>1. code \in Codes
        BY <1>0 DEF Codes
      <4>2. Unlocked(user) \in UserRows
        BY <1>0 DEF UserRows, Unlocked, Lockouts, NoLockout
      <4> QED
        BY <1>0, <3>2, <4>1, <4>2
    <3> QED
      BY <1>8, <3>1, <3>2 DEF VerifyFactor
  <2> QED
    BY <1>0, <1>s, <1>8, <2>1, VerifiedType DEF VerifyFactor, InSession
<1>9. CASE RegenerateCodes(w)
  BY <1>0, <1>d, <1>e, <1>9 DEF RegenerateCodes
<1>10. CASE DisableMfa(w)
  <2>1. user' \in UserRows
    <3>1. NoFactor \in Factors /\ NoPending \in Pendings
      BY DEF NoFactor, Factors, NoPending, Pendings, NoSecret, NoCounter
    <3> QED
      BY <1>0, <1>10, <3>1 DEF DisableMfa, UserRows
  <2> QED
    BY <1>0, <1>s, <1>10, <2>1, VerifiedType DEF DisableMfa, RecoveryGone, InSession
<1>11. CASE Login(w)
  <2>1. user' \in UserRows
    BY <1>0, <1>11 DEF Login, UserRows, Unlocked, Lockouts, NoLockout
  <2>2. NewSession(req[w].user.account.epoch) \in SessionRows
    BY <1>0, <1>a DEF NewSession, SessionRows, UserRows, Accounts
  <2> QED
    BY <1>0, <1>11, <2>1, <2>2 DEF Login
<1>12. CASE UpdateUser(w)
  <2>1. user' \in UserRows
    BY <1>0, <1>12, SMTT(20) DEF UpdateUser, UserRows, Accounts
  <2>2. sessions' \in [Sessions -> SessionRows]
    BY <1>0, <1>12 DEF UpdateUser, RevokedSessions, SessionRows
  <2> QED
    BY <1>0, <1>12, <2>1, <2>2 DEF UpdateUser
<1> QED
  BY <1>1, <1>2, <1>3, <1>4, <1>5, <1>6, <1>7, <1>8, <1>9, <1>10, <1>11, <1>12 DEF Commit

(* Every step keeps every variable in its type. *)
LEMMA TypeStep == TypeOK /\ [Next]_vars => TypeOK'
<1> SUFFICES ASSUME TypeOK, [Next]_vars PROVE TypeOK'
  OBVIOUS
<1>1. CASE Tick
  BY <1>1 DEF Tick, TypeOK
<1>2. ASSUME NEW s \in Sessions, FindStale(s) PROVE TypeOK'
  BY <1>2, RevokedType DEF FindStale, TypeOK
<1>3. ASSUME NEW w \in Workers, NEW op \in Ops, NEW s \in Sessions \union {NoSession},
             Begin(w, op, s)
      PROVE  TypeOK'
  <2>1. [phase |-> "new", op |-> op, session |-> s] \in Requests
    BY <1>3 DEF Begin, Requests, SessionOps
  <2> QED
    BY <1>3, <2>1 DEF Begin, TypeOK
<1>4. ASSUME NEW w \in Workers, LockUser(w) PROVE TypeOK'
  <2>1. Unissued \in SessionRows /\ user \in UserRows
    BY DEF Unissued, SessionRows, TypeOK
  <2>2. /\ req[w].op \in Ops /\ req[w].op \notin SessionOnlyOps
        /\ req[w].op \in AdminOps => req[w].session = NoSession
        /\ req[w].op \notin AdminOps => req[w].session \in Sessions
    BY <1>4, BusyFacts DEF LockUser
  <2>3. [phase |-> IF req[w].op \in AdminOps THEN "ready" ELSE "user", op |-> req[w].op,
         session |-> req[w].session, user |-> user, row |-> Unissued] \in Requests
    BY <2>1, <2>2 DEF Requests, SessionOps
  <2> QED
    BY <1>4, <2>3 DEF LockUser, TakeUserLock, TypeOK
<1>5. ASSUME NEW w \in Workers, LockSession(w) PROVE TypeOK'
  <2>1. NewUser(FALSE) \in UserRows
    BY NewUserType
  <2>2. /\ req[w].op \in Ops /\ req[w].op \notin AdminOps /\ req[w].session \in Sessions
    BY <1>5, BusyFacts DEF LockSession, SessionOnlyOps, AdminOps
  <2>3. req[w].phase = "user" => req[w].user \in UserRows
    BY ReadFacts
  <2>4. sessions[req[w].session] \in SessionRows
    BY <2>2 DEF TypeOK
  <2>5. sessionLock' \in [Sessions -> Workers \union {NoWorker}]
    BY <1>5, <2>2 DEF LockSession, TypeOK
  <2>6. [phase |-> "ready", op |-> req[w].op, session |-> req[w].session,
         user |-> IF req[w].phase = "user" THEN req[w].user ELSE NewUser(FALSE),
         row |-> sessions[req[w].session]] \in Requests
    BY <2>1, <2>2, <2>3, <2>4 DEF Requests, SessionOps
  <2> QED
    BY <1>5, <2>5, <2>6 DEF LockSession, TypeOK
<1>6. ASSUME NEW w \in Workers, Commit(w) PROVE TypeOK'
  BY <1>6, CommitFacts, HandlerType, FinishType DEF TypeOK
<1>7. ASSUME NEW w \in Workers, RollBack(w) PROVE TypeOK'
  BY <1>7, FinishType DEF RollBack, TypeOK
<1>8. CASE UNCHANGED vars
  BY <1>8 DEF vars, TypeOK
<1> QED
  BY <1>1, <1>2, <1>3, <1>4, <1>5, <1>6, <1>7, <1>8 DEF Next

(* The account is new and nobody is logged in. *)
LEMMA TypeInit == Init => TypeOK
<1> SUFFICES ASSUME Init PROVE TypeOK
  OBVIOUS
<1>1. user \in UserRows
  BY NewUserType DEF Init
<1>2. sessions \in [Sessions -> SessionRows]
  BY DEF Init, Unissued, SessionRows
<1>3. req \in [Workers -> Requests] /\ accepted \in Seq(Codes)
  BY DEF Init, Requests
<1> QED
  BY <1>1, <1>2, <1>3 DEF Init, TypeOK

(* Every variable keeps its type. *)
THEOREM TypeCorrect == Spec => []TypeOK
  BY TypeInit, TypeStep, PTL DEF Spec

-----------------------------------------------------------------------------
(* What the locks guarantee                                                *)

(* A request that has locked a row has read what the row is now.  A session *)
(* that was never opened is blank, and requests only come from open ones.   *)
Held ==
  /\ \A w \in Workers :
       req[w].phase \in {"user", "ready"} /\ req[w].op \notin SessionOnlyOps =>
         userLock = w /\ req[w].user = user
  /\ \A w \in Workers :
       req[w].phase = "ready" /\ req[w].op \in SessionOps =>
         sessionLock[req[w].session] = w /\ req[w].row = sessions[req[w].session]
  /\ \A w \in Workers :
       req[w].phase # "idle" /\ req[w].op \in SessionOps => sessions[req[w].session].issued
  /\ \A s \in Sessions : ~sessions[s].issued => sessions[s] = Unissued

(* A handler within a session changes that session alone, which is live, and *)
(* neither opens it nor changes what it was opened under.                    *)
LEMMA InSessionChange ==
  ASSUME TypeOK, Held, NEW w \in Workers, InSession(w)
  PROVE  LET s == req[w].session IN
         /\ \A t \in Sessions : t # s => sessions'[t] = sessions[t]
         /\ sessions'[s].issued = sessions[s].issued /\ sessions'[s].epoch = sessions[s].epoch
         /\ sessions' # sessions => Live(sessions[s]) /\ sessionLock[s] = w
<1> DEFINE s == req[w].session
<1>0. s \in Sessions /\ req[w].op \in SessionOps
  BY InSessionFacts
<1>1. \/ sessions' = sessions
      \/ sessions' = [sessions EXCEPT ![s].revoked = TRUE]
      \/ sessions' = [sessions EXCEPT ![s].verified = TRUE]
      \/ sessions' = [sessions EXCEPT ![s].verified = FALSE]
      \/ \E n : sessions' = [sessions EXCEPT ![s].elevatedUntil = n]
  BY DEF InSession, RevokeExpired, EndSession, WrongFactor, StepUp, StartEnrollment,
     ForgetEnrollment, ConfirmEnrollment, VerifyFactor, RegenerateCodes, DisableMfa
<1>2. Admitted(w) /\ req[w].phase = "ready"
  BY DEF InSession, RevokeExpired, EndSession, WrongFactor, StepUp, StartEnrollment,
     ForgetEnrollment, ConfirmEnrollment, VerifyFactor, RegenerateCodes, DisableMfa,
     ChecksFactor, Proceeds, Doing
<1>3. Live(sessions[s]) /\ sessionLock[s] = w
  BY <1>0, <1>2 DEF Held, Admitted
<1>4. \A t \in Sessions : t # s => sessions'[t] = sessions[t]
  BY <1>0, <1>1 DEF TypeOK
<1>5. sessions'[s].issued = sessions[s].issued /\ sessions'[s].epoch = sessions[s].epoch
  BY <1>0, <1>1, ZenonT(40) DEF TypeOK, SessionRows
<1> QED
  BY <1>3, <1>4, <1>5

(* Whatever commits, a session it changes was not revoked, is open           *)
(* afterwards, and is held by nobody else.                                   *)
LEMMA SessionChange ==
  ASSUME TypeOK, Held, NEW w \in Workers, Commit(w), NEW t \in Sessions
  PROVE  /\ sessions[t].issued => sessions'[t].issued
         /\ ~sessions'[t].issued => sessions'[t] = sessions[t]
         /\ sessions'[t] # sessions[t] =>
              /\ ~sessions[t].revoked
              /\ \A v \in Workers \ {w} :
                   req[v].phase = "ready" /\ req[v].op \in SessionOps => req[v].session # t
<1>1. CASE InSession(w)
  <2>1. /\ req[w].session \in Sessions
        /\ t # req[w].session => sessions'[t] = sessions[t]
        /\ t = req[w].session =>
             /\ sessions'[t].issued = sessions[t].issued
             /\ sessions'[t] # sessions[t] => Live(sessions[t]) /\ sessionLock[t] = w
    BY <1>1, InSessionFacts, InSessionChange
  <2>2. ~sessions'[t].issued => sessions'[t] = sessions[t]
    BY <2>1 DEF Live
  <2> QED
    BY <2>1, <2>2 DEF Held, Live
<1>2. CASE Login(w)
  <2>1. PICK s \in Sessions : /\ ~sessions[s].issued
                              /\ sessions' = [sessions EXCEPT ![s] =
                                               NewSession(req[w].user.account.epoch)]
    BY <1>2 DEF Login
  <2>2. t # s => sessions'[t] = sessions[t]
    BY <2>1 DEF TypeOK
  <2>3. t = s => sessions'[t].issued /\ ~sessions[t].revoked
    BY <2>1 DEF TypeOK, Held, NewSession, Unissued
  <2>4. \A v \in Workers : req[v].phase = "ready" /\ req[v].op \in SessionOps => req[v].session # s
    BY <2>1 DEF Held
  <2> QED
    BY <2>1, <2>2, <2>3, <2>4
<1>3. CASE UpdateUser(w)
  <2>1. sessions'[t] = IF Live(sessions[t]) THEN [sessions[t] EXCEPT !.revoked = TRUE]
                                            ELSE sessions[t]
    BY <1>3 DEF UpdateUser, RevokedSessions
  <2>2. sessions[t] \in SessionRows
    BY DEF TypeOK
  <2>3. sessions'[t].issued = sessions[t].issued
    BY <2>1, <2>2 DEF SessionRows
  <2>4. sessions'[t] # sessions[t] => Live(sessions[t]) /\ sessionLock[t] = NoWorker
    BY <1>3, <2>1 DEF UpdateUser
  <2>5. ~sessions'[t].issued => sessions'[t] = sessions[t]
    BY <2>1, <2>3 DEF Live
  <2> QED
    BY <2>3, <2>4, <2>5, AccountAssumption DEF Held, Live
<1> QED
  BY <1>1, <1>2, <1>3 DEF Commit, InSession

(* Only the holder of the user row changes it, and its codes and secrets.    *)
LEMMA UserChange ==
  ASSUME TypeOK, Held, NEW w \in Workers, Commit(w)
  PROVE  \/ userLock = w /\ req[w].user = user
         \/ UNCHANGED <<user, recovery, issued, accepted>>
<1>1. req[w].phase = "ready" /\ req[w].op \in Ops
  BY CommitFacts, BusyFacts
<1>2. CASE req[w].op \notin SessionOnlyOps
  BY <1>1, <1>2 DEF Held
<1>3. CASE req[w].op \in SessionOnlyOps
  <2>1. RevokeExpired(w) \/ EndSession(w)
    BY <1>3 DEF Commit, WrongFactor, StepUp, StartEnrollment, ForgetEnrollment,
       ConfirmEnrollment, VerifyFactor, RegenerateCodes, DisableMfa, Login, UpdateUser, Doing,
       ChecksFactor, SessionOnlyOps
  <2> QED
    BY <2>1 DEF RevokeExpired, EndSession
<1> QED
  BY <1>2, <1>3

(* Letting go gives up the locks of w and of nobody else. *)
LEMMA FinishFacts ==
  ASSUME TypeOK, NEW w \in Workers, Finish(w)
  PROVE  /\ req'[w].phase = "idle"
         /\ \A v \in Workers \ {w} : /\ req'[v] = req[v]
                                     /\ userLock = v => userLock' = v
                                     /\ \A s \in Sessions : sessionLock[s] = v => sessionLock'[s] = v
  BY DEF Finish, TypeOK, Idle

(* The locks keep the rows that were read up to date. *)
LEMMA HeldStep == TypeOK /\ Held /\ [Next]_vars => Held'
<1> SUFFICES ASSUME TypeOK, Held, [Next]_vars PROVE Held'
  OBVIOUS
<1>1. CASE Tick
  BY <1>1 DEF Tick, Held
<1>2. ASSUME NEW s \in Sessions, FindStale(s) PROVE Held'
  <2>1. /\ \A t \in Sessions : t # s => sessions'[t] = sessions[t]
        /\ sessions'[s].issued /\ sessions[s].issued /\ sessionLock[s] = NoWorker
        /\ UNCHANGED <<user, userLock, sessionLock, req>>
    BY <1>2 DEF FindStale, Live, TypeOK, SessionRows
  <2>2. \A w \in Workers : req[w].phase # "idle" /\ req[w].op \in SessionOps =>
                             req[w].session \in Sessions
    BY BusyFacts DEF SessionOps
  <2> QED
    BY <2>1, <2>2, AccountAssumption DEF Held
<1>3. ASSUME NEW w \in Workers, NEW op \in Ops, NEW s \in Sessions \union {NoSession},
             Begin(w, op, s)
      PROVE  Held'
  <2>1. /\ req' = [req EXCEPT ![w] = [phase |-> "new", op |-> op, session |-> s]]
        /\ op \in SessionOps => sessions[s].issued
        /\ UNCHANGED <<user, sessions, userLock, sessionLock>>
    BY <1>3 DEF Begin, Authenticated, Live, SessionOps
  <2>2. req'[w] = [phase |-> "new", op |-> op, session |-> s]
    BY <2>1 DEF TypeOK
  <2>3. \A v \in Workers \ {w} : req'[v] = req[v]
    BY <2>1 DEF TypeOK
  <2> QED
    BY <2>1, <2>2, <2>3 DEF Held
<1>4. ASSUME NEW w \in Workers, LockUser(w) PROVE Held'
  <2>1. /\ userLock = NoWorker /\ userLock' = w
        /\ req' = [req EXCEPT ![w] = [phase |-> IF req[w].op \in AdminOps THEN "ready" ELSE "user",
                                      op |-> req[w].op, session |-> req[w].session,
                                      user |-> user, row |-> Unissued]]
        /\ req[w].phase = "new" /\ UNCHANGED <<user, sessions, sessionLock>>
    BY <1>4 DEF LockUser, TakeUserLock
  <2>2. /\ req'[w].phase = IF req[w].op \in AdminOps THEN "ready" ELSE "user"
        /\ req'[w].op = req[w].op /\ req'[w].session = req[w].session /\ req'[w].user = user
    BY <2>1 DEF TypeOK
  <2>3. \A v \in Workers \ {w} : req'[v] = req[v]
    BY <2>1 DEF TypeOK
  <2>4. \A v \in Workers : v # NoWorker
    BY AccountAssumption
  <2> QED
    BY <2>1, <2>2, <2>3, <2>4 DEF Held, SessionOps
<1>5. ASSUME NEW w \in Workers, LockSession(w) PROVE Held'
  <2> DEFINE s == req[w].session
  <2>0. s \in Sessions /\ req[w].phase \in {"new", "user"}
    BY <1>5, BusyFacts DEF LockSession, SessionOnlyOps, AdminOps
  <2>1. /\ sessionLock[s] = NoWorker /\ sessionLock' = [sessionLock EXCEPT ![s] = w]
        /\ req[w].phase = "new" => req[w].op \in SessionOnlyOps
        /\ UNCHANGED <<user, sessions, userLock>>
    BY <1>5, <2>0 DEF LockSession
  <2>2. /\ req'[w].phase = "ready" /\ req'[w].op = req[w].op /\ req'[w].session = s
        /\ req[w].phase = "user" => req'[w].user = req[w].user
        /\ req'[w].row = sessions[s]
    BY <1>5 DEF LockSession, TypeOK
  <2>3. \A v \in Workers \ {w} : req'[v] = req[v]
    BY <1>5 DEF LockSession, TypeOK
  <2>4. sessionLock'[s] = w /\ \A t \in Sessions \ {s} : sessionLock'[t] = sessionLock[t]
    BY <2>0, <2>1 DEF TypeOK
  <2>5. \A v \in Workers : /\ v # NoWorker
                           /\ req[v].phase = "ready" /\ req[v].op \in SessionOps =>
                                req[v].session \in Sessions
    BY AccountAssumption, BusyFacts DEF SessionOps
  <2> QED
    BY <2>0, <2>1, <2>2, <2>3, <2>4, <2>5 DEF Held
<1>6. ASSUME NEW w \in Workers, Commit(w) PROVE Held'
  <2>1. /\ req'[w].phase = "idle"
        /\ \A v \in Workers \ {w} : /\ req'[v] = req[v]
                                    /\ userLock = v => userLock' = v
                                    /\ \A s \in Sessions : sessionLock[s] = v => sessionLock'[s] = v
    BY <1>6, CommitFacts, FinishFacts
  <2>2. \A v \in Workers \ {w} : req[v].phase # "idle" /\ req[v].op \in SessionOps =>
                                   req[v].session \in Sessions
    BY BusyFacts DEF SessionOps
  <2>3. \A v \in Workers \ {w} : userLock = v => user' = user
    BY <1>6, UserChange
  <2>4. \A v \in Workers \ {w} :
          req[v].phase = "ready" /\ req[v].op \in SessionOps =>
            sessions'[req[v].session] = sessions[req[v].session]
    BY <1>6, <2>2, SessionChange
  <2>5. \A s \in Sessions : /\ sessions[s].issued => sessions'[s].issued
                            /\ ~sessions'[s].issued => sessions'[s] = sessions[s]
    BY <1>6, SessionChange
  <2>6. \A v \in Workers :
          req'[v].phase \in {"user", "ready"} /\ req'[v].op \notin SessionOnlyOps =>
            userLock' = v /\ req'[v].user = user'
    BY <2>1, <2>3 DEF Held
  <2>7. \A v \in Workers :
          req'[v].phase = "ready" /\ req'[v].op \in SessionOps =>
            sessionLock'[req'[v].session] = v /\ req'[v].row = sessions'[req'[v].session]
    BY <2>1, <2>2, <2>4 DEF Held
  <2>8. \A v \in Workers :
          req'[v].phase # "idle" /\ req'[v].op \in SessionOps => sessions'[req'[v].session].issued
    BY <2>1, <2>2, <2>5 DEF Held
  <2>9. \A s \in Sessions : ~sessions'[s].issued => sessions'[s] = Unissued
    BY <2>5 DEF Held
  <2> QED
    BY <2>6, <2>7, <2>8, <2>9 DEF Held
<1>7. ASSUME NEW w \in Workers, RollBack(w) PROVE Held'
  <2>1. /\ req'[w].phase = "idle"
        /\ \A v \in Workers \ {w} : /\ req'[v] = req[v]
                                    /\ userLock = v => userLock' = v
                                    /\ \A s \in Sessions : sessionLock[s] = v => sessionLock'[s] = v
        /\ UNCHANGED <<user, sessions>>
    BY <1>7, FinishFacts DEF RollBack
  <2>2. \A v \in Workers \ {w} : req[v].phase # "idle" /\ req[v].op \in SessionOps =>
                                   req[v].session \in Sessions
    BY BusyFacts DEF SessionOps
  <2> QED
    BY <2>1, <2>2 DEF Held
<1>8. CASE UNCHANGED vars
  BY <1>8 DEF vars, Held
<1> QED
  BY <1>1, <1>2, <1>3, <1>4, <1>5, <1>6, <1>7, <1>8 DEF Next

LEMMA HeldInit == Init => Held
  BY DEF Init, Held, Idle

(* A revoked session is final, however a request that was under way when it  *)
(* was revoked goes on.                                                      *)
THEOREM RevokedStaysRevoked == Spec => RevokedIsFinal
<1>1. TypeOK /\ Held /\ [Next]_vars =>
        [\A s \in Sessions : sessions[s].revoked => sessions'[s] = sessions[s]]_vars
  <2> SUFFICES ASSUME TypeOK, Held, [Next]_vars, NEW s \in Sessions, sessions[s].revoked
               PROVE  sessions'[s] = sessions[s]
    OBVIOUS
  <2>1. ASSUME NEW w \in Workers, Commit(w) PROVE sessions'[s] = sessions[s]
    BY <2>1, SessionChange
  <2>2. ASSUME NEW t \in Sessions, FindStale(t) PROVE sessions'[s] = sessions[s]
    BY <2>2 DEF FindStale, Live, TypeOK
  <2>3. CASE UNCHANGED sessions
    BY <2>3
  <2> QED
    BY <2>1, <2>2, <2>3 DEF Next, vars, Tick, Begin, LockUser, LockSession, RollBack
<1> QED
  BY <1>1, TypeInit, TypeStep, HeldInit, HeldStep, PTL DEF Spec, RevokedIsFinal

(* A session that a commit leaves live was opened under what is in force     *)
(* after it.                                                                 *)
LEMMA CurrentCommit ==
  ASSUME TypeOK, Held, LiveSessionsCurrent, NEW w \in Workers, Commit(w)
  PROVE  LiveSessionsCurrent'
<1> SUFFICES ASSUME NEW t \in Sessions, Live(sessions'[t])
             PROVE  sessions'[t].epoch = user'.account.epoch
  BY DEF LiveSessionsCurrent, Live
<1>0. user \in UserRows /\ sessions[t] \in SessionRows
  BY DEF TypeOK
<1>1. CASE InSession(w)
  <2>1. user'.account = user.account
    <3>1. /\ Unlocked(user).account = user.account
          /\ \A c : Enrolled(user, c).account = user.account
          /\ \A c : [Unlocked(user) EXCEPT !.factor.counter = c].account = user.account
      BY <1>0 DEF Enrolled, Unlocked, UserRows
    <3>2. CASE ConfirmEnrollment(w) \/ VerifyFactor(w) \/ StepUp(w)
      <4>1. \/ user' = Unlocked(user)
            \/ \E c : user' = Enrolled(user, c)
            \/ \E c : user' = [Unlocked(user) EXCEPT !.factor.counter = c]
        BY <3>2 DEF ConfirmEnrollment, VerifyFactor, StepUp
      <4> QED
        BY <3>1, <4>1
    <3>3. CASE WrongFactor(w) \/ StartEnrollment(w) \/ ForgetEnrollment(w) \/ DisableMfa(w)
      BY <1>0, <3>3 DEF WrongFactor, StartEnrollment, ForgetEnrollment, DisableMfa, UserRows
    <3>4. CASE RevokeExpired(w) \/ EndSession(w) \/ RegenerateCodes(w)
      BY <3>4 DEF RevokeExpired, EndSession, RegenerateCodes
    <3> QED
      BY <1>1, <3>2, <3>3, <3>4 DEF InSession
  <2>2. sessions'[t].epoch = sessions[t].epoch
    BY <1>1, InSessionChange
  <2>3. sessions'[t] = sessions[t] \/ Live(sessions[t])
    BY <1>1, InSessionChange
  <2> QED
    BY <2>1, <2>2, <2>3 DEF LiveSessionsCurrent, Live
<1>2. CASE Login(w)
  <2>1. user'.account = user.account
    BY <1>0, <1>2 DEF Login, Unlocked, UserRows
  <2>2. req[w].user = user
    BY <1>2, BusyFacts DEF Login, Doing, Held, SessionOnlyOps
  <2>3. \/ sessions'[t] = sessions[t]
        \/ sessions'[t] = NewSession(user.account.epoch)
    BY <1>2, <2>2 DEF Login, TypeOK
  <2> QED
    BY <2>1, <2>3 DEF LiveSessionsCurrent, NewSession
<1>3. CASE UpdateUser(w)
  BY <1>0, <1>3 DEF UpdateUser, RevokedSessions, Live, SessionRows
<1> QED
  BY <1>1, <1>2, <1>3 DEF Commit, InSession

(* After a change of password, role or activation no session opened before   *)
(* it is live, not even one whose login overlapped the change.               *)
THEOREM SessionsFollowTheAccount == Spec => []LiveSessionsCurrent
<1>1. Init => LiveSessionsCurrent
  BY DEF Init, LiveSessionsCurrent, Live, Unissued
<1>2. TypeOK /\ Held /\ LiveSessionsCurrent /\ [Next]_vars => LiveSessionsCurrent'
  <2> SUFFICES ASSUME TypeOK, Held, LiveSessionsCurrent, [Next]_vars PROVE LiveSessionsCurrent'
    OBVIOUS
  <2>1. ASSUME NEW w \in Workers, Commit(w) PROVE LiveSessionsCurrent'
    BY <2>1, CurrentCommit
  <2>2. ASSUME NEW t \in Sessions, FindStale(t) PROVE LiveSessionsCurrent'
    <3>1. \A s \in Sessions : sessions'[s] = sessions[s] \/ sessions'[s].revoked
      BY <2>2 DEF FindStale, TypeOK, SessionRows
    <3> QED
      BY <2>2, <3>1 DEF FindStale, LiveSessionsCurrent, Live
  <2>3. CASE UNCHANGED <<user, sessions>>
    BY <2>3 DEF LiveSessionsCurrent
  <2> QED
    BY <2>1, <2>2, <2>3 DEF Next, vars, Tick, Begin, LockUser, LockSession, RollBack
<1> QED
  BY <1>1, <1>2, TypeInit, TypeStep, HeldInit, HeldStep, PTL DEF Spec

-----------------------------------------------------------------------------
(* The second factor                                                       *)

(* What a handler may do to the factor, the pending enrolment, the recovery  *)
(* codes and the log of accepted codes.                                      *)
FactorSteps(w) ==
  LET old == user.factor.secret
      new == user'.factor
  IN
  \/ /\ new = user.factor /\ user'.pending \in {user.pending, NoPending}     \* anything else
     /\ UNCHANGED <<recovery, issued, accepted>>
  \/ /\ old = NoSecret /\ new = user.factor                                  \* StartEnrollment
     /\ user'.pending.secret = issued.secrets + 1
     /\ issued'.secrets = issued.secrets + 1 /\ issued'.batches = issued.batches
     /\ UNCHANGED <<recovery, accepted>>
  \/ /\ user.pending.secret # NoSecret /\ new.secret = user.pending.secret   \* ConfirmEnrollment
     /\ new.counter \in Nat /\ user'.pending = NoPending
     /\ issued'.secrets = issued.secrets /\ issued'.batches = issued.batches + 1
     /\ recovery' = NewRecoveryCodes(issued.batches + 1)
     /\ accepted' = Append(accepted, [kind |-> "totp", secret |-> new.secret,
                                      counter |-> new.counter])
  \/ /\ old # NoSecret /\ new.secret = old /\ new.counter \in Nat            \* VerifyFactor
     /\ new.counter > user.factor.counter
     /\ user'.pending = user.pending /\ UNCHANGED <<recovery, issued>>
     /\ accepted' = Append(accepted, [kind |-> "totp", secret |-> old, counter |-> new.counter])
  \/ /\ old # NoSecret /\ new = user.factor /\ user'.pending = user.pending
     /\ UNCHANGED issued
     /\ \E code \in recovery : /\ recovery' = recovery \ {code}
                               /\ accepted' = Append(accepted, code)
  \/ /\ old # NoSecret /\ new = user.factor /\ user'.pending = user.pending  \* RegenerateCodes
     /\ issued'.secrets = issued.secrets /\ issued'.batches = issued.batches + 1
     /\ recovery' = NewRecoveryCodes(issued.batches + 1) /\ UNCHANGED accepted
  \/ /\ ~(RequireMfa /\ user.account.privileged)                             \* DisableMfa
     /\ new = NoFactor /\ user'.pending = NoPending
     /\ recovery' = {} /\ UNCHANGED <<issued, accepted>>

LEMMA FactorStep ==
  ASSUME TypeOK, Held, NEW w \in Workers, Commit(w)
  PROVE  FactorSteps(w)
<1>0. /\ now \in Nat /\ user \in UserRows /\ issued \in [secrets : Nat, batches : Nat]
      /\ req[w].phase = "ready" /\ req[w].op \in Ops
  BY CommitFacts, BusyFacts DEF TypeOK
<1>a. req[w].op \notin SessionOnlyOps => req[w].user = user
  BY <1>0 DEF Held
<1>1. CASE RevokeExpired(w) \/ EndSession(w)
  BY <1>1 DEF RevokeExpired, EndSession, FactorSteps
<1>2. CASE WrongFactor(w) \/ StepUp(w) \/ Login(w) \/ UpdateUser(w)
  <2>1. user'.factor = user.factor /\ user'.pending = user.pending
    BY <1>0, <1>2 DEF WrongFactor, StepUp, Login, UpdateUser, Unlocked, UserRows
  <2> QED
    BY <1>2, <2>1 DEF WrongFactor, StepUp, Login, UpdateUser, FactorSteps
<1>3. CASE StartEnrollment(w)
  <2>1. req[w].user = user
    BY <1>3, <1>a DEF StartEnrollment, Doing, SessionOnlyOps
  <2>2. /\ user'.factor = user.factor
        /\ user'.pending = [secret |-> issued.secrets + 1, until |-> now + EnrollmentTtl]
    BY <1>0, <1>3 DEF StartEnrollment, UserRows
  <2>3. issued'.secrets = issued.secrets + 1 /\ issued'.batches = issued.batches
    BY <1>0, <1>3 DEF StartEnrollment
  <2>4. user.factor.secret = NoSecret /\ UNCHANGED <<recovery, accepted>>
    BY <1>3, <2>1 DEF StartEnrollment, ChecksFactor, Doing
  <2> QED
    BY <2>2, <2>3, <2>4 DEF FactorSteps
<1>4. CASE ForgetEnrollment(w)
  <2>1. user'.factor = user.factor /\ user'.pending = NoPending
    BY <1>0, <1>4 DEF ForgetEnrollment, UserRows
  <2> QED
    BY <1>4, <2>1 DEF ForgetEnrollment, FactorSteps
<1>5. CASE ConfirmEnrollment(w)
  <2>1. req[w].user = user
    BY <1>5, <1>a DEF ConfirmEnrollment, Doing, SessionOnlyOps
  <2>2. user.pending.secret # NoSecret
    BY <1>5, <2>1 DEF ConfirmEnrollment, ChecksFactor, Doing
  <2>3. PICK c \in verify_totp(NoCounter) :
          /\ user' = Enrolled(user, c)
          /\ accepted' = Append(accepted, [kind |-> "totp", secret |-> user.pending.secret,
                                           counter |-> c])
    BY <1>5 DEF ConfirmEnrollment
  <2>4. c \in Nat
    BY <1>0 DEF verify_totp, TOTP_WINDOW
  <2>5. /\ user'.factor = [secret |-> user.pending.secret, counter |-> c]
        /\ user'.pending = NoPending
    BY <2>3 DEF Enrolled
  <2>6. issued'.secrets = issued.secrets /\ issued'.batches = issued.batches + 1
    BY <1>0, <1>5 DEF ConfirmEnrollment
  <2>7. recovery' = NewRecoveryCodes(issued.batches + 1)
    BY <1>5 DEF ConfirmEnrollment, ReplaceRecoveryCodes
  <2> QED
    BY <2>2, <2>3, <2>4, <2>5, <2>6, <2>7 DEF FactorSteps
<1>6. CASE VerifyFactor(w)
  <2>1. req[w].user = user
    BY <1>6, <1>a DEF VerifyFactor, Doing, SessionOnlyOps
  <2>2. user.factor.secret # NoSecret /\ UNCHANGED issued
    BY <1>6, <2>1 DEF VerifyFactor, ChecksFactor, Doing
  <2>3. ASSUME NEW c \in verify_totp(user.factor.counter),
               user' = [Unlocked(user) EXCEPT !.factor.counter = c],
               accepted' = Append(accepted, [kind |-> "totp", secret |-> user.factor.secret,
                                             counter |-> c]),
               UNCHANGED recovery
        PROVE  FactorSteps(w)
    <3>1. c \in Nat /\ c > user.factor.counter
      BY <1>0 DEF verify_totp, TOTP_WINDOW, AfterLast
    <3>2. /\ user'.factor.secret = user.factor.secret /\ user'.factor.counter = c
          /\ user'.pending = user.pending
      BY <1>0, <2>3 DEF Unlocked, UserRows, Factors
    <3> QED
      BY <2>2, <2>3, <3>1, <3>2 DEF FactorSteps
  <2>4. ASSUME NEW code \in recovery, user' = Unlocked(user), recovery' = recovery \ {code},
               accepted' = Append(accepted, code)
        PROVE  FactorSteps(w)
    <3>1. user'.factor = user.factor /\ user'.pending = user.pending
      BY <1>0, <2>4 DEF Unlocked, UserRows
    <3> QED
      BY <2>2, <2>4, <3>1 DEF FactorSteps
  <2> QED
    BY <1>6, <2>1, <2>3, <2>4 DEF VerifyFactor
<1>7. CASE RegenerateCodes(w)
  <2>1. req[w].user = user
    BY <1>7, <1>a DEF RegenerateCodes, Doing, SessionOnlyOps
  <2>2. issued'.secrets = issued.secrets /\ issued'.batches = issued.batches + 1
    BY <1>0, <1>7 DEF RegenerateCodes
  <2> QED
    BY <1>7, <2>1, <2>2 DEF RegenerateCodes, ReplaceRecoveryCodes, FactorSteps
<1>8. CASE DisableMfa(w)
  <2>1. req[w].user = user
    BY <1>8, <1>a DEF DisableMfa, Doing, SessionOnlyOps
  <2>2. user'.factor = NoFactor /\ user'.pending = NoPending
    BY <1>0, <1>8 DEF DisableMfa, UserRows
  <2> QED
    BY <1>8, <2>1, <2>2 DEF DisableMfa, Mandatory, RecoveryGone, FactorSteps
<1> QED
  BY <1>1, <1>2, <1>3, <1>4, <1>5, <1>6, <1>7, <1>8 DEF Commit

(* No other step touches the factor. *)
LEMMA FactorQuiet ==
  ASSUME [Next]_vars, ~\E w \in Workers : Commit(w)
  PROVE  UNCHANGED <<user, recovery, issued, accepted>>
  BY DEF Next, vars, Tick, FindStale, Begin, LockUser, LockSession, RollBack

(* A privileged account under the mandatory policy keeps its factor, also    *)
(* when its role changes while a request removes the factor.                 *)
THEOREM MandatoryFactorStays == Spec => MandatoryFactorKept
<1>1. TypeOK /\ Held /\ [Next]_vars =>
        [user.factor.secret # NoSecret /\ user'.factor.secret = NoSecret =>
           ~(RequireMfa /\ user.account.privileged)]_vars
  <2> SUFFICES ASSUME TypeOK, Held, [Next]_vars,
                      user.factor.secret # NoSecret, user'.factor.secret = NoSecret
               PROVE  ~(RequireMfa /\ user.account.privileged)
    OBVIOUS
  <2>1. PICK w \in Workers : Commit(w)
    BY FactorQuiet
  <2> QED
    BY <2>1, FactorStep DEF FactorSteps
<1> QED
  BY <1>1, TypeInit, TypeStep, HeldInit, HeldStep, PTL DEF Spec, MandatoryFactorKept

(* An enrolment is pending, and recovery codes exist, only as the factor      *)
(* allows.                                                                   *)
THEOREM FactorStaysCoherent == Spec => []FactorCoherent
<1>1. Init => FactorCoherent
  BY DEF Init, NewUser, FactorCoherent, NoFactor, NoPending
<1>2. TypeOK /\ Held /\ FactorCoherent /\ [Next]_vars => FactorCoherent'
  <2> SUFFICES ASSUME TypeOK, Held, FactorCoherent, [Next]_vars PROVE FactorCoherent'
    OBVIOUS
  <2>1. CASE \E w \in Workers : Commit(w)
    BY <2>1, FactorStep DEF FactorSteps, FactorCoherent, NoPending, NoFactor
  <2>2. CASE ~\E w \in Workers : Commit(w)
    BY <2>2, FactorQuiet DEF FactorCoherent
  <2> QED
    BY <2>1, <2>2
<1> QED
  BY <1>1, <1>2, TypeInit, TypeStep, HeldInit, HeldStep, PTL DEF Spec

(* Why no code is accepted twice: an accepted code of the factor in use has   *)
(* a counter that the factor has passed, an enrolment that is pending has     *)
(* accepted none, an accepted recovery code is gone, and secrets and batches  *)
(* are always new.                                                           *)
Spent ==
  /\ user.factor.secret <= issued.secrets /\ user.pending.secret <= issued.secrets
  /\ \A code \in recovery : code.batch <= issued.batches
  /\ \A i \in 1..Len(accepted) :
       /\ accepted[i].kind = "totp" =>
            /\ accepted[i].secret # NoSecret /\ accepted[i].secret <= issued.secrets
            /\ accepted[i].secret # user.pending.secret
            /\ accepted[i].secret = user.factor.secret =>
                 accepted[i].counter <= user.factor.counter
       /\ accepted[i].kind = "recovery" =>
            accepted[i] \notin recovery /\ accepted[i].batch <= issued.batches
  /\ CodesAcceptedOnce

(* Appending a code that is not in the log keeps the log free of repeats. *)
LEMMA AppendOnce ==
  ASSUME NEW S, NEW log \in Seq(S), NEW code \in S,
         \A i, j \in 1..Len(log) : i # j => log[i] # log[j],
         \A i \in 1..Len(log) : log[i] # code
  PROVE  /\ \A i, j \in 1..Len(Append(log, code)) :
              i # j => Append(log, code)[i] # Append(log, code)[j]
         /\ \A i \in 1..Len(Append(log, code)) :
              Append(log, code)[i] = code \/ (i \in 1..Len(log) /\ Append(log, code)[i] = log[i])
  OBVIOUS

(* A code that the log has not seen may be accepted. *)
LEMMA AcceptNew ==
  ASSUME TypeOK, CodesAcceptedOnce, NEW code \in Codes, accepted' = Append(accepted, code),
         \A i \in 1..Len(accepted) : accepted[i] # code
  PROVE  /\ CodesAcceptedOnce'
         /\ \A i \in 1..Len(accepted') :
              accepted'[i] = code \/ (i \in 1..Len(accepted) /\ accepted'[i] = accepted[i])
  BY AppendOnce DEF TypeOK, CodesAcceptedOnce

(* Every commit keeps accepted codes spent. *)
LEMMA SpentCommit ==
  ASSUME TypeOK, Held, FactorCoherent, Spent, NEW w \in Workers, Commit(w)
  PROVE  Spent'
<1>0. /\ user \in UserRows /\ issued \in [secrets : Nat, batches : Nat]
      /\ recovery \in SUBSET RecoveryCodes /\ accepted \in Seq(Codes)
      /\ FactorSteps(w) /\ issued.secrets \in Nat /\ issued.batches \in Nat
  BY FactorStep DEF TypeOK
<1>1. /\ user.factor.secret \in Nat /\ user.factor.counter \in Int /\ user.pending.secret \in Nat
      /\ \A i \in 1..Len(accepted) : /\ accepted[i] \in Codes
                                     /\ accepted[i].kind \in {"totp", "recovery"}
                                     /\ accepted[i].kind = "totp" =>
                                          accepted[i].secret \in Nat /\ accepted[i].counter \in Nat
                                     /\ accepted[i].kind = "recovery" => accepted[i].batch \in Nat
      /\ \A code \in recovery : code \in Codes /\ code.kind = "recovery" /\ code.batch \in Nat
  BY <1>0 DEF UserRows, Factors, Pendings, Codes, TotpCodes, RecoveryCodes
<1>2. \A b : \A code \in NewRecoveryCodes(b) : code.kind = "recovery" /\ code.batch = b
  BY DEF NewRecoveryCodes
<1>a. NoFactor.secret = NoSecret /\ NoPending.secret = NoSecret /\ NoSecret = 0
  BY DEF NoFactor, NoPending, NoSecret
<1>3. CASE /\ user'.factor = user.factor /\ user'.pending \in {user.pending, NoPending}
           /\ UNCHANGED <<recovery, issued, accepted>>
  BY <1>0, <1>1, <1>3, <1>a DEF Spent, CodesAcceptedOnce
<1>4. CASE /\ user.factor.secret = NoSecret /\ user'.factor = user.factor
           /\ user'.pending.secret = issued.secrets + 1
           /\ issued'.secrets = issued.secrets + 1 /\ issued'.batches = issued.batches
           /\ UNCHANGED <<recovery, accepted>>
  BY <1>0, <1>1, <1>4, <1>a DEF Spent, CodesAcceptedOnce
<1>5. CASE /\ user.pending.secret # NoSecret /\ user'.factor.secret = user.pending.secret
           /\ user'.factor.counter \in Nat /\ user'.pending = NoPending
           /\ issued'.secrets = issued.secrets /\ issued'.batches = issued.batches + 1
           /\ recovery' = NewRecoveryCodes(issued.batches + 1)
           /\ accepted' = Append(accepted, [kind |-> "totp", secret |-> user'.factor.secret,
                                            counter |-> user'.factor.counter])
  <2> DEFINE code == [kind |-> "totp", secret |-> user'.factor.secret,
                      counter |-> user'.factor.counter]
  <2>1. code \in Codes /\ code.kind = "totp" /\ code.secret = user.pending.secret
        /\ code.counter = user'.factor.counter
    BY <1>1, <1>5 DEF Codes, TotpCodes
  <2>2. accepted' = Append(accepted, code)
    BY <1>5
  <2> HIDE DEF code
  <2>3. \A i \in 1..Len(accepted) : accepted[i] # code
    BY <1>1, <2>1 DEF Spent
  <2>4. /\ CodesAcceptedOnce'
        /\ \A i \in 1..Len(accepted') :
             accepted'[i] = code \/ (i \in 1..Len(accepted) /\ accepted'[i] = accepted[i])
    BY <2>1, <2>2, <2>3, AcceptNew DEF Spent
  <2>5. \A i \in 1..Len(accepted') :
          /\ accepted'[i].kind = "totp" =>
               /\ accepted'[i].secret # NoSecret /\ accepted'[i].secret <= issued'.secrets
               /\ accepted'[i].secret # user'.pending.secret
               /\ accepted'[i].secret = user'.factor.secret =>
                    accepted'[i].counter <= user'.factor.counter
          /\ accepted'[i].kind = "recovery" =>
               accepted'[i] \notin recovery' /\ accepted'[i].batch <= issued'.batches
    <3> SUFFICES ASSUME NEW i \in 1..Len(accepted')
                 PROVE  /\ accepted'[i].kind = "totp" =>
                             /\ accepted'[i].secret # NoSecret /\ accepted'[i].secret <= issued'.secrets
                             /\ accepted'[i].secret # user'.pending.secret
                             /\ accepted'[i].secret = user'.factor.secret =>
                                  accepted'[i].counter <= user'.factor.counter
                        /\ accepted'[i].kind = "recovery" =>
                             accepted'[i] \notin recovery' /\ accepted'[i].batch <= issued'.batches
      OBVIOUS
    <3>1. CASE accepted'[i] = code
      BY <1>0, <1>1, <1>5, <1>a, <2>1, <3>1 DEF Spent
    <3>2. CASE i \in 1..Len(accepted) /\ accepted'[i] = accepted[i]
      BY <1>0, <1>1, <1>2, <1>5, <1>a, <3>2 DEF Spent
    <3> QED
      BY <2>4, <3>1, <3>2
  <2>6. /\ user'.factor.secret <= issued'.secrets /\ user'.pending.secret <= issued'.secrets
        /\ \A c \in recovery' : c.batch <= issued'.batches
    BY <1>0, <1>1, <1>2, <1>5, <1>a DEF Spent
  <2> QED
    BY <2>4, <2>5, <2>6 DEF Spent
<1>6. CASE /\ user.factor.secret # NoSecret /\ user'.factor.secret = user.factor.secret
           /\ user'.factor.counter \in Nat /\ user'.factor.counter > user.factor.counter
           /\ user'.pending = user.pending /\ UNCHANGED <<recovery, issued>>
           /\ accepted' = Append(accepted, [kind |-> "totp", secret |-> user.factor.secret,
                                            counter |-> user'.factor.counter])
  <2> DEFINE code == [kind |-> "totp", secret |-> user.factor.secret,
                      counter |-> user'.factor.counter]
  <2>1. code \in Codes /\ code.kind = "totp" /\ code.secret = user.factor.secret
        /\ code.counter = user'.factor.counter
    BY <1>1, <1>6 DEF Codes, TotpCodes
  <2>2. accepted' = Append(accepted, code)
    BY <1>6
  <2> HIDE DEF code
  <2>3. \A i \in 1..Len(accepted) : accepted[i] # code
    BY <1>1, <1>6, <2>1 DEF Spent
  <2>4. /\ CodesAcceptedOnce'
        /\ \A i \in 1..Len(accepted') :
             accepted'[i] = code \/ (i \in 1..Len(accepted) /\ accepted'[i] = accepted[i])
    BY <2>1, <2>2, <2>3, AcceptNew DEF Spent
  <2>5. user.pending.secret = NoSecret
    BY <1>6 DEF FactorCoherent
  <2>6. \A i \in 1..Len(accepted') :
          /\ accepted'[i].kind = "totp" =>
               /\ accepted'[i].secret # NoSecret /\ accepted'[i].secret <= issued'.secrets
               /\ accepted'[i].secret # user'.pending.secret
               /\ accepted'[i].secret = user'.factor.secret =>
                    accepted'[i].counter <= user'.factor.counter
          /\ accepted'[i].kind = "recovery" =>
               accepted'[i] \notin recovery' /\ accepted'[i].batch <= issued'.batches
    <3> SUFFICES ASSUME NEW i \in 1..Len(accepted')
                 PROVE  /\ accepted'[i].kind = "totp" =>
                             /\ accepted'[i].secret # NoSecret /\ accepted'[i].secret <= issued'.secrets
                             /\ accepted'[i].secret # user'.pending.secret
                             /\ accepted'[i].secret = user'.factor.secret =>
                                  accepted'[i].counter <= user'.factor.counter
                        /\ accepted'[i].kind = "recovery" =>
                             accepted'[i] \notin recovery' /\ accepted'[i].batch <= issued'.batches
      OBVIOUS
    <3>1. CASE accepted'[i] = code
      BY <1>0, <1>1, <1>6, <2>1, <2>5, <3>1 DEF Spent
    <3>2. CASE i \in 1..Len(accepted) /\ accepted'[i] = accepted[i]
      BY <1>0, <1>1, <1>6, <3>2 DEF Spent
    <3> QED
      BY <2>4, <3>1, <3>2
  <2> QED
    BY <1>6, <2>4, <2>6 DEF Spent
<1>7. ASSUME NEW code \in recovery, user'.factor = user.factor, user'.pending = user.pending,
             UNCHANGED issued, recovery' = recovery \ {code}, accepted' = Append(accepted, code)
      PROVE  Spent'
  <2>1. code \in Codes /\ code.kind = "recovery" /\ code.batch <= issued.batches
    BY <1>1 DEF Spent
  <2>2. \A i \in 1..Len(accepted) : accepted[i] # code
    BY <1>1, <2>1 DEF Spent
  <2>3. /\ CodesAcceptedOnce'
        /\ \A i \in 1..Len(accepted') :
             accepted'[i] = code \/ (i \in 1..Len(accepted) /\ accepted'[i] = accepted[i])
    BY <1>7, <2>1, <2>2, AcceptNew DEF Spent
  <2> QED
    BY <1>7, <2>1, <2>3 DEF Spent
<1>8. CASE /\ user'.factor = user.factor /\ user'.pending = user.pending
           /\ issued'.secrets = issued.secrets /\ issued'.batches = issued.batches + 1
           /\ recovery' = NewRecoveryCodes(issued.batches + 1) /\ UNCHANGED accepted
  BY <1>0, <1>1, <1>2, <1>8 DEF Spent, CodesAcceptedOnce
<1>9. CASE /\ user'.factor = NoFactor /\ user'.pending = NoPending
           /\ recovery' = {} /\ UNCHANGED <<issued, accepted>>
  BY <1>0, <1>1, <1>9, <1>a DEF Spent, CodesAcceptedOnce
<1> QED
  BY <1>0, <1>3, <1>4, <1>5, <1>6, <1>7, <1>8, <1>9 DEF FactorSteps

(* No one-time code and no recovery code is ever accepted a second time, in   *)
(* any session and however requests overlap.                                 *)
THEOREM NoCodeTwice == Spec => []CodesAcceptedOnce
<1>1. Init => FactorCoherent /\ Spent
  BY DEF Init, NewUser, FactorCoherent, Spent, CodesAcceptedOnce, NoFactor, NoPending, NoSecret
<1>2. TypeOK /\ Held /\ FactorCoherent /\ Spent /\ [Next]_vars => Spent'
  <2> SUFFICES ASSUME TypeOK, Held, FactorCoherent, Spent, [Next]_vars PROVE Spent'
    OBVIOUS
  <2>1. CASE \E w \in Workers : Commit(w)
    BY <2>1, SpentCommit
  <2>2. CASE ~\E w \in Workers : Commit(w)
    BY <2>2, FactorQuiet DEF Spent, CodesAcceptedOnce
  <2> QED
    BY <2>1, <2>2
<1>3. Spent => CodesAcceptedOnce
  BY DEF Spent
<1> QED
  BY <1>1, <1>2, <1>3, TypeInit, TypeStep, HeldInit, HeldStep, FactorStaysCoherent, PTL DEF Spec

-----------------------------------------------------------------------------
(* The lock                                                                *)

(* What the next number leaves when it is divided *)
LEMMA NextRemainder ==
  ASSUME NEW m \in Nat, NEW n \in Nat \ {0}
  PROVE  m % n \in 0..(n - 1) /\ (m + 1) % n = IF (m % n) + 1 >= n THEN 0 ELSE (m % n) + 1
<1> DEFINE q == m \div n
           r == m % n
<1>1. q \in Nat /\ r \in 0..(n - 1) /\ m = (n * q) + r
  BY SMT
<1>2. ASSUME NEW p \in Nat, NEW s \in 0..(n - 1) PROVE ((n * p) + s) % n = s
  BY SMT
<1> HIDE DEF q, r
<1>3. CASE r + 1 < n
  <2>1. ((n * q) + (r + 1)) % n = r + 1
    BY <1>1, <1>2, <1>3
  <2>2. m + 1 = (n * q) + (r + 1)
    BY <1>1
  <2> QED
    BY <1>1, <1>3, <2>1, <2>2 DEF r
<1>4. CASE r + 1 >= n
  <2>1. ((n * (q + 1)) + 0) % n = 0
    BY <1>1, <1>2, <1>4
  <2>2. n * (q + 1) = (n * q) + n /\ n * q \in Nat
    BY <1>1, SMT
  <2>3. m + 1 = (n * (q + 1)) + 0
    BY <1>1, <1>4, <2>2
  <2> QED
    BY <1>1, <1>4, <2>1, <2>3 DEF r
<1> QED
  BY <1>1, <1>3, <1>4

(* What a handler may do to the count of wrong factors: it starts it anew,   *)
(* leaves it alone, or goes one on, from what the row has under the lock.     *)
LEMMA MissCommit ==
  ASSUME TypeOK, Held, NEW w \in Workers, Commit(w)
  PROVE  \/ user'.lockout = NoLockout /\ misses' = 0
         \/ user'.lockout = user.lockout /\ misses' = misses
         \/ /\ misses' = misses + 1
            /\ user'.lockout.failed = IF user.lockout.failed + 1 >= MaxFailures THEN 0
                                      ELSE user.lockout.failed + 1
<1>0. user \in UserRows /\ req[w].phase = "ready" /\ req[w].op \in Ops
  BY CommitFacts, BusyFacts DEF TypeOK
<1>1. CASE StepUp(w) \/ ConfirmEnrollment(w) \/ VerifyFactor(w) \/ Login(w)
  <2>1. /\ Unlocked(user).lockout = NoLockout
        /\ \A c : Enrolled(user, c).lockout = NoLockout
        /\ \A c : [Unlocked(user) EXCEPT !.factor.counter = c].lockout = NoLockout
    BY <1>0 DEF Enrolled, Unlocked, UserRows
  <2>2. /\ misses' = 0
        /\ \/ user' = Unlocked(user)
           \/ \E c : user' = Enrolled(user, c)
           \/ \E c : user' = [Unlocked(user) EXCEPT !.factor.counter = c]
    BY <1>1 DEF StepUp, ConfirmEnrollment, VerifyFactor, Login
  <2> QED
    BY <2>1, <2>2
<1>2. CASE WrongFactor(w)
  <2>1. req[w].user = user
    BY <1>0, <1>2 DEF WrongFactor, ChecksFactor, Doing, Held, SessionOnlyOps
  <2> DEFINE failed == user.lockout.failed + 1
  <2>2. /\ misses' = misses + 1
        /\ user' = [user EXCEPT !.lockout = IF failed >= MaxFailures THEN [failed |-> 0, until |-> now + LockTtl]
                                            ELSE [@ EXCEPT !.failed = failed]]
    BY <1>2, <2>1 DEF WrongFactor
  <2>3. failed \in Nat /\ user.lockout \in Lockouts
    BY <1>0 DEF UserRows, Lockouts
  <2>4. user'.lockout = IF failed >= MaxFailures THEN [failed |-> 0, until |-> now + LockTtl]
                        ELSE [user.lockout EXCEPT !.failed = failed]
    BY <1>0, <2>2 DEF UserRows
  <2>5. [user.lockout EXCEPT !.failed = failed].failed = failed
    BY <2>3 DEF Lockouts
  <2> QED
    BY <2>2, <2>4, <2>5
<1>3. CASE StartEnrollment(w) \/ ForgetEnrollment(w) \/ DisableMfa(w) \/ UpdateUser(w)
  BY <1>0, <1>3 DEF StartEnrollment, ForgetEnrollment, DisableMfa, UpdateUser, UserRows
<1>4. CASE RevokeExpired(w) \/ EndSession(w) \/ RegenerateCodes(w)
  BY <1>4 DEF RevokeExpired, EndSession, RegenerateCodes
<1> QED
  BY <1>1, <1>2, <1>3, <1>4 DEF Commit

(* No wrong factor is lost, not even one of two that were judged at the same  *)
(* time: each counts toward the lock of the account.                         *)
THEOREM NoMissIsLost == Spec => []EveryMissCounts
<1>0. MaxFailures \in Nat \ {0}
  BY AccountAssumption
<1>1. Init => EveryMissCounts
  BY <1>0, NextRemainder, SMT DEF Init, NewUser, NoLockout, EveryMissCounts
<1>2. TypeOK /\ Held /\ EveryMissCounts /\ [Next]_vars => EveryMissCounts'
  <2> SUFFICES ASSUME TypeOK, Held, EveryMissCounts, [Next]_vars PROVE EveryMissCounts'
    OBVIOUS
  <2>1. ASSUME NEW w \in Workers, Commit(w) PROVE EveryMissCounts'
    <3>1. misses \in Nat
      BY DEF TypeOK
    <3>2. 0 % MaxFailures = 0
      BY <1>0, SMT
    <3>3. (misses + 1) % MaxFailures = IF (misses % MaxFailures) + 1 >= MaxFailures THEN 0
                                       ELSE (misses % MaxFailures) + 1
      BY <1>0, <3>1, NextRemainder
    <3> QED
      BY <2>1, <3>2, <3>3, MissCommit DEF EveryMissCounts, NoLockout
  <2>2. CASE UNCHANGED <<user, misses>>
    BY <2>2 DEF EveryMissCounts
  <2> QED
    BY <2>1, <2>2 DEF Next, vars, Tick, FindStale, Begin, LockUser, LockSession, RollBack
<1> QED
  BY <1>1, <1>2, TypeInit, TypeStep, HeldInit, HeldStep, PTL DEF Spec
==============================================================================
