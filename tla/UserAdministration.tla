--------------------------- MODULE UserAdministration --------------------------
(***************************************************************************)
(* The accounts and those who manage them (create_user and update_user of   *)
(* routes_admin.py, logout of routes_auth.py) on PostgreSQL.  An update     *)
(* locks its target, then every active owner one row after the other, then  *)
(* the sessions it revokes, and its audit row needs the actor's row in the  *)
(* end.  Requests that wait for each other are found by the database, which *)
(* aborts one of them.                                                      *)
(***************************************************************************)
EXTENDS FiniteSets, Naturals

CONSTANTS
  Users,                \* the accounts there may ever be
  Workers,              \* requests in progress at a time
  NoUser, NoWorker

ASSUME AdministrationAssumption ==
  /\ IsFiniteSet(Users)
  /\ NoUser \notin Users /\ NoWorker \notin Workers

Roles == {"owner", "staff"}             \* all roles but the owner's are alike here
Statuses == {"active", "disabled"}
Keep == "keep"                          \* the field is absent from the payload

Accounts == [role : Roles \union {"none"}, status : Statuses]
Unregistered == [role |-> "none", status |-> "disabled"]
Patches == [role : Roles \union {Keep}, status : Statuses \union {Keep}]
NoPatch == [role |-> Keep, status |-> Keep]

NoJob == [kind |-> "none", actor |-> NoUser, target |-> NoUser, patch |-> NoPatch]

VARIABLES
  account,              \* the users rows
  userLock,             \* the requests that hold them
  sessionLock,          \* and those that hold the users' sessions
  stage,                \* how far each request has come
  job,                  \* what it is for, by whom and on whom
  row,                  \* the target as it was read
  todo, want,           \* owners still to be locked, and the row to be locked next
  counted               \* owner_ids so far

vars == <<account, userLock, sessionLock, stage, job, row, todo, want, counted>>

locks == <<userLock, sessionLock>>
reading == <<row, todo, want, counted>>

ActiveOwner(a) == a.role = "owner" /\ a.status = "active"
ActiveOwners == {u \in Users : ActiveOwner(account[u])}

Init ==
  /\ account \in [Users -> Accounts]
  /\ \A u \in Users : account[u].role = "none" => account[u] = Unregistered
  /\ ActiveOwners # {}          \* scripts/bootstrap_admin.py
  /\ userLock = [u \in Users |-> NoWorker]
  /\ sessionLock = [u \in Users |-> NoWorker]
  /\ stage = [w \in Workers |-> "idle"]
  /\ job = [w \in Workers |-> NoJob]
  /\ row = [w \in Workers |-> Unregistered]
  /\ todo = [w \in Workers |-> {}]
  /\ want = [w \in Workers |-> NoUser]
  /\ counted = [w \in Workers |-> {}]

-----------------------------------------------------------------------------
(* The requests                                                            *)

(* Authentication reads the actor's row, without a lock and for the whole     *)
(* request: the ORM does not refresh a row that it has.                     *)
Begin(w, k, a, t, p, first) ==
  /\ stage[w] = "idle"
  /\ stage' = [stage EXCEPT ![w] = first]
  /\ job' = [job EXCEPT ![w] = [kind |-> k, actor |-> a, target |-> t, patch |-> p]]
  /\ row' = [row EXCEPT ![w] = IF t = a THEN account[a] ELSE Unregistered]
  /\ want' = [want EXCEPT ![w] = t]
  /\ UNCHANGED <<account, locks, todo, counted>>

BeginUpdate(w, a, t, p) == ActiveOwner(account[a]) /\ Begin(w, "update", a, t, p, "target")

BeginCreate(w, a, t, role) ==
  ActiveOwner(account[a]) /\
  Begin(w, "create", a, t, [NoPatch EXCEPT !.role = role, !.status = "active"], "commit")

BeginLogout(w, a) ==
  account[a].status = "active" /\ Begin(w, "logout", a, a, NoPatch, "session")

LetGo(w) ==
  /\ userLock' = [u \in Users |-> IF userLock[u] = w THEN NoWorker ELSE userLock[u]]
  /\ sessionLock' = [u \in Users |-> IF sessionLock[u] = w THEN NoWorker ELSE sessionLock[u]]

End(w) ==
  /\ stage' = [stage EXCEPT ![w] = "idle"]
  /\ job' = [job EXCEPT ![w] = NoJob]
  /\ row' = [row EXCEPT ![w] = Unregistered]
  /\ todo' = [todo EXCEPT ![w] = {}]
  /\ want' = [want EXCEPT ![w] = NoUser]
  /\ counted' = [counted EXCEPT ![w] = {}]

LockTarget(w) ==
  LET t == job[w].target IN
  /\ stage[w] = "target" /\ account[t].role # "none"
  /\ userLock[t] = NoWorker
  /\ userLock' = [userLock EXCEPT ![t] = w]
  /\ row' = [row EXCEPT ![w] = IF t = job[w].actor THEN @ ELSE account[t]]
  /\ stage' = [stage EXCEPT ![w] = "chosen"]
  /\ UNCHANGED <<account, sessionLock, job, todo, want, counted>>

(* No one disables themselves or changes their own role. *)
SelfHarm(w) ==
  /\ job[w].target = job[w].actor
  /\ \/ job[w].patch.status = "disabled"
     \/ job[w].patch.role \notin {Keep, row[w].role}

(* The statement that locks the active owners takes its snapshot ... *)
SelectOwners(w) ==
  /\ stage[w] = "chosen" /\ ~SelfHarm(w)
  /\ todo' = [todo EXCEPT ![w] = ActiveOwners]
  /\ counted' = [counted EXCEPT ![w] = {}]
  /\ IF ActiveOwners = {}
     THEN stage' = [stage EXCEPT ![w] = "decide"] /\ UNCHANGED want
     ELSE /\ stage' = [stage EXCEPT ![w] = "owners"]
          /\ \E u \in ActiveOwners : want' = [want EXCEPT ![w] = u]
  /\ UNCHANGED <<account, locks, job, row>>

(* An UPDATE or a lock of another request is waited for. *)
TakeRow(w, u) ==
  /\ userLock[u] \in {NoWorker, w}
  /\ userLock' = [userLock EXCEPT ![u] = w]

(* ... and locks row after row, in the order of the table; a row that no     *)
(* longer belongs to an active owner once it is locked does not count.      *)
LockOwner(w) ==
  LET u == want[w]
      rest == todo[w] \ {u} IN
  /\ stage[w] = "owners"
  /\ TakeRow(w, u)
  /\ counted' = [counted EXCEPT ![w] = IF ActiveOwner(account[u]) THEN @ \union {u} ELSE @]
  /\ todo' = [todo EXCEPT ![w] = rest]
  /\ IF rest = {}
     THEN stage' = [stage EXCEPT ![w] = "decide"] /\ UNCHANGED want
     ELSE (\E next \in rest : want' = [want EXCEPT ![w] = next]) /\ UNCHANGED stage
  /\ UNCHANGED <<account, sessionLock, job, row>>

(* mutant: off by one *)
RemovingNone(w) ==
  /\ ActiveOwner(row[w]) /\ Cardinality(counted[w]) < 1
  /\ job[w].patch.status = "disabled" \/ job[w].patch.role \notin {Keep, "owner"}

RemovingLast(w) ==
  /\ ActiveOwner(row[w]) /\ Cardinality(counted[w]) <= 1
  /\ job[w].patch.status = "disabled" \/ job[w].patch.role \notin {Keep, "owner"}

NewRole(w) == job[w].patch.role \notin {Keep, row[w].role}
NewStatus(w) == job[w].patch.status \notin {Keep, row[w].status}

(* A new role, status or password revokes the sessions. *)
Decide(w) ==
  /\ stage[w] = "decide" /\ ~RemovingLast(w)
  /\ \E password \in BOOLEAN :
       stage' = [stage EXCEPT ![w] =
                  IF NewRole(w) \/ NewStatus(w) \/ password THEN "revoke" ELSE "commit"]
  /\ UNCHANGED <<account, locks, job, reading>>

(* mutant: the error leaves the transaction open *)
StayOpen(w) == UNCHANGED locks

Dismiss(w) == LetGo(w)

(* 404 and 400: the session is closed with its transaction. *)
Refuse(w) ==
  /\ \/ stage[w] = "target" /\ account[job[w].target].role = "none"
     \/ stage[w] = "chosen" /\ SelfHarm(w)
     \/ stage[w] = "decide" /\ RemovingLast(w)
  /\ Dismiss(w)
  /\ End(w)
  /\ UNCHANGED account

(* The session rows: of the target, to be revoked, or the actor's own. *)
LockSession(w) ==
  LET u == job[w].target IN
  /\ stage[w] \in {"revoke", "session"}
  /\ sessionLock[u] = NoWorker
  /\ sessionLock' = [sessionLock EXCEPT ![u] = w]
  /\ stage' = [stage EXCEPT ![w] = "commit"]
  /\ UNCHANGED <<account, userLock, job, reading>>

(* Only what differs from the row that was read is written. *)
Patched(w, a) ==
  [role |-> IF NewRole(w) THEN job[w].patch.role ELSE a.role,
   status |-> IF NewStatus(w) THEN job[w].patch.status ELSE a.status]

(* What the commit writes.  An email that is taken is refused (409). *)
Write(w) ==
  LET t == job[w].target IN
  CASE job[w].kind = "update" -> account' = [account EXCEPT ![t] = Patched(w, @)]
    [] job[w].kind = "create" ->
         IF account[t].role = "none"
         THEN account' = [account EXCEPT ![t] = [role |-> job[w].patch.role, status |-> "active"]]
         ELSE UNCHANGED account
    [] job[w].kind = "logout" -> UNCHANGED account

(* The audit row refers to the actor: its foreign key waits for their row. *)
Commit(w) ==
  /\ stage[w] = "commit"
  /\ userLock[job[w].actor] \in {NoWorker, w}
  /\ Write(w)
  /\ LetGo(w)
  /\ End(w)

-----------------------------------------------------------------------------
(* The database                                                            *)

(* The request that holds what w waits for. *)
Holder(w) ==
  CASE stage[w] \in {"target", "owners"} -> userLock[want[w]]
    [] stage[w] \in {"revoke", "session"} -> sessionLock[job[w].target]
    [] stage[w] = "commit" -> userLock[job[w].actor]
    [] OTHER -> NoWorker

Deadlocked(w) ==
  \E ring \in SUBSET Workers :
    /\ w \in ring
    /\ \A v \in ring : Holder(v) \in ring \ {v}
    /\ \A v \in ring : \E x \in ring : Holder(x) = v

Abort(w) ==
  /\ stage[w] # "idle"
  /\ LetGo(w)
  /\ End(w)
  /\ UNCHANGED account

DetectDeadlock(w) == Deadlocked(w) /\ Abort(w)

Proceed(w) ==
  LockTarget(w) \/ SelectOwners(w) \/ LockOwner(w) \/ Decide(w) \/ Refuse(w)
  \/ LockSession(w) \/ Commit(w)

Next ==
  \E w \in Workers :
    \/ \E a, t \in Users :
         \/ \E p \in Patches : BeginUpdate(w, a, t, p)
         \/ \E role \in Roles : BeginCreate(w, a, t, role)
    \/ \E a \in Users : BeginLogout(w, a)
    \/ Proceed(w)
    \/ DetectDeadlock(w)
    \/ Abort(w)

(* A row is given to those who wait for it in turn, and a deadlock is found.  *)
Fairness == \A w \in Workers : SF_vars(Proceed(w)) /\ WF_vars(DetectDeadlock(w))

Spec == Init /\ [][Next]_vars /\ Fairness

-----------------------------------------------------------------------------
(* Properties                                                              *)

Stages == {"idle", "target", "chosen", "owners", "decide", "revoke", "session", "commit"}

Jobs ==
  [kind : {"none", "update", "create", "logout"}, actor : Users \union {NoUser},
   target : Users \union {NoUser}, patch : Patches]

TypeOK ==
  /\ account \in [Users -> Accounts]
  /\ userLock \in [Users -> Workers \union {NoWorker}]
  /\ sessionLock \in [Users -> Workers \union {NoWorker}]
  /\ stage \in [Workers -> Stages]
  /\ job \in [Workers -> Jobs]
  /\ row \in [Workers -> Accounts]
  /\ todo \in [Workers -> SUBSET Users]
  /\ want \in [Workers -> Users \union {NoUser}]
  /\ counted \in [Workers -> SUBSET Users]

(* However updates overlap, wait and are aborted, an active owner is left.   *)
SomeActiveOwner == ActiveOwners # {}

(* Requests that lock the same rows in different orders never hang: each is *)
(* answered, refused or aborted.                                            *)
EveryRequestEnds == \A w \in Workers : stage[w] # "idle" ~> stage[w] = "idle"
==============================================================================
