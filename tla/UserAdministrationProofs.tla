------------------------ MODULE UserAdministrationProofs -----------------------
(***************************************************************************)
(* For any accounts and requests: an active owner is always left.  A request *)
(* that takes an owner away holds the rows of all the owners it counted.    *)
(***************************************************************************)
EXTENDS UserAdministration, FiniteSetTheorems, TLAPS

Deciding == {"chosen", "owners", "decide", "revoke"}

(* What a request does at each stage. *)
Kind(w) ==
  /\ stage[w] \in Deciding \union {"target"} => job[w].kind = "update"
  /\ stage[w] = "session" => job[w].kind = "logout"
  /\ job[w].kind # "none" => job[w].actor \in Users /\ job[w].target \in Users
  /\ stage[w] # "idle" => job[w].kind # "none"
  /\ stage[w] = "owners" => want[w] \in Users
  /\ job[w].kind = "create" => job[w].patch.role \in Roles

(* The row that it changes is its own from the reading to the commit, and is *)
(* what was read; only the actor's row may be older.                        *)
Own(w) ==
  stage[w] \in Deciding \union {"commit"} /\ job[w].kind = "update" =>
    /\ userLock[job[w].target] = w
    /\ account[job[w].target].role # "none"
    /\ job[w].target # job[w].actor => row[w] = account[job[w].target]

(* An actor that changes their own account was an active owner. *)
Self(w) ==
  job[w].kind = "update" /\ job[w].target = job[w].actor => ActiveOwner(row[w])

(* The owners counted are locked, and so they are owners still. *)
Counted(w) ==
  stage[w] \in {"owners", "decide", "revoke", "commit"} /\ job[w].kind = "update" =>
    \A u \in counted[w] : userLock[u] = w /\ ActiveOwner(account[u])

(* The checks that it has passed. *)
Passed(w) ==
  /\ stage[w] \in {"owners", "decide", "revoke", "commit"} /\ job[w].kind = "update" => ~SelfHarm(w)
  /\ stage[w] \in {"revoke", "commit"} /\ job[w].kind = "update" => ~RemovingLast(w)

Local(w) == Kind(w) /\ Own(w) /\ Self(w) /\ Counted(w) /\ Passed(w)

IInv == TypeOK /\ SomeActiveOwner /\ \A w \in Workers : Local(w)

-----------------------------------------------------------------------------
(* The initial state, and the requests that a step does not concern        *)

LEMMA InitInv == Init => IInv
  BY AdministrationAssumption
  DEF Init, IInv, TypeOK, SomeActiveOwner, Local, Kind, Own, Self, Counted, Passed, Deciding,
      Stages, Jobs, NoJob, Patches, NoPatch, Accounts, Unregistered, Keep, Roles, Statuses

Untouched(v) ==
  /\ stage'[v] = stage[v] /\ job'[v] = job[v] /\ row'[v] = row[v] /\ counted'[v] = counted[v]
  /\ want'[v] = want[v]
  /\ \A u \in Users : userLock[u] = v => userLock'[u] = v /\ account'[u] = account[u]

(* A request keeps its part of the invariant when its own variables and the *)
(* rows that it has locked stay as they are.                                *)
LEMMA UntouchedKeeps ==
  ASSUME IInv, NEW v \in Workers, Untouched(v)
  PROVE  Local(v)'
  <1>1. Kind(v)'
    BY DEF IInv, Local, Kind, Untouched
  <1>2. Own(v)'
    <2> SUFFICES ASSUME stage[v] \in Deciding \union {"commit"}, job[v].kind = "update"
                 PROVE  Own(v)'
      BY DEF Own, Untouched
    <2>1. job[v].target \in Users /\ userLock[job[v].target] = v
      BY DEF IInv, Local, Kind, Own
    <2> QED
      BY <2>1 DEF IInv, Local, Own, Untouched
  <1>3. Self(v)'
    BY DEF IInv, Local, Self, Untouched, ActiveOwner
  <1>4. Counted(v)'
    <2>1. counted[v] \subseteq Users
      BY DEF IInv, TypeOK
    <2> QED
      BY <2>1 DEF IInv, Local, Counted, Untouched, ActiveOwner
  <1>5. Passed(v)'
    BY DEF IInv, Local, Passed, Untouched, SelfHarm, RemovingLast, ActiveOwner
  <1> QED
    BY <1>1, <1>2, <1>3, <1>4, <1>5 DEF Local

(* While no account changes, a step of w concerns w alone. *)
LEMMA OneRequest ==
  ASSUME IInv, NEW w \in Workers, TypeOK', UNCHANGED account, Local(w)',
         \A v \in Workers \ {w} : Untouched(v)
  PROVE  IInv'
  BY UntouchedKeeps DEF IInv, SomeActiveOwner, ActiveOwners, ActiveOwner

-----------------------------------------------------------------------------
(* The steps that read and lock                                            *)

LEMMA BeginStep ==
  ASSUME IInv, NEW w \in Workers, NEW a \in Users, NEW t \in Users, NEW k, NEW p \in Patches,
         NEW first,
         \/ k = "update" /\ first = "target" /\ ActiveOwner(account[a])
         \/ k = "create" /\ first = "commit" /\ p.role \in Roles
         \/ k = "logout" /\ first = "session",
         Begin(w, k, a, t, p, first)
  PROVE  IInv'
  <1> USE DEF Begin, locks
  <1>1. TypeOK'
    BY DEF IInv, TypeOK, Stages, Jobs, Accounts, Unregistered, Statuses
  <1>2. Local(w)'
    BY DEF IInv, TypeOK, Local, Kind, Own, Self, Counted, Passed, Deciding, ActiveOwner
  <1>3. \A v \in Workers \ {w} : Untouched(v)
    BY DEF IInv, TypeOK, Untouched
  <1> QED
    BY <1>1, <1>2, <1>3, OneRequest

LEMMA LockTargetStep ==
  ASSUME IInv, NEW w \in Workers, LockTarget(w)
  PROVE  IInv'
  <1> USE DEF LockTarget
  <1>0. job[w].target \in Users /\ job[w].kind = "update"
    BY DEF IInv, Local, Kind
  <1>1. TypeOK'
    BY <1>0 DEF IInv, TypeOK, Stages
  <1>2. Local(w)'
    BY <1>0 DEF IInv, TypeOK, Local, Kind, Own, Self, Counted, Passed, Deciding, ActiveOwner
  <1>3. \A v \in Workers \ {w} : Untouched(v)
    BY <1>0, AdministrationAssumption DEF IInv, TypeOK, Untouched
  <1> QED
    BY <1>1, <1>2, <1>3, OneRequest

LEMMA SelectOwnersStep ==
  ASSUME IInv, NEW w \in Workers, SelectOwners(w)
  PROVE  IInv'
  <1> USE DEF SelectOwners, locks
  <1>0. ActiveOwners \subseteq Users
    BY DEF ActiveOwners
  <1>1. TypeOK'
    BY <1>0 DEF IInv, TypeOK, Stages
  <1>2. Local(w)'
    BY <1>0 DEF IInv, TypeOK, Local, Kind, Own, Self, Counted, Passed, Deciding, ActiveOwner, SelfHarm
  <1>3. \A v \in Workers \ {w} : Untouched(v)
    BY DEF IInv, TypeOK, Untouched
  <1> QED
    BY <1>1, <1>2, <1>3, OneRequest

LEMMA LockOwnerStep ==
  ASSUME IInv, NEW w \in Workers, LockOwner(w)
  PROVE  IInv'
  <1> USE DEF LockOwner, TakeRow
  <1>0. want[w] \in Users /\ job[w].kind = "update"
    BY DEF IInv, Local, Kind, Deciding
  <1>1. TypeOK'
    BY <1>0 DEF IInv, TypeOK, Stages
  <1>2. Local(w)'
    <2>1. Kind(w)' /\ Self(w)'
      BY <1>0 DEF IInv, TypeOK, Local, Kind, Self, Deciding, ActiveOwner
    <2>2. Own(w)'
      BY <1>0 DEF IInv, TypeOK, Local, Own, Deciding
    <2>3. Counted(w)'
      BY <1>0 DEF IInv, TypeOK, Local, Counted, ActiveOwner
    <2>4. Passed(w)'
      BY <1>0 DEF IInv, TypeOK, Local, Passed, SelfHarm
    <2> QED
      BY <2>1, <2>2, <2>3, <2>4 DEF Local
  <1>3. \A v \in Workers \ {w} : Untouched(v)
    BY <1>0, AdministrationAssumption DEF IInv, TypeOK, Untouched
  <1> QED
    BY <1>1, <1>2, <1>3, OneRequest

LEMMA DecideStep ==
  ASSUME IInv, NEW w \in Workers, Decide(w)
  PROVE  IInv'
  <1> USE DEF Decide, locks, reading
  <1>1. TypeOK'
    BY DEF IInv, TypeOK, Stages
  <1>2. Local(w)'
    BY DEF IInv, TypeOK, Local, Kind, Own, Self, Counted, Passed, Deciding, ActiveOwner, SelfHarm,
           RemovingLast
  <1>3. \A v \in Workers \ {w} : Untouched(v)
    BY DEF IInv, TypeOK, Untouched
  <1> QED
    BY <1>1, <1>2, <1>3, OneRequest

LEMMA LockSessionStep ==
  ASSUME IInv, NEW w \in Workers, LockSession(w)
  PROVE  IInv'
  <1> USE DEF LockSession, reading
  <1>1. TypeOK'
    BY DEF IInv, TypeOK, Stages
  <1>2. Local(w)'
    BY DEF IInv, TypeOK, Local, Kind, Own, Self, Counted, Passed, Deciding, ActiveOwner, SelfHarm,
           RemovingLast
  <1>3. \A v \in Workers \ {w} : Untouched(v)
    BY DEF IInv, TypeOK, Untouched
  <1> QED
    BY <1>1, <1>2, <1>3, OneRequest

-----------------------------------------------------------------------------
(* The end of a request                                                    *)

(* Letting go disturbs nobody else's locks. *)
LEMMA LetGoTypes ==
  ASSUME IInv, NEW w \in Workers, LetGo(w), End(w), account' \in [Users -> Accounts]
  PROVE  /\ TypeOK'
         /\ Local(w)'
         /\ \A v \in Workers \ {w} : \A u \in Users : userLock[u] = v => userLock'[u] = v
  <1> USE DEF LetGo, End
  <1>1. TypeOK'
    BY AdministrationAssumption
    DEF IInv, TypeOK, Stages, Jobs, NoJob, Patches, NoPatch, Accounts, Unregistered, Keep, Roles,
        Statuses
  <1>2. Local(w)'
    BY DEF IInv, TypeOK, Local, Kind, Own, Self, Counted, Passed, Deciding, NoJob
  <1> QED
    BY <1>1, <1>2 DEF IInv, TypeOK

(* A rollback leaves the accounts alone. *)
LEMMA RollBackStep ==
  ASSUME IInv, NEW w \in Workers, LetGo(w), End(w), UNCHANGED account
  PROVE  IInv'
  <1>1. account' \in [Users -> Accounts]
    BY DEF IInv, TypeOK
  <1>2. \A v \in Workers \ {w} : Untouched(v)
    BY <1>1, LetGoTypes DEF IInv, TypeOK, Untouched, End
  <1> QED
    BY <1>1, <1>2, LetGoTypes, OneRequest

(* Who passed the check and takes an active owner away has another one       *)
(* locked.                                                                  *)
LEMMA AnotherOwner ==
  ASSUME IInv, NEW w \in Workers, stage[w] = "commit", job[w].kind = "update",
         ActiveOwner(account[job[w].target]),
         ~ActiveOwner(Patched(w, account[job[w].target]))
  PROVE  \E u \in Users \ {job[w].target} : ActiveOwner(account[u])
  <1> DEFINE t == job[w].target
  <1>1. /\ t \in Users /\ counted[w] \subseteq Users
        /\ job[w].patch \in Patches
        /\ \A u \in counted[w] : ActiveOwner(account[u])
    BY DEF IInv, TypeOK, Jobs, Local, Kind, Counted
  <1>2. ~SelfHarm(w) /\ ~RemovingLast(w)
    BY DEF IInv, Local, Passed
  <1>3. ActiveOwner(row[w])
    BY DEF IInv, Local, Own, Self
  <1>4. job[w].patch.status = "disabled" \/ job[w].patch.role \notin {Keep, "owner"}
    BY <1>1, <1>3 DEF Patched, NewRole, NewStatus, ActiveOwner, Patches, Statuses
  <1>5. ~(Cardinality(counted[w]) <= 1)
    BY <1>2, <1>3, <1>4 DEF RemovingLast
  <1>6. ~(counted[w] \subseteq {t})
    <2> SUFFICES ASSUME counted[w] \subseteq {t} PROVE FALSE
      OBVIOUS
    <2>1. IsFiniteSet({t}) /\ Cardinality({t}) = 1
      BY FS_Singleton
    <2>2. Cardinality(counted[w]) <= Cardinality({t})
      BY <2>1, FS_Subset
    <2> QED
      BY <1>5, <2>1, <2>2
  <1> QED
    BY <1>1, <1>6

(* The write changes one row at most, and none that somebody else has locked; *)
(* and it leaves an owner.                                                  *)
LEMMA WriteKeeps ==
  ASSUME IInv, NEW w \in Workers, stage[w] = "commit", Write(w)
  PROVE  /\ account' \in [Users -> Accounts]
         /\ SomeActiveOwner'
  <1> DEFINE t == job[w].target
  <1>0. t \in Users /\ job[w].patch \in Patches
    BY DEF IInv, TypeOK, Jobs, Local, Kind
  <1>1. CASE UNCHANGED account
    BY <1>1 DEF IInv, TypeOK, SomeActiveOwner, ActiveOwners
  <1>2. CASE job[w].kind = "update" /\ account' = [account EXCEPT ![t] = Patched(w, @)]
    <2>1. Patched(w, account[t]) \in Accounts
      BY <1>0 DEF IInv, TypeOK, Patched, NewRole, NewStatus, Patches, Accounts
    <2>2. account' \in [Users -> Accounts]
      BY <1>0, <1>2, <2>1 DEF IInv, TypeOK
    <2>3. PICK u \in Users : ActiveOwner(account[u])
      BY DEF IInv, SomeActiveOwner, ActiveOwners
    <2>4. CASE ActiveOwner(account[t]) /\ ~ActiveOwner(Patched(w, account[t]))
      <3>1. PICK x \in Users \ {t} : ActiveOwner(account[x])
        BY <1>2, <2>4, AnotherOwner
      <3>2. account'[x] = account[x]
        BY <1>2, <3>1 DEF IInv, TypeOK
      <3> QED
        BY <2>2, <3>1, <3>2 DEF SomeActiveOwner, ActiveOwners
    <2>5. CASE ~(ActiveOwner(account[t]) /\ ~ActiveOwner(Patched(w, account[t])))
      <3>1. ActiveOwner(account'[u])
        BY <1>0, <1>2, <2>3, <2>5 DEF IInv, TypeOK
      <3> QED
        BY <2>2, <3>1 DEF SomeActiveOwner, ActiveOwners
    <2> QED
      BY <2>4, <2>5
  <1>3. CASE /\ job[w].kind = "create" /\ account[t].role = "none"
             /\ account' = [account EXCEPT ![t] = [role |-> job[w].patch.role, status |-> "active"]]
    <2>1. PICK u \in Users : ActiveOwner(account[u])
      BY DEF IInv, SomeActiveOwner, ActiveOwners
    <2>2. u # t /\ account'[u] = account[u]
      BY <1>3, <2>1 DEF IInv, TypeOK, ActiveOwner
    <2>3. job[w].patch.role \in Roles
      BY <1>3 DEF IInv, Local, Kind
    <2> QED
      BY <1>0, <1>3, <2>1, <2>2, <2>3 DEF IInv, TypeOK, SomeActiveOwner, ActiveOwners, Accounts, Statuses
  <1> QED
    <2>1. job[w].kind \in {"update", "create", "logout"}
      BY DEF IInv, TypeOK, Jobs, Local, Kind
    <2> QED
      BY <1>1, <1>2, <1>3, <2>1 DEF Write

LEMMA CommitStep ==
  ASSUME IInv, NEW w \in Workers, Commit(w)
  PROVE  IInv'
  <1> DEFINE t == job[w].target
  <1>1. stage[w] = "commit" /\ Write(w) /\ LetGo(w) /\ End(w)
    BY DEF Commit
  <1>2. /\ account' \in [Users -> Accounts]
        /\ SomeActiveOwner'
    BY <1>1, WriteKeeps
  <1>3. TypeOK' /\ Local(w)'
    BY <1>1, <1>2, LetGoTypes
  <1>4. ASSUME NEW v \in Workers \ {w}
        PROVE  Local(v)'
    <2>1. /\ t \in Users /\ job[w].kind \in {"update", "create", "logout"}
      BY <1>1 DEF IInv, TypeOK, Jobs, Local, Kind
    <2>4. stage'[v] = stage[v] /\ job'[v] = job[v] /\ row'[v] = row[v]
      BY <1>1 DEF IInv, TypeOK, End
    <2>5. counted'[v] = counted[v] /\ want'[v] = want[v]
      BY <1>1 DEF IInv, TypeOK, End
    <2>6. \A u \in Users : userLock[u] = v => userLock'[u] = v
      BY <1>1, <1>2, LetGoTypes
    <2>2. CASE job[w].kind = "create" /\ account[t].role = "none"
      <3>1. \A u \in Users \ {t} : account'[u] = account[u]
        BY <1>1, <2>1, <2>2 DEF Write, IInv, TypeOK
      <3>2. /\ stage'[v] = stage[v] /\ job'[v] = job[v] /\ row'[v] = row[v]
            /\ counted'[v] = counted[v] /\ want'[v] = want[v]
            /\ \A u \in Users : userLock[u] = v => userLock'[u] = v
        BY <2>4, <2>5, <2>6
      <3>3. Kind(v)' /\ Self(v)' /\ Passed(v)'
        BY <3>2 DEF IInv, Local, Kind, Self, Passed, SelfHarm, RemovingLast, ActiveOwner
      <3>4. Own(v)'
        <4>1. Own(v) /\ Kind(v)
          BY DEF IInv, Local
        <4> SUFFICES ASSUME stage[v] \in Deciding \union {"commit"}, job[v].kind = "update"
                     PROVE  Own(v)'
          BY <3>2 DEF Own
        <4>2. /\ job[v].target \in Users /\ userLock[job[v].target] = v
              /\ account[job[v].target].role # "none"
              /\ job[v].target # job[v].actor => row[v] = account[job[v].target]
          BY <4>1 DEF Own, Kind
        <4>3. account'[job[v].target] = account[job[v].target]
          BY <2>2, <3>1, <4>2
        <4> QED
          BY <3>2, <4>2, <4>3 DEF Own
      <3>5. Counted(v)'
        <4>1. Counted(v) /\ counted[v] \subseteq Users
          BY DEF IInv, TypeOK, Local
        <4> SUFFICES ASSUME stage[v] \in {"owners", "decide", "revoke", "commit"},
                            job[v].kind = "update",
                            NEW u \in counted[v]
                     PROVE  userLock'[u] = v /\ ActiveOwner(account'[u])
          BY <3>2 DEF Counted, ActiveOwner
        <4>2. u \in Users /\ userLock[u] = v /\ ActiveOwner(account[u])
          BY <4>1 DEF Counted
        <4>3. u # t
          BY <2>2, <4>2 DEF ActiveOwner
        <4> QED
          BY <3>1, <3>2, <4>2, <4>3
      <3> QED
        BY <3>3, <3>4, <3>5 DEF Local
    <2>3. CASE ~(job[w].kind = "create" /\ account[t].role = "none")
      <3>1. \A u \in Users : account'[u] # account[u] => userLock[u] = w
        BY <1>1, <2>1, <2>3 DEF Write, IInv, TypeOK, Local, Own
      <3>2. Untouched(v)
        <4>2. \A u \in Users : userLock[u] = v => account'[u] = account[u]
          BY <3>1
        <4> QED
          BY <2>4, <2>5, <2>6, <4>2 DEF Untouched
      <3> QED
        BY <3>2, UntouchedKeeps
    <2> QED
      BY <2>2, <2>3
  <1> QED
    BY <1>2, <1>3, <1>4 DEF IInv

-----------------------------------------------------------------------------
(* The theorems                                                            *)

THEOREM Invariance == Spec => []IInv
<1>1. Init => IInv
  BY InitInv
<1>2. IInv /\ [Next]_vars => IInv'
  <2> SUFFICES ASSUME IInv, [Next]_vars PROVE IInv'
    OBVIOUS
  <2>1. CASE UNCHANGED vars
    BY <2>1 DEF vars, IInv, TypeOK, SomeActiveOwner, ActiveOwners, Local, Kind, Own, Self, Counted,
                Passed, SelfHarm, RemovingLast, ActiveOwner
  <2>2. ASSUME NEW w \in Workers, NEW a \in Users, NEW t \in Users, NEW p \in Patches,
               BeginUpdate(w, a, t, p)
        PROVE  IInv'
    BY <2>2, BeginStep DEF BeginUpdate
  <2>3. ASSUME NEW w \in Workers, NEW a \in Users, NEW t \in Users, NEW role \in Roles,
               BeginCreate(w, a, t, role)
        PROVE  IInv'
    <3> DEFINE p == [NoPatch EXCEPT !.role = role, !.status = "active"]
    <3>1. p \in Patches /\ p.role \in Roles
      BY DEF NoPatch, Patches, Statuses
    <3>2. Begin(w, "create", a, t, p, "commit")
      BY <2>3 DEF BeginCreate
    <3> HIDE DEF p
    <3> QED
      BY <3>1, <3>2, BeginStep
  <2>4. ASSUME NEW w \in Workers, NEW a \in Users, BeginLogout(w, a)
        PROVE  IInv'
    <3>1. NoPatch \in Patches
      BY DEF NoPatch, Patches
    <3> QED
      BY <2>4, <3>1, BeginStep DEF BeginLogout
  <2>5. ASSUME NEW w \in Workers, Proceed(w)
        PROVE  IInv'
    <3>1. CASE Refuse(w)
      BY <3>1, RollBackStep DEF Refuse, Dismiss
    <3> QED
      BY <2>5, <3>1, LockTargetStep, SelectOwnersStep, LockOwnerStep, DecideStep, LockSessionStep,
         CommitStep DEF Proceed
  <2>6. ASSUME NEW w \in Workers, Abort(w)
        PROVE  IInv'
    BY <2>6, RollBackStep DEF Abort
  <2> QED
    BY <2>1, <2>2, <2>3, <2>4, <2>5, <2>6 DEF Next, DetectDeadlock
<1> QED
  BY <1>1, <1>2, PTL DEF Spec

(* Types, for any number of accounts and requests. *)
THEOREM TypeCorrect == Spec => []TypeOK
<1>1. IInv => TypeOK
  BY DEF IInv
<1> QED
  BY <1>1, Invariance, PTL

(* update_user: "cannot remove the last active owner", however many requests *)
(* are made at once and wherever each is interrupted.                       *)
THEOREM OwnerLeft == Spec => []SomeActiveOwner
<1>1. IInv => SomeActiveOwner
  BY DEF IInv
<1> QED
  BY <1>1, Invariance, PTL
==============================================================================
