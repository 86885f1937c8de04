-------------------------- MODULE GroundedAnswerProofs -------------------------
(***************************************************************************)
(* For any requests, items, claims and editors: an answer quotes what stood *)
(* unchanged, the provider is awaited with empty hands, and the audit log   *)
(* is truthful.  The invariant follows one request at a time.               *)
(***************************************************************************)
EXTENDS GroundedAnswer, TLAPS

Concluded == {"answered", "unavailable", "invalid", "changed", "unverified"}

(* An item that was found and then disturbed has left its revision behind; *)
(* until then it stands as it was found.                                    *)
Followed(r) ==
  stage[r] \in Watching =>
    \A i \in found[r] :
      /\ i \in disturbed[r] => store[i].revision > revision[r][i]
      /\ i \notin disturbed[r] => store[i].public /\ store[i].revision = revision[r][i]

(* A request that has read nothing has nothing. *)
Early(r) ==
  stage[r] \in {"new", "items"} =>
    disturbed[r] = {} /\ refs[r] = {} /\ \A i \in Items : evidence[r][i] = {}

(* What the provider selected is evidence that was found. *)
Selected(r) ==
  /\ stage[r] \in {"new", "items", "claims", "quota", "counting", "generate"} => refs[r] = {}
  /\ \A i \in Items : evidence[r][i] # {} => i \in found[r]
  /\ SelectedItems(r) \subseteq found[r]

(* The items that passed the second reading were not disturbed before it. *)
Passed(r) ==
  /\ stage[r] = "recheck_claims" /\ fresh[r] => SelectedItems(r) \intersect disturbed[r] = {}
  /\ outcome[r] = "answered" => SelectedItems(r) \intersect disturbed[r] = {}

(* How the outcome and the audit rows go with the stage. *)
Ledger(r) ==
  /\ outcome[r] # "none" <=> stage[r] \in {"record", "ended"}
  /\ stage[r] = "record" => outcome[r] \in Concluded
  /\ stage[r] \in {"generate", "recheck", "recheck_claims"} \/ outcome[r] \in Concluded =>
       "reserved" \in audit[r]
  /\ "success" \in audit[r] => outcome[r] = "answered"
  /\ "failure" \in audit[r] => outcome[r] \in Concluded \ {"answered"}

(* A transaction, and with it a lock, is open only where one is needed. *)
Hands(r) ==
  /\ r \in inTransaction => stage[r] \in {"items", "claims", "counting", "recheck_claims", "record"}
  /\ \A u \in Users : holder[u] = r => stage[r] = "counting"

IInv ==
  /\ TypeOK
  /\ \A r \in Requests : Followed(r) /\ Early(r) /\ Selected(r) /\ Passed(r) /\ Ledger(r) /\ Hands(r)

Local(r) == Followed(r) /\ Early(r) /\ Selected(r) /\ Passed(r) /\ Ledger(r) /\ Hands(r)

LEMMA PrivateRow ==
  ASSUME NEW revisions \in SUBSET Nat,
         NEW x \in [public : {FALSE}, revision : revisions, verdicts : [Claims -> Verdicts]]
  PROVE  x \in Rows /\ x.revision \in revisions
  <1>1. x = [public |-> x.public, revision |-> x.revision, verdicts |-> x.verdicts]
    OBVIOUS
  <1>2. /\ x.public \in BOOLEAN /\ x.revision \in Nat /\ x.revision \in revisions
        /\ x.verdicts \in [Claims -> Verdicts]
    OBVIOUS
  <1> QED
    BY <1>1, <1>2 DEF Rows

LEMMA InitInv == Init => IInv
  <1> SUFFICES ASSUME Init PROVE IInv
    OBVIOUS
  <1>1. store \in [Items -> Rows]
    <2>1. {1} \in SUBSET Nat
      OBVIOUS
    <2>2. [public : {FALSE}, revision : {1}, verdicts : [Claims -> Verdicts]] \subseteq Rows
      BY <2>1, PrivateRow
    <2> QED
      BY <2>2 DEF Init
  <1>2. TypeOK
    BY <1>1, GroundedAssumption DEF Init, TypeOK, Stages, Watching, Outcomes
  <1>3. ASSUME NEW r \in Requests PROVE Local(r)
    <2>1. SelectedItems(r) = {}
      BY DEF Init, SelectedItems
    <2> QED
      BY <2>1, GroundedAssumption
         DEF Init, Local, Followed, Early, Watching, Selected, Passed, Ledger, Concluded, Hands
  <1> QED
    BY <1>2, <1>3 DEF IInv, Local

-----------------------------------------------------------------------------
(* The editors                                                             *)

(* A revision never falls, and a public row changes only with it. *)
LEMMA RevisionTells ==
  ASSUME NEW old \in Rows, NEW new \in Successors(old)
  PROVE  /\ new \in Rows
         /\ new.revision >= old.revision
         /\ old.public => new.revision > old.revision
  <1>1. /\ old.public \in BOOLEAN /\ old.revision \in Nat /\ old.verdicts \in [Claims -> Verdicts]
        /\ old.revision + 1 > old.revision
    BY DEF Rows
  <1>2. CASE new \in Withdrawals(old)
    <2>1. new = Row(FALSE, old.revision + 1, old.verdicts)
      BY <1>2 DEF Withdrawals
    <2> QED
      BY <1>1, <2>1 DEF Row, Rows
  <1>3. CASE new \in Publications(old)
    <2>1. new = Row(TRUE, old.revision + 1, old.verdicts) /\ ~old.public
      BY <1>3 DEF Publications
    <2> QED
      BY <1>1, <2>1 DEF Row, Rows
  <1>4. CASE new \in PrivateChanges(old)
    <2>1. ~old.public
      BY <1>4 DEF PrivateChanges
    <2>2. new \in [public : {FALSE}, revision : {old.revision, old.revision + 1},
                    verdicts : [Claims -> Verdicts]]
      BY <1>4, <2>1 DEF PrivateChanges
    <2>3. new \in Rows /\ new.revision \in {old.revision, old.revision + 1}
      <3>1. {old.revision, old.revision + 1} \in SUBSET Nat
        BY <1>1
      <3> QED
        BY <2>2, <3>1, PrivateRow
    <2> QED
      BY <1>1, <2>1, <2>3
  <1> QED
    BY <1>2, <1>3, <1>4 DEF Successors

LEMMA EditStep ==
  ASSUME IInv, NEW i \in Items, Edit(i)
  PROVE  IInv'
  <1>1. store \in [Items -> Rows]
    BY DEF IInv, TypeOK
  <1>2. PICK new \in Successors(store[i]) : store' = [store EXCEPT ![i] = new]
    BY DEF Edit
  <1>3. /\ new \in Rows /\ new.revision >= store[i].revision
        /\ store[i].public => new.revision > store[i].revision
    BY <1>1, <1>2, RevisionTells
  <1>4. /\ disturbed' = [r \in Requests |->
              IF stage[r] \in Watching THEN disturbed[r] \union {i} ELSE disturbed[r]]
        /\ UNCHANGED <<holder, inTransaction, stage, found, revision, evidence, refs, fresh,
                       outcome, audit>>
    BY DEF Edit, replyState
  <1>5. TypeOK'
    <2>1. store' \in [Items -> Rows]
      BY <1>1, <1>2, <1>3
    <2>2. disturbed' \in [Requests -> SUBSET Items]
      BY <1>4 DEF IInv, TypeOK
    <2>3. /\ holder' \in [Users -> Requests \union {NoRequest}]
          /\ inTransaction' \in SUBSET Requests /\ stage' \in [Requests -> Stages]
          /\ found' \in [Requests -> SUBSET Items]
          /\ revision' \in [Requests -> [Items -> Nat]]
          /\ evidence' \in [Requests -> [Items -> SUBSET (Claims \X Confidences)]]
          /\ refs' \in [Requests -> SUBSET (Items \X Claims)]
          /\ fresh' \in [Requests -> BOOLEAN] /\ outcome' \in [Requests -> Outcomes]
          /\ audit' \in [Requests -> SUBSET {"reserved", "rate_limited", "success", "failure"}]
      BY <1>4 DEF IInv, TypeOK
    <2> QED
      BY <2>1, <2>2, <2>3 DEF TypeOK
  <1>6. ASSUME NEW r \in Requests PROVE Followed(r)'
    <2> SUFFICES ASSUME stage[r] \in Watching, NEW j \in found[r]
                 PROVE  /\ j \in disturbed'[r] => store'[j].revision > revision[r][j]
                        /\ j \notin disturbed'[r] =>
                             store'[j].public /\ store'[j].revision = revision[r][j]
      BY <1>4 DEF Followed
    <2>1. /\ j \in disturbed[r] => store[j].revision > revision[r][j]
          /\ j \notin disturbed[r] => store[j].public /\ store[j].revision = revision[r][j]
      BY DEF IInv, Followed
    <2>2. j \in Items /\ store[j].revision \in Nat /\ revision[r][j] \in Nat
      BY <1>1 DEF IInv, TypeOK, Rows
    <2>3. disturbed'[r] = disturbed[r] \union {i}
      BY <1>4
    <2>4. CASE j = i
      <3>1. store'[j] = new
        BY <1>1, <1>2, <2>4
      <3> QED
        BY <1>1, <1>3, <2>1, <2>2, <2>3, <2>4, <3>1, new.revision \in Nat DEF Rows
    <2>5. CASE j # i
      <3>1. store'[j] = store[j]
        BY <1>1, <1>2, <2>2, <2>5
      <3> QED
        BY <2>1, <2>3, <2>5, <3>1
    <2> QED
      BY <2>4, <2>5
  <1>7. ASSUME NEW r \in Requests PROVE Early(r)' /\ Selected(r)' /\ Ledger(r)' /\ Hands(r)'
    BY <1>4 DEF IInv, Early, Watching, Selected, SelectedItems, Ledger, Hands
  <1>8. ASSUME NEW r \in Requests PROVE Passed(r)'
    <2>1. stage[r] \in {"recheck_claims", "record", "ended"} => disturbed'[r] = disturbed[r]
      BY <1>4 DEF Watching
    <2>2. outcome[r] = "answered" => stage[r] \in {"record", "ended"}
      BY DEF IInv, Ledger
    <2>3. Passed(r)
      BY DEF IInv
    <2> QED
      BY <1>4, <2>1, <2>2, <2>3 DEF Passed, SelectedItems
  <1> QED
    BY <1>5, <1>6, <1>7, <1>8 DEF IInv

-----------------------------------------------------------------------------
(* The requests.  A step of one leaves the others alone, but for the lock.  *)

Untouched(q) ==
  /\ stage'[q] = stage[q] /\ found'[q] = found[q] /\ revision'[q] = revision[q]
  /\ evidence'[q] = evidence[q] /\ refs'[q] = refs[q] /\ fresh'[q] = fresh[q]
  /\ outcome'[q] = outcome[q] /\ audit'[q] = audit[q] /\ disturbed'[q] = disturbed[q]
  /\ q \in inTransaction' => q \in inTransaction
  /\ \A u \in Users : holder'[u] = q => holder[u] = q

LEMMA UntouchedStays ==
  ASSUME NEW q \in Requests, Local(q), Untouched(q), store' = store
  PROVE  Local(q)'
  <1>1. Followed(q)'
    BY DEF Local, Untouched, Followed
  <1>2. Selected(q)'
    BY DEF Local, Untouched, Selected, SelectedItems
  <1>3. Passed(q)'
    BY DEF Local, Untouched, Passed, SelectedItems
  <1>4. Ledger(q)'
    BY DEF Local, Untouched, Ledger
  <1>5. Hands(q)'
    BY DEF Local, Untouched, Hands
  <1>6. Early(q)'
    BY DEF Local, Untouched, Early
  <1> QED
    BY <1>1, <1>2, <1>3, <1>4, <1>5, <1>6 DEF Local

LEMMA OneRequestSteps ==
  ASSUME IInv, NEW r \in Requests, store' = store, TypeOK', Local(r)',
         \A q \in Requests \ {r} : Untouched(q)
  PROVE  IInv'
  <1>1. ASSUME NEW q \in Requests PROVE Local(q)'
    <2>1. CASE q = r
      BY <2>1
    <2>2. CASE q # r
      BY <2>2, UntouchedStays DEF IInv, Local
    <2> QED
      BY <2>1, <2>2
  <1> QED
    BY <1>1 DEF IInv, Local

LEMMA ArriveStep ==
  ASSUME IInv, NEW r \in Requests, Arrive(r)
  PROVE  IInv'
  <1> USE DEF Arrive, Go, dbState, evidenceState, replyState
  <1>1. TypeOK'
    BY GroundedAssumption DEF IInv, TypeOK, Stages, Watching, Outcomes
  <1>2. Followed(r)'
    BY DEF IInv, TypeOK, Followed, Watching
  <1>3. Selected(r)'
    BY DEF IInv, TypeOK, Selected, SelectedItems
  <1>4. Passed(r)'
    BY DEF IInv, TypeOK, Passed, SelectedItems, Ledger
  <1>5. Ledger(r)'
    BY DEF IInv, TypeOK, Ledger, Concluded
  <1>6. Hands(r)'
    BY GroundedAssumption DEF IInv, TypeOK, Hands
  <1>7. \A q \in Requests \ {r} : Untouched(q)
    BY GroundedAssumption DEF IInv, TypeOK, Untouched
  <1>8. Early(r)'
    BY DEF IInv, TypeOK, Early
  <1> QED
    BY <1>1, <1>2, <1>3, <1>4, <1>5, <1>6, <1>7, <1>8, OneRequestSteps DEF Local

LEMMA ReadItemsStep ==
  ASSUME IInv, NEW r \in Requests, ReadItems(r)
  PROVE  IInv'
  <1> USE DEF ReadItems, Go, dbState, replyState
  <1> DEFINE public == {i \in Items : store[i].public}
  <1>a. PICK matching \in SUBSET public :
          /\ found' = [found EXCEPT ![r] = matching]
          /\ revision' = [revision EXCEPT ![r] =
                           [i \in Items |-> IF i \in matching THEN store[i].revision ELSE 0]]
    OBVIOUS
  <1>b. \A i \in Items : store[i].revision \in Nat
    BY DEF IInv, TypeOK, Rows
  <1>1. TypeOK'
    <2>1. found' \in [Requests -> SUBSET Items]
      BY <1>a DEF IInv, TypeOK
    <2>2. revision' \in [Requests -> [Items -> Nat]]
      BY <1>a, <1>b DEF IInv, TypeOK
    <2> QED
      BY <2>1, <2>2 DEF IInv, TypeOK, Stages, Watching
  <1>2. Followed(r)'
    <2>1. found'[r] = matching /\ matching \subseteq Items
      BY <1>a DEF IInv, TypeOK
    <2>2. \A i \in matching : revision'[r][i] = store[i].revision /\ store[i].public
      BY <1>a, <2>1 DEF IInv, TypeOK
    <2>3. disturbed'[r] = {}
      BY DEF IInv, Early
    <2> QED
      BY <2>1, <2>2, <2>3 DEF Followed
  <1>3. Selected(r)'
    <2>1. \A i \in Items : evidence'[r][i] = {}
      BY DEF IInv, Early
    <2>2. refs'[r] = {}
      BY DEF IInv, Early
    <2> QED
      BY <2>1, <2>2 DEF Selected, SelectedItems
  <1>4. Passed(r)'
    BY DEF IInv, TypeOK, Passed, SelectedItems, Ledger
  <1>5. Ledger(r)'
    BY DEF IInv, TypeOK, Ledger, Concluded
  <1>6. Hands(r)'
    BY GroundedAssumption DEF IInv, TypeOK, Hands
  <1>7. \A q \in Requests \ {r} : Untouched(q)
    BY GroundedAssumption DEF IInv, TypeOK, Untouched
  <1>8. Early(r)'
    BY DEF IInv, TypeOK, Early
  <1> QED
    BY <1>1, <1>2, <1>3, <1>4, <1>5, <1>6, <1>7, <1>8, OneRequestSteps DEF Local

LEMMA ReadClaimsStep ==
  ASSUME IInv, NEW r \in Requests, ReadClaims(r)
  PROVE  IInv'
  <1> USE DEF ReadClaims, Go, End, CloseTransaction
  <1>1. TypeOK'
    <2>1. \A i \in Items : UsableClaims(i) \in SUBSET (Claims \X Confidences)
      <3> SUFFICES ASSUME NEW i \in Items, NEW c \in Claims
                   PROVE  Copy(i, c) \in Claims \X Confidences
        BY DEF UsableClaims
      <3>1. store[i].verdicts[c] \in Verdicts
        BY DEF IInv, TypeOK, Rows
      <3> QED
        BY <3>1, GroundedAssumption DEF Copy
    <2>2. evidence' \in [Requests -> [Items -> SUBSET (Claims \X Confidences)]]
      BY <2>1 DEF IInv, TypeOK
    <2>3. /\ inTransaction' \in SUBSET Requests
          /\ holder' \in [Users -> Requests \union {NoRequest}]
      BY DEF IInv, TypeOK
    <2>4. stage' \in [Requests -> Stages] /\ outcome' \in [Requests -> Outcomes]
      BY DEF IInv, TypeOK, Stages, Watching, Outcomes
    <2> QED
      BY <2>2, <2>3, <2>4 DEF IInv, TypeOK
  <1>2. Followed(r)'
    BY DEF IInv, TypeOK, Followed, Watching
  <1>3. Selected(r)'
    BY DEF IInv, TypeOK, Selected, SelectedItems
  <1>4. Passed(r)'
    BY DEF IInv, TypeOK, Passed, SelectedItems, Ledger
  <1>5. Ledger(r)'
    BY DEF IInv, TypeOK, Ledger, Concluded
  <1>6. Hands(r)'
    BY GroundedAssumption DEF IInv, TypeOK, Hands
  <1>7. \A q \in Requests \ {r} : Untouched(q)
    BY GroundedAssumption DEF IInv, TypeOK, Untouched
  <1>8. Early(r)'
    BY DEF IInv, TypeOK, Early
  <1> QED
    BY <1>1, <1>2, <1>3, <1>4, <1>5, <1>6, <1>7, <1>8, OneRequestSteps DEF Local

LEMMA LockUserStep ==
  ASSUME IInv, NEW r \in Requests, LockUser(r)
  PROVE  IInv'
  <1> USE DEF LockUser, Go, evidenceState, replyState
  <1>1. TypeOK'
    BY GroundedAssumption DEF IInv, TypeOK, Stages, Watching, Outcomes
  <1>2. Followed(r)'
    BY DEF IInv, TypeOK, Followed, Watching
  <1>3. Selected(r)'
    BY DEF IInv, TypeOK, Selected, SelectedItems
  <1>4. Passed(r)'
    BY DEF IInv, TypeOK, Passed, SelectedItems, Ledger
  <1>5. Ledger(r)'
    BY DEF IInv, TypeOK, Ledger, Concluded
  <1>6. Hands(r)'
    BY GroundedAssumption DEF IInv, TypeOK, Hands
  <1>7. \A q \in Requests \ {r} : Untouched(q)
    BY GroundedAssumption DEF IInv, TypeOK, Untouched
  <1>8. Early(r)'
    BY DEF IInv, TypeOK, Early
  <1> QED
    BY <1>1, <1>2, <1>3, <1>4, <1>5, <1>6, <1>7, <1>8, OneRequestSteps DEF Local

LEMMA ReserveStep ==
  ASSUME IInv, NEW r \in Requests, Reserve(r)
  PROVE  IInv'
  <1> USE DEF Reserve, CommitReservation, CloseTransaction, Go, evidenceState
  <1>1. TypeOK'
    BY GroundedAssumption DEF IInv, TypeOK, Stages, Watching, Outcomes
  <1>2. Followed(r)'
    BY DEF IInv, TypeOK, Followed, Watching
  <1>3. Selected(r)'
    BY DEF IInv, TypeOK, Selected, SelectedItems
  <1>4. Passed(r)'
    BY DEF IInv, TypeOK, Passed, SelectedItems, Ledger
  <1>5. Ledger(r)'
    BY DEF IInv, TypeOK, Ledger, Concluded
  <1>6. Hands(r)'
    BY GroundedAssumption DEF IInv, TypeOK, Hands
  <1>7. \A q \in Requests \ {r} : Untouched(q)
    BY GroundedAssumption DEF IInv, TypeOK, Untouched
  <1>8. Early(r)'
    BY DEF IInv, TypeOK, Early
  <1> QED
    BY <1>1, <1>2, <1>3, <1>4, <1>5, <1>6, <1>7, <1>8, OneRequestSteps DEF Local

LEMMA DenyStep ==
  ASSUME IInv, NEW r \in Requests, Deny(r)
  PROVE  IInv'
  <1> USE DEF Deny, CloseTransaction, End, Go, evidenceState
  <1>1. TypeOK'
    BY GroundedAssumption DEF IInv, TypeOK, Stages, Watching, Outcomes
  <1>2. Followed(r)'
    BY DEF IInv, TypeOK, Followed, Watching
  <1>3. Selected(r)'
    BY DEF IInv, TypeOK, Selected, SelectedItems
  <1>4. Passed(r)'
    BY DEF IInv, TypeOK, Passed, SelectedItems, Ledger
  <1>5. Ledger(r)'
    BY DEF IInv, TypeOK, Ledger, Concluded
  <1>6. Hands(r)'
    BY GroundedAssumption DEF IInv, TypeOK, Hands
  <1>7. \A q \in Requests \ {r} : Untouched(q)
    BY GroundedAssumption DEF IInv, TypeOK, Untouched
  <1>8. Early(r)'
    BY DEF IInv, TypeOK, Early
  <1> QED
    BY <1>1, <1>2, <1>3, <1>4, <1>5, <1>6, <1>7, <1>8, OneRequestSteps DEF Local

LEMMA GenerateStep ==
  ASSUME IInv, NEW r \in Requests, Generate(r)
  PROVE  IInv'
  <1> USE DEF Generate, Citable, Go, dbState, evidenceState
  <1>1. TypeOK'
    BY GroundedAssumption DEF IInv, TypeOK, Stages, Watching, Outcomes
  <1>2. Followed(r)'
    BY DEF IInv, TypeOK, Followed, Watching
  <1>3. Selected(r)'
    <2>1. \A ref \in refs'[r] : ref[1] \in Items /\ evidence[r][ref[1]] # {}
      <3>1. refs'[r] \subseteq Citable(r)
        BY DEF IInv, TypeOK
      <3> QED
        BY <3>1
    <2>2. \A ref \in refs'[r] : ref[1] \in found[r]
      BY <2>1 DEF IInv, Selected
    <2> QED
      BY <2>2 DEF IInv, TypeOK, Selected, SelectedItems
  <1>4. Passed(r)'
    BY DEF IInv, TypeOK, Passed, SelectedItems, Ledger
  <1>5. Ledger(r)'
    BY DEF IInv, TypeOK, Ledger, Concluded
  <1>6. Hands(r)'
    BY GroundedAssumption DEF IInv, TypeOK, Hands
  <1>7. \A q \in Requests \ {r} : Untouched(q)
    BY GroundedAssumption DEF IInv, TypeOK, Untouched
  <1>8. Early(r)'
    BY DEF IInv, TypeOK, Early
  <1> QED
    BY <1>1, <1>2, <1>3, <1>4, <1>5, <1>6, <1>7, <1>8, OneRequestSteps DEF Local

LEMMA GenerationFailsStep ==
  ASSUME IInv, NEW r \in Requests, GenerationFails(r)
  PROVE  IInv'
  <1> USE DEF GenerationFails, Conclude, Go, dbState, evidenceState
  <1>1. TypeOK'
    BY GroundedAssumption DEF IInv, TypeOK, Stages, Watching, Outcomes
  <1>2. Followed(r)'
    BY DEF IInv, TypeOK, Followed, Watching
  <1>3. Selected(r)'
    BY DEF IInv, TypeOK, Selected, SelectedItems
  <1>4. Passed(r)'
    BY DEF IInv, TypeOK, Passed, SelectedItems, Ledger
  <1>5. Ledger(r)'
    BY DEF IInv, TypeOK, Ledger, Concluded
  <1>6. Hands(r)'
    BY GroundedAssumption DEF IInv, TypeOK, Hands
  <1>7. \A q \in Requests \ {r} : Untouched(q)
    BY GroundedAssumption DEF IInv, TypeOK, Untouched
  <1>8. Early(r)'
    BY DEF IInv, TypeOK, Early
  <1> QED
    BY <1>1, <1>2, <1>3, <1>4, <1>5, <1>6, <1>7, <1>8, OneRequestSteps DEF Local

LEMMA RereadItemsStep ==
  ASSUME IInv, NEW r \in Requests, RereadItems(r)
  PROVE  IInv'
  <1> USE DEF RereadItems, Unchanged, Go, dbState, evidenceState
  <1>1. TypeOK'
    BY GroundedAssumption DEF IInv, TypeOK, Stages, Watching, Outcomes
  <1>2. Followed(r)'
    BY DEF IInv, TypeOK, Followed, Watching
  <1>3. Selected(r)'
    BY DEF IInv, TypeOK, Selected, SelectedItems
  <1>4. Passed(r)'
    <2>1. /\ SelectedItems(r)' = SelectedItems(r) /\ SelectedItems(r) \subseteq found[r]
          /\ found[r] \subseteq Items
      BY DEF IInv, TypeOK, Selected, SelectedItems
    <2>2. fresh'[r] => \A i \in SelectedItems(r) : store[i].revision = revision[r][i]
      BY DEF IInv, TypeOK
    <2>3. \A i \in found[r] : /\ i \in disturbed[r] => store[i].revision > revision[r][i]
                             /\ revision[r][i] \in Nat
      BY <2>1 DEF IInv, TypeOK, Followed, Watching
    <2>4. fresh'[r] => SelectedItems(r) \intersect disturbed[r] = {}
      BY <2>1, <2>2, <2>3
    <2>5. outcome'[r] = outcome[r] /\ outcome[r] = "none" /\ disturbed'[r] = disturbed[r]
      BY DEF IInv, Ledger
    <2> QED
      BY <2>1, <2>4, <2>5 DEF Passed
  <1>5. Ledger(r)'
    BY DEF IInv, TypeOK, Ledger, Concluded
  <1>6. Hands(r)'
    BY GroundedAssumption DEF IInv, TypeOK, Hands
  <1>7. \A q \in Requests \ {r} : Untouched(q)
    BY GroundedAssumption DEF IInv, TypeOK, Untouched
  <1>8. Early(r)'
    BY DEF IInv, TypeOK, Early
  <1> QED
    BY <1>1, <1>2, <1>3, <1>4, <1>5, <1>6, <1>7, <1>8, OneRequestSteps DEF Local

LEMMA RereadClaimsStep ==
  ASSUME IInv, NEW r \in Requests, RereadClaims(r)
  PROVE  IInv'
  <1> USE DEF RereadClaims, Conclude, CloseTransaction, Go, evidenceState
  <1>1. TypeOK'
    <2>1. stage' \in [Requests -> Stages] /\ outcome' \in [Requests -> Outcomes]
      BY DEF IInv, TypeOK, Stages, Outcomes
    <2>2. /\ inTransaction' \in SUBSET Requests
          /\ holder' \in [Users -> Requests \union {NoRequest}]
      BY DEF IInv, TypeOK
    <2> QED
      BY <2>1, <2>2 DEF IInv, TypeOK
  <1>2. Followed(r)'
    BY DEF IInv, TypeOK, Followed, Watching
  <1>3. Selected(r)'
    BY DEF IInv, TypeOK, Selected, SelectedItems
  <1>4. Passed(r)'
    BY DEF IInv, TypeOK, Passed, SelectedItems, Ledger
  <1>5. Ledger(r)'
    BY DEF IInv, TypeOK, Ledger, Concluded
  <1>6. Hands(r)'
    BY GroundedAssumption DEF IInv, TypeOK, Hands
  <1>7. \A q \in Requests \ {r} : Untouched(q)
    BY GroundedAssumption DEF IInv, TypeOK, Untouched
  <1>8. Early(r)'
    BY DEF IInv, TypeOK, Early
  <1> QED
    BY <1>1, <1>2, <1>3, <1>4, <1>5, <1>6, <1>7, <1>8, OneRequestSteps DEF Local

LEMMA NothingToRecheckStep ==
  ASSUME IInv, NEW r \in Requests, NothingToRecheck(r)
  PROVE  IInv'
  <1> USE DEF NothingToRecheck, Conclude, Go, dbState, evidenceState
  <1>1. TypeOK'
    BY GroundedAssumption DEF IInv, TypeOK, Stages, Watching, Outcomes
  <1>2. Followed(r)'
    BY DEF IInv, TypeOK, Followed, Watching
  <1>3. Selected(r)'
    BY DEF IInv, TypeOK, Selected, SelectedItems
  <1>4. Passed(r)'
    BY DEF IInv, TypeOK, Passed, SelectedItems, Ledger
  <1>5. Ledger(r)'
    BY DEF IInv, TypeOK, Ledger, Concluded
  <1>6. Hands(r)'
    BY GroundedAssumption DEF IInv, TypeOK, Hands
  <1>7. \A q \in Requests \ {r} : Untouched(q)
    BY GroundedAssumption DEF IInv, TypeOK, Untouched
  <1>8. Early(r)'
    BY DEF IInv, TypeOK, Early
  <1> QED
    BY <1>1, <1>2, <1>3, <1>4, <1>5, <1>6, <1>7, <1>8, OneRequestSteps DEF Local

LEMMA RecordStep ==
  ASSUME IInv, NEW r \in Requests, Record(r)
  PROVE  IInv'
  <1> USE DEF Record, ResultOf, CloseTransaction, Go, evidenceState
  <1>1. TypeOK'
    <2>1. audit' \in [Requests -> SUBSET {"reserved", "rate_limited", "success", "failure"}]
      <3>1. ResultOf(outcome[r]) \in {"success", "failure"}
        OBVIOUS
      <3>2. \/ audit' = [audit EXCEPT ![r] = audit[r] \union {ResultOf(outcome[r])}]
            \/ audit' = audit
        OBVIOUS
      <3>3. audit \in [Requests -> SUBSET {"reserved", "rate_limited", "success", "failure"}]
        BY DEF IInv, TypeOK
      <3> HIDE DEF ResultOf, Record
      <3> QED
        BY <3>1, <3>2, <3>3
    <2>2. stage' \in [Requests -> Stages]
      BY DEF IInv, TypeOK, Stages
    <2>3. /\ inTransaction' \in SUBSET Requests
          /\ holder' \in [Users -> Requests \union {NoRequest}]
      BY DEF IInv, TypeOK
    <2> QED
      BY <2>1, <2>2, <2>3 DEF IInv, TypeOK
  <1>2. Followed(r)'
    BY DEF IInv, TypeOK, Followed, Watching
  <1>3. Selected(r)'
    BY DEF IInv, TypeOK, Selected, SelectedItems
  <1>4. Passed(r)'
    BY DEF IInv, TypeOK, Passed, SelectedItems, Ledger
  <1>5. Ledger(r)'
    BY DEF IInv, TypeOK, Ledger, Concluded
  <1>6. Hands(r)'
    BY GroundedAssumption DEF IInv, TypeOK, Hands
  <1>7. \A q \in Requests \ {r} : Untouched(q)
    BY GroundedAssumption DEF IInv, TypeOK, Untouched
  <1>8. Early(r)'
    BY DEF IInv, TypeOK, Early
  <1> QED
    BY <1>1, <1>2, <1>3, <1>4, <1>5, <1>6, <1>7, <1>8, OneRequestSteps DEF Local

LEMMA DatabaseErrorStep ==
  ASSUME IInv, NEW r \in Requests, DatabaseError(r)
  PROVE  IInv'
  <1> USE DEF DatabaseError, Conclude, End, CloseTransaction, Go, evidenceState
  <1>1. TypeOK'
    BY GroundedAssumption DEF IInv, TypeOK, Stages, Watching, Outcomes
  <1>2. Followed(r)'
    BY DEF IInv, TypeOK, Followed, Watching
  <1>3. Selected(r)'
    BY DEF IInv, TypeOK, Selected, SelectedItems
  <1>4. Passed(r)'
    BY DEF IInv, TypeOK, Passed, SelectedItems, Ledger
  <1>5. Ledger(r)'
    BY DEF IInv, TypeOK, Ledger, Concluded
  <1>6. Hands(r)'
    BY GroundedAssumption DEF IInv, TypeOK, Hands
  <1>7. \A q \in Requests \ {r} : Untouched(q)
    BY GroundedAssumption DEF IInv, TypeOK, Untouched
  <1>8. Early(r)'
    BY DEF IInv, TypeOK, Early
  <1> QED
    BY <1>1, <1>2, <1>3, <1>4, <1>5, <1>6, <1>7, <1>8, OneRequestSteps DEF Local

-----------------------------------------------------------------------------
(* The theorems                                                            *)

THEOREM Invariance == Spec => []IInv
  <1>1. IInv /\ [Next]_vars => IInv'
    <2> SUFFICES ASSUME IInv, [Next]_vars PROVE IInv'
      OBVIOUS
    <2>1. CASE \E i \in Items : Edit(i)
      BY <2>1, EditStep
    <2>2. ASSUME NEW r \in Requests,
                 Arrive(r) \/ ServerStep(r) \/ Generate(r) \/ GenerationFails(r) \/ DatabaseError(r)
          PROVE  IInv'
      BY <2>2, ArriveStep, ReadItemsStep, ReadClaimsStep, LockUserStep, ReserveStep, DenyStep,
         GenerateStep, GenerationFailsStep, RereadItemsStep, RereadClaimsStep,
         NothingToRecheckStep, RecordStep, DatabaseErrorStep
         DEF ServerStep
    <2>3. CASE UNCHANGED vars
      BY <2>3 DEF vars, IInv, TypeOK, Followed, Early, Selected, SelectedItems, Passed, Ledger, Hands
    <2> QED
      BY <2>1, <2>2, <2>3 DEF Next
  <1> QED
    BY InitInv, <1>1, PTL DEF Spec

(* Every variable of the request lifecycle keeps to its values. *)
THEOREM TypeCorrect == Spec => []TypeOK
  <1>1. IInv => TypeOK
    BY DEF IInv
  <1> QED
    BY <1>1, Invariance, PTL

(* revalidate_selected_evidence: comparing the revision is enough for an     *)
(* answer to quote only what stood unchanged since it was retrieved.        *)
THEOREM QuotesStand == Spec => []QuotesWereStanding
  <1>1. IInv => QuotesWereStanding
    BY DEF IInv, Passed, QuotesWereStanding
  <1> QED
    BY <1>1, Invariance, PTL

(* execute_grounded_workflow: the provider is awaited without a transaction  *)
(* or a lock, and after the reservation is committed.                       *)
THEOREM ProviderAwaitedFreely == Spec => []ProviderHoldsNothing
  <1>1. IInv => ProviderHoldsNothing
    BY DEF IInv, Hands, Ledger, ProviderHoldsNothing
  <1> QED
    BY <1>1, Invariance, PTL

(* _record_result_safely: a result row may be missing but is never wrong. *)
THEOREM AuditNeverWrong == Spec => []AuditTruthful
  <1>1. IInv => AuditTruthful
    BY DEF IInv, Ledger, AuditTruthful, Concluded
  <1> QED
    BY <1>1, Invariance, PTL
==============================================================================
