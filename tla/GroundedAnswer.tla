---------------------------- MODULE GroundedAnswer -----------------------------
(***************************************************************************)
(* POST /answers/grounded (routes_generated_answers.py,                    *)
(* grounded_workflow.py, generated_answers.py): requests that read reviewed *)
(* evidence, reserve quota, wait for a provider outside any transaction,    *)
(* read the evidence again, and answer.  Meanwhile editors change it as      *)
(* ContentRows allows.  Whether the quota admits a request is left open      *)
(* here: GenerationQuota says when it does.                                 *)
(***************************************************************************)
EXTENDS ContentRows

CONSTANTS
  Requests, UserOf,     \* the requests and the user who sent each
  Items,                \* content items that match the queries
  Confidence,           \* the confidence that comes with each verdict
  Confidences, Unverified,
  MaxRevision,          \* bound: no item is saved past this revision
  Users, NoRequest

ASSUME GroundedAssumption ==
  /\ UserOf \in [Requests -> Users]
  /\ Confidence \in [Verdicts -> Confidences]
  /\ MaxRevision \in Nat
  /\ NoRequest \notin Requests

VARIABLES
  store,                \* the rows of the items, as their readers see them
  holder,               \* per user: the request that holds the user's row
  inTransaction,        \* requests whose session has an open transaction
  stage,                \* how far each request has come
  found,                \* the items selected for the query
  revision,             \* their content_revision, as it was then
  evidence,             \* the claims of each, as read; {} when it is no evidence
  refs,                 \* the claims the provider selected
  fresh,                \* did the items pass when they were read again?
  outcome,              \* the answer the request will get
  audit,                \* its committed audit rows: reservation and result
  disturbed             \* history: items that changed since `found` was read

vars == <<store, holder, inTransaction, stage, found, revision, evidence, refs,
          fresh, outcome, audit, disturbed>>

dbState == <<store, holder>>
evidenceState == <<found, revision, evidence, disturbed>>
replyState == <<refs, fresh, outcome, audit>>

Init ==
  /\ store \in [Items -> [public : {FALSE}, revision : {1}, verdicts : [Claims -> Verdicts]]]
  /\ holder = [u \in Users |-> NoRequest]
  /\ inTransaction = {}
  /\ stage = [r \in Requests |-> "new"]
  /\ found = [r \in Requests |-> {}]
  /\ revision = [r \in Requests |-> [i \in Items |-> 0]]
  /\ evidence = [r \in Requests |-> [i \in Items |-> {}]]
  /\ refs = [r \in Requests |-> {}]
  /\ fresh = [r \in Requests |-> FALSE]
  /\ outcome = [r \in Requests |-> "none"]
  /\ audit = [r \in Requests |-> {}]
  /\ disturbed = [r \in Requests |-> {}]

-----------------------------------------------------------------------------
(* The editors                                                             *)

Watching == {"claims", "quota", "counting", "generate", "recheck"}

Edit(i) ==
  /\ \E new \in Successors(store[i]) :
       /\ new.revision <= MaxRevision
       /\ store' = [store EXCEPT ![i] = new]
  /\ disturbed' = [r \in Requests |->
                     IF stage[r] \in Watching THEN disturbed[r] \union {i} ELSE disturbed[r]]
  /\ UNCHANGED <<holder, inTransaction, stage, found, revision, evidence, replyState>>

-----------------------------------------------------------------------------
(* The request                                                             *)

Go(r, next) == stage' = [stage EXCEPT ![r] = next]

End(r, how) ==
  /\ Go(r, "ended")
  /\ outcome' = [outcome EXCEPT ![r] = how]

(* Commit or rollback: the connection returns to the pool, locks are gone. *)
CloseTransaction(r) ==
  /\ inTransaction' = inTransaction \ {r}
  /\ holder' = [u \in Users |-> IF holder[u] = r THEN NoRequest ELSE holder[u]]

Arrive(r) ==
  /\ stage[r] = "new"
  /\ Go(r, "items")
  /\ inTransaction' = inTransaction \union {r}
  /\ UNCHANGED <<dbState, evidenceState, replyState>>

(* list_indexed_content: some of the public items match the query. *)
ReadItems(r) ==
  /\ stage[r] = "items"
  /\ \E matching \in SUBSET {i \in Items : store[i].public} :
       /\ found' = [found EXCEPT ![r] = matching]
       /\ revision' = [revision EXCEPT ![r] =
                        [i \in Items |-> IF i \in matching THEN store[i].revision ELSE 0]]
  /\ Go(r, "claims")
  /\ UNCHANGED <<dbState, inTransaction, evidence, disturbed, replyState>>

Usable(verdict) == verdict \in Approved /\ Confidence[verdict] # Unverified

(* An EvidenceClaim keeps the claim's confidence; text and type never change. *)
Copy(i, c) == <<c, Confidence[store[i].verdicts[c]]>>

UsableClaims(i) == {Copy(i, c) : c \in {d \in Claims : Usable(store[i].verdicts[d])}}

(* The selectin load of the claims is a statement of its own.  Items with no *)
(* usable claim are no evidence; the request then ends its transaction, and  *)
(* without evidence it ends there (422).                                     *)
ReadClaims(r) ==
  /\ stage[r] = "claims"
  /\ evidence' = [evidence EXCEPT ![r] =
                    [i \in Items |-> IF i \in found[r] THEN UsableClaims(i) ELSE {}]]
  /\ CloseTransaction(r)
  /\ IF \A i \in found[r] : UsableClaims(i) = {}
     THEN End(r, "no_evidence")
     ELSE Go(r, "quota") /\ UNCHANGED outcome
  /\ UNCHANGED <<store, found, revision, disturbed, refs, fresh, audit>>

(* reserve_generation_quota: SELECT ... FOR UPDATE of the user's row. *)
LockUser(r) ==
  /\ stage[r] = "quota"
  /\ holder[UserOf[r]] = NoRequest
  /\ holder' = [holder EXCEPT ![UserOf[r]] = r]
  /\ inTransaction' = inTransaction \union {r}
  /\ Go(r, "counting")
  /\ UNCHANGED <<store, evidenceState, replyState>>

(* mutant: the reservation is flushed but not committed *)
KeepTransaction(r) == UNCHANGED <<inTransaction, holder>>

CommitReservation(r) == CloseTransaction(r)

Reserve(r) ==
  /\ stage[r] = "counting"
  /\ audit' = [audit EXCEPT ![r] = @ \union {"reserved"}]
  /\ CommitReservation(r)
  /\ Go(r, "generate")
  /\ UNCHANGED <<store, evidenceState, refs, fresh, outcome>>

Deny(r) ==
  /\ stage[r] = "counting"
  /\ audit' = [audit EXCEPT ![r] = @ \union {"rate_limited"}]
  /\ CloseTransaction(r)
  /\ End(r, "limited")
  /\ UNCHANGED <<store, evidenceState, refs, fresh>>

(* What is given to the caller once the result is in the audit log. *)
Conclude(r, how) ==
  /\ Go(r, "record")
  /\ outcome' = [outcome EXCEPT ![r] = how]

Citable(r) ==
  {ref \in Items \X Claims : \E n \in Confidences : <<ref[2], n>> \in evidence[r][ref[1]]}

(* The provider selects claims of the evidence, or finds it insufficient:    *)
(* the contract of the result holds by then.                                *)
Generate(r) ==
  /\ stage[r] = "generate"
  /\ \E selected \in SUBSET Citable(r) : refs' = [refs EXCEPT ![r] = selected]
  /\ Go(r, "recheck")
  /\ UNCHANGED <<dbState, inTransaction, evidenceState, fresh, outcome, audit>>

GenerationFails(r) ==
  /\ stage[r] = "generate"
  /\ \E how \in {"unavailable", "invalid"} : Conclude(r, how)
  /\ UNCHANGED <<dbState, inTransaction, evidenceState, refs, fresh, audit>>

(* mutant: the item need only be public again *)
StillPublic(i, n) == store[i].public

(* The item as revalidation wants it: published, indexed, same revision. *)
Unchanged(i, n) == store[i].public /\ store[i].revision = n

SelectedItems(r) == {ref[1] : ref \in refs[r]}

(* revalidate_selected_evidence: the items are read in a new transaction ... *)
RereadItems(r) ==
  /\ stage[r] = "recheck" /\ refs[r] # {}
  /\ fresh' = [fresh EXCEPT ![r] = \A i \in SelectedItems(r) : Unchanged(i, revision[r][i])]
  /\ inTransaction' = inTransaction \union {r}
  /\ Go(r, "recheck_claims")
  /\ UNCHANGED <<dbState, evidenceState, refs, outcome, audit>>

(* ... and then their claims, and all must be as they were. *)
RereadClaims(r) ==
  LET current == \A ref \in refs[r] :
                   /\ Usable(store[ref[1]].verdicts[ref[2]])
                   /\ Copy(ref[1], ref[2]) \in evidence[r][ref[1]]
  IN
  /\ stage[r] = "recheck_claims"
  /\ IF fresh[r] /\ current
     THEN Conclude(r, "answered") /\ UNCHANGED <<inTransaction, holder>>
     ELSE Conclude(r, "changed") /\ CloseTransaction(r)
  /\ UNCHANGED <<store, evidenceState, refs, fresh, audit>>

(* An answer of "insufficient" quotes nothing and is not read again. *)
NothingToRecheck(r) ==
  /\ stage[r] = "recheck" /\ refs[r] = {}
  /\ Conclude(r, "answered")
  /\ UNCHANGED <<dbState, inTransaction, evidenceState, refs, fresh, audit>>

(* mutant: the provider's success is recorded, not the request's *)
ResultOfProvider(how) == IF how \in {"answered", "changed", "unverified"} THEN "success" ELSE "failure"

ResultOf(how) == IF how = "answered" THEN "success" ELSE "failure"

(* _record_result_safely: an error of the database is logged and swallowed. *)
Record(r) ==
  /\ stage[r] = "record"
  /\ \/ audit' = [audit EXCEPT ![r] = @ \union {ResultOf(outcome[r])}]
     \/ UNCHANGED audit
  /\ CloseTransaction(r)
  /\ Go(r, "ended")
  /\ UNCHANGED <<store, evidenceState, refs, fresh, outcome>>

(* The database fails a statement: while the evidence is read again that is  *)
(* a 503 with a record, and anywhere else the request ends.                  *)
DatabaseError(r) ==
  /\ \/ stage[r] \in {"items", "claims", "quota", "counting"} /\ End(r, "error")
     \/ stage[r] = "recheck" /\ refs[r] # {} /\ Conclude(r, "unverified")
     \/ stage[r] = "recheck_claims" /\ Conclude(r, "unverified")
  /\ CloseTransaction(r)
  /\ UNCHANGED <<store, evidenceState, refs, fresh, audit>>

ServerStep(r) ==
  \/ ReadItems(r) \/ ReadClaims(r) \/ LockUser(r) \/ Reserve(r) \/ Deny(r)
  \/ RereadItems(r) \/ RereadClaims(r) \/ NothingToRecheck(r) \/ Record(r)

Next ==
  \/ \E i \in Items : Edit(i)
  \/ \E r \in Requests :
       Arrive(r) \/ ServerStep(r) \/ Generate(r) \/ GenerationFails(r) \/ DatabaseError(r)

(* The server's own steps are taken; nothing obliges the provider to answer, *)
(* the editors to edit, or the database to fail.                             *)
Fairness == \A r \in Requests : WF_vars(ServerStep(r))

Spec == Init /\ [][Next]_vars /\ Fairness

-----------------------------------------------------------------------------
(* Properties                                                              *)

Stages == Watching \union {"new", "items", "recheck_claims", "record", "ended"}
Outcomes == {"none", "no_evidence", "limited", "unavailable", "invalid", "changed",
             "unverified", "answered", "error"}

TypeOK ==
  /\ store \in [Items -> Rows]
  /\ holder \in [Users -> Requests \union {NoRequest}]
  /\ inTransaction \in SUBSET Requests
  /\ stage \in [Requests -> Stages]
  /\ found \in [Requests -> SUBSET Items]
  /\ revision \in [Requests -> [Items -> Nat]]
  /\ evidence \in [Requests -> [Items -> SUBSET (Claims \X Confidences)]]
  /\ refs \in [Requests -> SUBSET (Items \X Claims)]
  /\ fresh \in [Requests -> BOOLEAN]
  /\ outcome \in [Requests -> Outcomes]
  /\ audit \in [Requests -> SUBSET {"reserved", "rate_limited", "success", "failure"}]
  /\ disturbed \in [Requests -> SUBSET Items]

(* An answer quotes only items that nothing happened to between the first    *)
(* read and the second: neither withdrawn and back again, nor edited, nor    *)
(* read half before and half after a change.                                *)
QuotesWereStanding ==
  \A r \in Requests :
    outcome[r] = "answered" => SelectedItems(r) \intersect disturbed[r] = {}

(* platform/apps/api/README.md: the reservation is committed before any      *)
(* network call.  A request that waits for the provider has no transaction   *)
(* and no lock, and its reservation is in the log.                           *)
ProviderHoldsNothing ==
  \A r \in Requests :
    stage[r] = "generate" =>
      /\ r \notin inTransaction
      /\ \A u \in Users : holder[u] # r
      /\ "reserved" \in audit[r]

(* The audit log never says more than happened: success only for an answer   *)
(* given, failure only for one refused, either only after a reservation.    *)
AuditTruthful ==
  \A r \in Requests :
    /\ "success" \in audit[r] => outcome[r] = "answered"
    /\ "failure" \in audit[r] => outcome[r] \in {"unavailable", "invalid", "changed", "unverified"}
    /\ outcome[r] \in {"answered", "unavailable", "invalid", "changed", "unverified"} =>
         "reserved" \in audit[r]

(* A provider that does not answer one request holds up no other: each gets  *)
(* to its own provider call or to its end.                                   *)
OthersProceed ==
  \A r \in Requests : stage[r] \notin {"new", "generate"} ~> stage[r] \in {"generate", "ended"}
==============================================================================
