-------------------------- MODULE RecoveryExecutor ---------------------------
(***************************************************************************)
(* RecoveryExecutor.execute (agent_os/runtime.py) under RecoveryPolicy     *)
(* (agent_os/reliability.py): one call that runs a tool operation, decides *)
(* what to do with each failure, and ends with a verdict on the external   *)
(* effect.  The operation, its classifier, the verifier and the recovery   *)
(* callbacks belong to the caller and are the environment here.            *)
(***************************************************************************)
EXTENDS Naturals

CONSTANTS
  MaxAttempts,      \* RecoveryBudget.max_attempts
  MaxToolCalls,     \* RecoveryBudget.max_tool_calls
  MaxElapsed,       \* RecoveryBudget.max_elapsed_seconds, in clock ticks
  DelayedEffects    \* may an effect become visible only after its call failed?

ASSUME BudgetAssumption ==
  /\ MaxAttempts \in Nat \ {0}
  /\ MaxToolCalls \in Nat \ {0}
  /\ MaxElapsed \in Nat \ {0}
  /\ DelayedEffects \in BOOLEAN

VARIABLES
  call,             \* the arguments of execute: OperationSpec and callbacks
  pc,               \* where execute is
  attempts, toolCalls, verificationCalls,
  elapsed,          \* monotonic() - start, in ticks
  lastAction,       \* the last entry of the actions list
  outcome,          \* ExecutionResult: success, external_outcome, budget_exceeded
  effects,          \* times the external effect was applied (external system)
  inFlight,         \* effects dispatched by a failed call that will still land
  replanned,        \* has the replan callback changed the operation?
  failure,          \* history: class of the last failure
  unverified,       \* history: uncertain side effect not looked at since
  returned          \* history: operation() has returned normally

vars == <<call, pc, attempts, toolCalls, verificationCalls, elapsed, lastAction,
          outcome, effects, inFlight, replanned, failure, unverified, returned>>

callbackActions == {"repair_arguments", "refresh_context", "replan"}
stopActions == {"escalate", "abstain"}
RecoveryAction == {"retry", "verify_before_retry"} \union callbackActions \union stopActions

transientFailures == {"timeout", "rate_limit", "upstream_unavailable"}
FailureClass == transientFailures \union
  {"malformed_arguments", "partial_state", "stale_context", "contradictory_evidence",
   "verification_failed", "policy_denied", "unknown"}

FailureSignal ==
  [failure_class : FailureClass, side_effect_uncertain : BOOLEAN, idempotent : BOOLEAN,
   has_alternative : BOOLEAN, postcondition_verified : BOOLEAN]

Calls ==
  [idempotent : BOOLEAN, retry_after_verified_absence : BOOLEAN, verifier : BOOLEAN,
   callbacks : SUBSET callbackActions, human_gate : BOOLEAN]

NoOutcome == [success |-> FALSE, external |-> "pending", over_budget |-> FALSE]
Outcomes ==
  [success : BOOLEAN, over_budget : BOOLEAN,
   external : {"pending", "succeeded", "not_applied", "unknown"}]

Ended == pc \in {"returned", "raised"}

-----------------------------------------------------------------------------
(* The policy                                                              *)

Exhausted ==
  attempts >= MaxAttempts \/ toolCalls >= MaxToolCalls \/ elapsed >= MaxElapsed

StopAction == IF call.human_gate THEN "escalate" ELSE "abstain"

(* mutant: the classifier's word on idempotence is taken *)
SignalAsClassified(s) == s

(* A classifier may lower replay safety but never raise it above the spec. *)
EffectiveSignal(s) == [s EXCEPT !.idempotent = @ /\ call.idempotent]

TouchedState(s) == s.side_effect_uncertain \/ s.failure_class = "partial_state"

(* mutant: an idempotent operation is repeated without looking *)
RetryTouched(s) ==
  IF s.idempotent THEN "retry"
  ELSE IF s.postcondition_verified THEN "replan" ELSE "verify_before_retry"

(* The outside world may have changed. *)
ActionWhenTouched(s) ==
  IF s.postcondition_verified THEN "replan" ELSE "verify_before_retry"

(* It has not, as far as the classifier knows. *)
ActionWhenClean(s) ==
  CASE s.failure_class \in transientFailures ->
         IF s.idempotent THEN "retry"
         ELSE IF s.has_alternative THEN "replan" ELSE StopAction
    [] s.failure_class = "malformed_arguments" -> "repair_arguments"
    [] s.failure_class = "stale_context" -> "refresh_context"
    [] s.failure_class \in {"contradictory_evidence", "verification_failed"} ->
         IF attempts + 1 >= MaxAttempts THEN StopAction ELSE "replan"
    [] OTHER -> IF attempts = 0 THEN "replan" ELSE StopAction

(* RecoveryPolicy.decide: which action the failure gets. *)
decide(s) ==
  IF Exhausted \/ s.failure_class = "policy_denied" THEN StopAction
  ELSE IF TouchedState(s) THEN ActionWhenTouched(s)
  ELSE ActionWhenClean(s)

-----------------------------------------------------------------------------
(* The environment: what the caller's callables may do                     *)

Fates == {"none", "applied"} \union (IF DelayedEffects THEN {"delayed"} ELSE {})

(* After the replan callback the operation continues from what it observes: *)
(* it does not apply an effect that is already visible.                     *)
NewEffects == IF replanned /\ effects > 0 THEN 0 ELSE 1

Suffer(fate) ==
  /\ effects' = IF fate = "applied" THEN effects + NewEffects ELSE effects
  /\ inFlight' = IF fate = "delayed" THEN inFlight + NewEffects ELSE inFlight

(* The classifier's contract: a class that is repeated after a local fix   *)
(* without looking at the outside world means the tool had not run, and a   *)
(* postcondition is reported verified only when the effect is there.        *)
Honest(s, fate) ==
  /\ s.failure_class \in {"malformed_arguments", "stale_context"} /\ ~s.side_effect_uncertain
       => fate = "none"
  /\ s.postcondition_verified => effects' > 0

-----------------------------------------------------------------------------
(* The executor                                                            *)

Init ==
  /\ call \in Calls
  /\ pc = "head"
  /\ attempts = 0 /\ toolCalls = 0 /\ verificationCalls = 0
  /\ elapsed = 0
  /\ lastAction = "none"
  /\ outcome = NoOutcome
  /\ effects = 0 /\ inFlight = 0
  /\ replanned = FALSE
  /\ failure = "none" /\ unverified = FALSE /\ returned = FALSE

(* Every exit but a raise goes through the tracer first, and a trace sink  *)
(* that raises takes the result with it.                                   *)
End(o) ==
  \/ pc' = "returned" /\ outcome' = o
  \/ pc' = "raised" /\ UNCHANGED outcome

Stopped(external) ==
  End([success |-> FALSE, external |-> external, over_budget |-> FALSE])

Continue(next) ==
  \/ pc' = next /\ UNCHANGED outcome
  \/ pc' = "raised" /\ UNCHANGED outcome

(* mutant: a spent budget is reported as an effect that did not happen *)
BudgetOutcomeHopeful == "not_applied"

BudgetOutcome == IF toolCalls = 0 THEN "not_applied" ELSE "unknown"

StopOnBudget ==
  /\ pc = "head" /\ Exhausted
  /\ lastAction' = StopAction
  /\ Stopped(BudgetOutcome)
  /\ UNCHANGED <<call, attempts, toolCalls, verificationCalls, elapsed, effects,
                 inFlight, replanned, failure, unverified, returned>>

Dispatch ==
  /\ pc = "head" /\ ~Exhausted
  /\ pc' = "running"
  /\ attempts' = attempts + 1
  /\ toolCalls' = toolCalls + 1
  /\ UNCHANGED <<call, verificationCalls, elapsed, lastAction, outcome, effects,
                 inFlight, replanned, failure, unverified, returned>>

OperationReturns ==
  /\ pc = "running"
  /\ effects' = effects + NewEffects
  /\ returned' = TRUE
  /\ End([success |-> TRUE, external |-> "succeeded", over_budget |-> elapsed >= MaxElapsed])
  /\ UNCHANGED <<call, attempts, toolCalls, verificationCalls, elapsed, lastAction,
                 inFlight, replanned, failure, unverified>>

(* What the loop does with the action just chosen. *)
CarryOut ==
  \/ /\ lastAction' = "retry"
     /\ Continue("head") /\ UNCHANGED verificationCalls
  \/ /\ lastAction' = "verify_before_retry" /\ call.verifier
     /\ Continue("verifying") /\ verificationCalls' = verificationCalls + 1
  \/ /\ lastAction' \in callbackActions \intersect call.callbacks
     /\ Continue("callback") /\ UNCHANGED verificationCalls
  \/ /\ \/ lastAction' = "verify_before_retry" /\ ~call.verifier
        \/ lastAction' \in (callbackActions \ call.callbacks) \union stopActions
     /\ Stopped("unknown") /\ UNCHANGED verificationCalls

(* The operation raises, the failure is classified and an action chosen.   *)
OperationFails(s, fate) ==
  /\ pc = "running"
  /\ failure' = s.failure_class
  /\ unverified' = (TouchedState(s) /\ ~s.postcondition_verified)
  /\ Suffer(fate)
  /\ Honest(s, fate)
  /\ lastAction' = decide(EffectiveSignal(s))
  /\ CarryOut
  /\ UNCHANGED <<call, attempts, toolCalls, elapsed, replanned, returned>>

(* A process-control exception, or a classifier that raises itself.        *)
OperationRaises(fate) ==
  /\ pc = "running"
  /\ Suffer(fate)
  /\ pc' = "raised"
  /\ UNCHANGED <<call, attempts, toolCalls, verificationCalls, elapsed, lastAction,
                 outcome, replanned, failure, unverified, returned>>

VerifyRaises ==
  /\ pc = "verifying"
  /\ Stopped("unknown")
  /\ UNCHANGED <<call, attempts, toolCalls, verificationCalls, elapsed, lastAction,
                 effects, inFlight, replanned, failure, unverified, returned>>

(* mutant: an absent postcondition always permits another dispatch *)
MayRepeatAfterAbsence == TRUE

MayRepeat == call.idempotent \/ call.retry_after_verified_absence

VerifyReturns ==
  /\ pc = "verifying"
  /\ unverified' = FALSE
  /\ IF effects > 0
     THEN End([success |-> TRUE, external |-> "succeeded", over_budget |-> FALSE])
     ELSE IF MayRepeat
     THEN Continue("head")
     ELSE Stopped("not_applied")
  /\ UNCHANGED <<call, attempts, toolCalls, verificationCalls, elapsed, lastAction,
                 effects, inFlight, replanned, failure, returned>>

CallbackRaises ==
  /\ pc = "callback"
  /\ Stopped("unknown")
  /\ UNCHANGED <<call, attempts, toolCalls, verificationCalls, elapsed, lastAction,
                 effects, inFlight, replanned, failure, unverified, returned>>

(* mutant: after a local fix the operation runs again, past the budget *)
AfterCallbackUncounted == "running"

AfterCallback == "head"

CallbackReturns ==
  /\ pc = "callback"
  /\ pc' = AfterCallback
  /\ replanned' = (replanned \/ lastAction = "replan")
  /\ UNCHANGED <<call, attempts, toolCalls, verificationCalls, elapsed, lastAction,
                 outcome, effects, inFlight, failure, unverified, returned>>

Step ==
  \/ StopOnBudget \/ Dispatch
  \/ OperationReturns
  \/ \E s \in FailureSignal, fate \in Fates : OperationFails(s, fate)
  \/ \E fate \in Fates : OperationRaises(fate)
  \/ VerifyRaises \/ VerifyReturns
  \/ CallbackRaises \/ CallbackReturns

(* Time beyond the budget is all alike, so the clock stops at MaxElapsed.  *)
Tick ==
  /\ ~Ended /\ elapsed < MaxElapsed
  /\ elapsed' = elapsed + 1
  /\ UNCHANGED <<call, pc, attempts, toolCalls, verificationCalls, lastAction, outcome,
                 effects, inFlight, replanned, failure, unverified, returned>>

EffectLands ==
  /\ inFlight > 0
  /\ inFlight' = inFlight - 1
  /\ effects' = effects + 1
  /\ UNCHANGED <<call, pc, attempts, toolCalls, verificationCalls, elapsed, lastAction,
                 outcome, replanned, failure, unverified, returned>>

Next == Step \/ Tick \/ EffectLands

(* Weak fairness of the executor: every callable it is given returns or     *)
(* raises in the end.                                                       *)
Spec == Init /\ [][Next]_vars /\ WF_vars(Step)

-----------------------------------------------------------------------------
(* Properties                                                              *)

TypeOK ==
  /\ call \in Calls
  /\ pc \in {"head", "running", "verifying", "callback", "returned", "raised"}
  /\ attempts \in 0..MaxAttempts
  /\ toolCalls \in 0..MaxToolCalls
  /\ verificationCalls \in Nat
  /\ elapsed \in 0..MaxElapsed
  /\ lastAction \in RecoveryAction \union {"none"}
  /\ outcome \in Outcomes
  /\ effects \in Nat /\ inFlight \in Nat
  /\ failure \in FailureClass \union {"none"}
  /\ replanned \in BOOLEAN /\ unverified \in BOOLEAN /\ returned \in BOOLEAN

(* With a verifier that sees the truth, an operation that is not idempotent *)
(* is applied at most once, whatever fails, in whatever order, and whatever *)
(* the classifier says about idempotence.                                   *)
AtMostOnce == ~call.idempotent => effects + inFlight <= 1

(* When effects may become visible late, at-most-once still holds for the  *)
(* calls that did not opt into a second dispatch after an observation.      *)
OptedIntoRepeat ==
  call.idempotent \/ call.retry_after_verified_absence \/ "replan" \in call.callbacks
AtMostOnceUnlessOptedIn == ~OptedIntoRepeat => effects + inFlight <= 1

(* Safety invariants 1 and 2 of RELIABILITY_RECOVERY.md: nothing is         *)
(* dispatched over an unexamined side effect or after a policy denial.      *)
NoBlindRetry == [][toolCalls' > toolCalls => ~unverified /\ failure # "policy_denied"]_vars

(* Every call ends: recovery cannot loop for ever.                          *)
Termination == <>Ended

(* What the caller is told agrees with the world; the call implements the   *)
(* contract with the effect seen as applied or not.                         *)
Verdict ==
  CASE pc = "returned" -> outcome.external
    [] pc = "raised" -> "raised"
    [] OTHER -> "pending"
Contract == INSTANCE OutcomeContract WITH verdict <- Verdict, applied <- effects > 0
ImplementsContract == Contract!ContractSpec

(* RELIABILITY_RECOVERY.md, recovery map: an unknown failure gets one       *)
(* bounded replan while budget remains.                                     *)
UnknownFailureReplans ==
  [][ pc = "running" /\ pc' # "running" /\ failure = "none" /\ failure' = "unknown"
      /\ ~unverified' /\ ~Exhausted => lastAction' = "replan" ]_vars

(* RELIABILITY_RECOVERY.md, safety invariant 4: a completed successful call *)
(* is reported as a success.                                                *)
KnownSuccessReported == returned /\ Ended => outcome.success
==============================================================================
