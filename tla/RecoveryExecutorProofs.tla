----------------------- MODULE RecoveryExecutorProofs ------------------------
(***************************************************************************)
(* What TLAPS proves of RecoveryExecutor for every budget: its types, that *)
(* recovery never repeats a call blindly, that a call that is not          *)
(* idempotent is applied at most once, and that execute implements         *)
(* OutcomeContract.  The last two need effects that are visible by the     *)
(* time the call has failed (DelayedEffects = FALSE).                      *)
(***************************************************************************)
EXTENDS RecoveryExecutor, TLAPS

-----------------------------------------------------------------------------
(* The policy                                                              *)

(* RecoveryPolicy.decide answers with one of its actions. *)
LEMMA DecideType ==
  ASSUME NEW s \in FailureSignal
  PROVE  decide(s) \in RecoveryAction
  BY DEF decide, ActionWhenTouched, ActionWhenClean, StopAction, RecoveryAction,
         callbackActions, stopActions, FailureSignal

(* A blind retry is chosen only for a failure that left nothing to look at, *)
(* of an operation that may be repeated, and never after a denial.          *)
LEMMA RetryIsSafe ==
  ASSUME NEW s \in FailureSignal, decide(s) = "retry"
  PROVE  s.idempotent /\ ~TouchedState(s) /\ s.failure_class # "policy_denied"
  BY DEF decide, ActionWhenTouched, ActionWhenClean, StopAction, FailureSignal

(* A callback runs only when no side effect is in doubt, and never after a  *)
(* denial; repair and refresh only for failures that happened before the   *)
(* tool ran.                                                               *)
LEMMA CallbackIsSafe ==
  ASSUME NEW s \in FailureSignal, decide(s) \in callbackActions
  PROVE  /\ s.failure_class # "policy_denied"
         /\ TouchedState(s) => s.postcondition_verified
         /\ decide(s) # "replan" =>
              /\ s.failure_class \in {"malformed_arguments", "stale_context"}
              /\ ~s.side_effect_uncertain
  BY DEF decide, ActionWhenTouched, ActionWhenClean, StopAction, callbackActions,
         TouchedState, FailureSignal

(* Verification is asked for only after a failure that was not a denial. *)
LEMMA VerifyIsSafe ==
  ASSUME NEW s \in FailureSignal, decide(s) = "verify_before_retry"
  PROVE  s.failure_class # "policy_denied"
  BY DEF decide, ActionWhenTouched, ActionWhenClean, StopAction, FailureSignal

(* The spec's idempotence bounds the classifier's, and nothing else changes. *)
LEMMA EffectiveSignalFacts ==
  ASSUME NEW s \in FailureSignal, call \in Calls
  PROVE  /\ EffectiveSignal(s) \in FailureSignal
         /\ EffectiveSignal(s).idempotent => call.idempotent
         /\ EffectiveSignal(s).failure_class = s.failure_class
         /\ EffectiveSignal(s).side_effect_uncertain = s.side_effect_uncertain
         /\ EffectiveSignal(s).postcondition_verified = s.postcondition_verified
         /\ TouchedState(EffectiveSignal(s)) = TouchedState(s)
  BY DEF EffectiveSignal, FailureSignal, Calls, TouchedState

-----------------------------------------------------------------------------
(* Types                                                                   *)

(* The initial values have their types. *)
LEMMA TypeInit == Init => TypeOK
<1>1. NoOutcome \in Outcomes
  BY DEF NoOutcome, Outcomes
<1>2. 0 \in 0..MaxAttempts /\ 0 \in 0..MaxToolCalls /\ 0 \in 0..MaxElapsed /\ 0 \in Nat
  BY BudgetAssumption
<1> QED
  BY <1>1, <1>2, Zenon DEF Init, TypeOK

(* A call that ends has an outcome, or raised. *)
LEMMA EndFacts ==
  ASSUME NEW o \in Outcomes, outcome \in Outcomes, End(o)
  PROVE  pc' \in {"returned", "raised"} /\ outcome' \in Outcomes
  BY DEF End

(* So does one that stops short. *)
LEMMA StoppedFacts ==
  ASSUME NEW x \in {"not_applied", "unknown"}, outcome \in Outcomes, Stopped(x)
  PROVE  pc' \in {"returned", "raised"} /\ outcome' \in Outcomes
<1>1. [success |-> FALSE, external |-> x, over_budget |-> FALSE] \in Outcomes
  BY DEF Outcomes
<1> QED
  BY <1>1, EndFacts DEF Stopped

(* Every step keeps every variable in its type; the counters stay within    *)
(* their budgets because the loop head checks before it counts.             *)
LEMMA TypeStep == TypeOK /\ [Next]_vars => TypeOK'
<1> SUFFICES ASSUME TypeOK, [Next]_vars PROVE TypeOK'
  OBVIOUS
<1> USE BudgetAssumption DEF TypeOK
<1>1. CASE StopOnBudget
  <2>1. BudgetOutcome \in {"not_applied", "unknown"} /\ StopAction \in RecoveryAction
    BY DEF BudgetOutcome, StopAction, RecoveryAction, stopActions
  <2> QED
    BY <1>1, <2>1, StoppedFacts DEF StopOnBudget
<1>2. CASE Dispatch
  BY <1>2 DEF Dispatch, Exhausted
<1>3. CASE OperationReturns
  <2>1. [success |-> TRUE, external |-> "succeeded", over_budget |-> elapsed >= MaxElapsed]
          \in Outcomes
    BY DEF Outcomes
  <2> QED
    BY <1>3, <2>1, EndFacts DEF OperationReturns, NewEffects
<1>4. ASSUME NEW s \in FailureSignal, NEW fate \in Fates, OperationFails(s, fate)
      PROVE  TypeOK'
  <2>1. lastAction' \in RecoveryAction
    BY <1>4, EffectiveSignalFacts, DecideType DEF OperationFails
  <2>2. s.failure_class \in FailureClass
    BY DEF FailureSignal
  <2>3. effects' \in Nat /\ inFlight' \in Nat
    BY <1>4 DEF OperationFails, Suffer, NewEffects
  <2>4. pc' \in {"head", "running", "verifying", "callback", "returned", "raised"}
        /\ outcome' \in Outcomes /\ verificationCalls' \in Nat
    BY <1>4, StoppedFacts DEF OperationFails, CarryOut, Continue
  <2>5. unverified' \in BOOLEAN /\ failure' \in FailureClass \union {"none"}
    BY <1>4, <2>2 DEF OperationFails, FailureSignal, TouchedState
  <2> QED
    BY <1>4, <2>1, <2>3, <2>4, <2>5 DEF OperationFails
<1>5. ASSUME NEW fate \in Fates, OperationRaises(fate) PROVE TypeOK'
  BY <1>5 DEF OperationRaises, Suffer, NewEffects
<1>6. CASE VerifyRaises
  BY <1>6, StoppedFacts DEF VerifyRaises
<1>7. CASE VerifyReturns
  <2>1. [success |-> TRUE, external |-> "succeeded", over_budget |-> FALSE] \in Outcomes
    BY DEF Outcomes
  <2> QED
    BY <1>7, <2>1, EndFacts, StoppedFacts DEF VerifyReturns, Continue
<1>8. CASE CallbackRaises
  BY <1>8, StoppedFacts DEF CallbackRaises
<1>9. CASE CallbackReturns
  BY <1>9 DEF CallbackReturns, AfterCallback
<1>10. CASE Tick
  BY <1>10 DEF Tick
<1>11. CASE EffectLands
  BY <1>11 DEF EffectLands
<1>12. CASE UNCHANGED vars
  BY <1>12 DEF vars
<1> QED
  BY <1>1, <1>2, <1>3, <1>4, <1>5, <1>6, <1>7, <1>8, <1>9, <1>10, <1>11, <1>12
     DEF Next, Step

(* Every variable keeps its type, and attempts and tool calls never exceed  *)
(* the budget.                                                              *)
THEOREM TypeCorrect == Spec => []TypeOK
<1>1. Init => TypeOK
  BY TypeInit
<1>2. TypeOK /\ [Next]_vars => TypeOK'
  BY TypeStep
<1> QED
  BY <1>1, <1>2, PTL DEF Spec

-----------------------------------------------------------------------------
(* No blind retry                                                          *)

(* A policy denial never comes back to the loop; an unexamined side effect  *)
(* comes back only through the verifier.                                    *)
Examined ==
  /\ pc \in {"head", "running", "callback"} => ~unverified /\ failure # "policy_denied"
  /\ pc = "verifying" => failure # "policy_denied"

(* The executor keeps that invariant through every kind of failure. *)
LEMMA ExaminedStep == TypeOK /\ Examined /\ [Next]_vars => Examined'
<1> SUFFICES ASSUME TypeOK, Examined, [Next]_vars PROVE Examined'
  OBVIOUS
<1> USE DEF Examined
<1>1. CASE StopOnBudget
  BY <1>1 DEF StopOnBudget, Stopped, End
<1>2. CASE Dispatch
  BY <1>2 DEF Dispatch
<1>3. CASE OperationReturns
  BY <1>3 DEF OperationReturns, End
<1>4. ASSUME NEW s \in FailureSignal, NEW fate \in Fates, OperationFails(s, fate)
      PROVE  Examined'
  <2> DEFINE e == EffectiveSignal(s)
  <2>1. /\ e \in FailureSignal /\ e.failure_class = s.failure_class
        /\ e.postcondition_verified = s.postcondition_verified
        /\ TouchedState(e) = TouchedState(s)
    BY EffectiveSignalFacts DEF TypeOK
  <2>2. /\ failure' = s.failure_class
        /\ unverified' = (TouchedState(s) /\ ~s.postcondition_verified)
        /\ lastAction' = decide(e)
    BY <1>4 DEF OperationFails
  <2> HIDE DEF e
  <2>3. CASE lastAction' = "retry"
    BY <2>1, <2>2, <2>3, RetryIsSafe
  <2>4. CASE lastAction' \in callbackActions
    BY <2>1, <2>2, <2>4, CallbackIsSafe
  <2>5. CASE lastAction' = "verify_before_retry"
    <3>1. pc' \in {"verifying", "returned", "raised"}
      BY <1>4, <2>5 DEF OperationFails, CarryOut, Continue, Stopped, End, callbackActions, stopActions
    <3> QED
      BY <3>1, <2>1, <2>2, <2>5, VerifyIsSafe
  <2>6. CASE lastAction' \notin callbackActions \union {"retry", "verify_before_retry"}
    <3>1. pc' \in {"returned", "raised"}
      BY <1>4, <2>6 DEF OperationFails, CarryOut, Stopped, End
    <3> QED
      BY <3>1
  <2> QED
    BY <2>3, <2>4, <2>5, <2>6
<1>5. ASSUME NEW fate \in Fates, OperationRaises(fate) PROVE Examined'
  BY <1>5 DEF OperationRaises
<1>6. CASE VerifyRaises
  BY <1>6 DEF VerifyRaises, Stopped, End
<1>7. CASE VerifyReturns
  BY <1>7 DEF VerifyReturns, Stopped, End, Continue
<1>8. CASE CallbackRaises
  BY <1>8 DEF CallbackRaises, Stopped, End
<1>9. CASE CallbackReturns
  BY <1>9 DEF CallbackReturns, AfterCallback
<1>10. CASE Tick
  BY <1>10 DEF Tick
<1>11. CASE EffectLands
  BY <1>11 DEF EffectLands
<1>12. CASE UNCHANGED vars
  BY <1>12 DEF vars
<1> QED
  BY <1>1, <1>2, <1>3, <1>4, <1>5, <1>6, <1>7, <1>8, <1>9, <1>10, <1>11, <1>12
     DEF Next, Step

(* Only the loop head dispatches, so a dispatch finds nothing unexamined. *)
LEMMA DispatchIsExamined ==
  TypeOK /\ Examined /\ [Next]_vars =>
    [toolCalls' > toolCalls => ~unverified /\ failure # "policy_denied"]_vars
<1> SUFFICES ASSUME TypeOK, Examined, [Next]_vars, toolCalls' > toolCalls
             PROVE  ~unverified /\ failure # "policy_denied"
  OBVIOUS
<1>1. toolCalls' = toolCalls => FALSE
  BY DEF TypeOK
<1>2. CASE Dispatch
  BY <1>2 DEF Dispatch, Examined
<1>3. CASE ~Dispatch
  <2>1. toolCalls' = toolCalls
    BY <1>3 DEF Next, Step, vars, StopOnBudget, OperationReturns, OperationFails,
       OperationRaises, VerifyRaises, VerifyReturns, CallbackRaises, CallbackReturns, AfterCallback,
       Tick, EffectLands
  <2> QED
    BY <2>1, <1>1
<1> QED
  BY <1>2, <1>3

(* RELIABILITY_RECOVERY.md, safety invariants 1 and 2, for every budget and  *)
(* whenever effects land: nothing is dispatched while a side effect is      *)
(* unexamined, nor after a policy denial.                                   *)
THEOREM NeverBlind == Spec => NoBlindRetry
<1>1. Init => TypeOK /\ Examined
  BY TypeInit DEF Init, Examined
<1>2. TypeOK /\ Examined /\ [Next]_vars => TypeOK' /\ Examined'
  BY TypeStep, ExaminedStep
<1>3. TypeOK /\ Examined /\ [Next]_vars =>
        [toolCalls' > toolCalls => ~unverified /\ failure # "policy_denied"]_vars
  BY DispatchIsExamined
<1> QED
  BY <1>1, <1>2, <1>3, PTL DEF Spec, NoBlindRetry

-----------------------------------------------------------------------------
(* At most once, and the contract                                          *)

(* Wherever the loop may dispatch again, the effect is absent or the plan   *)
(* was changed to continue from it; a callback about to return will make    *)
(* that so.                                                                *)
Unspent ==
  ~call.idempotent =>
    /\ effects <= 1
    /\ pc \in {"head", "running"} => effects = 0 \/ replanned
    /\ pc = "callback" => effects = 0 \/ replanned \/ lastAction = "replan"

(* No effect precedes the first dispatch, and none is still to land. *)
Caused ==
  /\ inFlight = 0
  /\ effects > 0 \/ pc \in {"running", "verifying", "callback"} => toolCalls > 0

Accounted == TypeOK /\ Unspent /\ Caused

(* A failure that is followed by anything but a stop leaves the account     *)
(* balanced: the one lemma that needs the classifier's contract.            *)
LEMMA FailureAccounted ==
  ASSUME DelayedEffects = FALSE, Accounted,
         NEW s \in FailureSignal, NEW fate \in Fates, OperationFails(s, fate)
  PROVE  Unspent' /\ Caused'
<1> DEFINE e == EffectiveSignal(s)
<1>1. /\ e \in FailureSignal /\ e.failure_class = s.failure_class
      /\ e.side_effect_uncertain = s.side_effect_uncertain
      /\ e.idempotent => call.idempotent
  BY EffectiveSignalFacts DEF Accounted, TypeOK
<1>2. lastAction' = decide(e) /\ call' = call /\ replanned' = replanned
      /\ toolCalls' = toolCalls /\ pc = "running" /\ Suffer(fate) /\ Honest(s, fate) /\ CarryOut
  BY DEF OperationFails
<1> HIDE DEF e
<1>3. fate \in {"none", "applied"}
  BY DEF Fates
<1>4. /\ inFlight' = inFlight
      /\ effects' = IF fate = "applied" THEN effects + NewEffects ELSE effects
  BY <1>2, <1>3 DEF Suffer, Accounted, TypeOK
<1>5. Caused'
  BY <1>2, <1>4 DEF Accounted, Caused, TypeOK, NewEffects
<1>6. ASSUME ~call.idempotent PROVE effects' <= 1
  BY <1>2, <1>4, <1>6 DEF Accounted, Unspent, TypeOK, NewEffects
<1>7. ASSUME ~call.idempotent, pc' \in {"head", "running"} PROVE FALSE
  <2>1. lastAction' = "retry"
    BY <1>2, <1>7 DEF CarryOut, Continue, Stopped, End
  <2> QED
    BY <2>1, <1>1, <1>2, <1>7, RetryIsSafe
<1>8. ASSUME ~call.idempotent, pc' = "callback", lastAction' # "replan"
      PROVE  effects' = 0 \/ replanned'
  <2>1. lastAction' \in callbackActions
    BY <1>2, <1>8 DEF CarryOut, Continue, Stopped, End
  <2>2. /\ s.failure_class \in {"malformed_arguments", "stale_context"}
        /\ ~s.side_effect_uncertain
    BY <2>1, <1>1, <1>2, <1>8, CallbackIsSafe
  <2>3. effects' = effects
    BY <2>2, <1>2, <1>4 DEF Honest
  <2> QED
    BY <2>3, <1>2, <1>8 DEF Accounted, Unspent
<1> QED
  BY <1>2, <1>5, <1>6, <1>7, <1>8 DEF Unspent

(* So does every other step. *)
LEMMA AccountedStep ==
  ASSUME DelayedEffects = FALSE, Accounted, [Next]_vars
  PROVE  Accounted'
<1>0. TypeOK'
  BY TypeStep DEF Accounted
<1> SUFFICES Unspent' /\ Caused'
  BY <1>0 DEF Accounted
<1> USE DEF Accounted, Unspent, Caused, TypeOK
<1>1. CASE StopOnBudget
  BY <1>1 DEF StopOnBudget, Stopped, End
<1>2. CASE Dispatch
  BY <1>2 DEF Dispatch
<1>3. CASE OperationReturns
  BY <1>3 DEF OperationReturns, End, NewEffects
<1>4. ASSUME NEW s \in FailureSignal, NEW fate \in Fates, OperationFails(s, fate)
      PROVE  Unspent' /\ Caused'
  BY <1>4, FailureAccounted
<1>5. ASSUME NEW fate \in Fates, OperationRaises(fate) PROVE Unspent' /\ Caused'
  BY <1>5 DEF OperationRaises, Suffer, NewEffects, Fates
<1>6. CASE VerifyRaises
  BY <1>6 DEF VerifyRaises, Stopped, End
<1>7. CASE VerifyReturns
  BY <1>7 DEF VerifyReturns, Stopped, End, Continue
<1>8. CASE CallbackRaises
  BY <1>8 DEF CallbackRaises, Stopped, End
<1>9. CASE CallbackReturns
  BY <1>9 DEF CallbackReturns, AfterCallback
<1>10. CASE Tick
  BY <1>10 DEF Tick
<1>11. CASE EffectLands
  BY <1>11 DEF EffectLands
<1>12. CASE UNCHANGED vars
  BY <1>12 DEF vars
<1> QED
  BY <1>1, <1>2, <1>3, <1>4, <1>5, <1>6, <1>7, <1>8, <1>9, <1>10, <1>11, <1>12
     DEF Next, Step

(* The account is balanced in every reachable state. *)
LEMMA AlwaysAccounted ==
  ASSUME DelayedEffects = FALSE
  PROVE  Spec => []Accounted
<1>1. Init => Accounted
  BY TypeInit DEF Init, Accounted, Unspent, Caused
<1>2. Accounted /\ [Next]_vars => Accounted'
  BY AccountedStep
<1> QED
  BY <1>1, <1>2, PTL DEF Spec

(* An operation that is not idempotent is applied at most once, for every   *)
(* budget and every combination of failures, when effects are visible by    *)
(* the time a call has failed.                                             *)
THEOREM AppliedAtMostOnce ==
  ASSUME DelayedEffects = FALSE
  PROVE  Spec => []AtMostOnce
<1>1. Accounted => AtMostOnce
  BY DEF Accounted, Unspent, Caused, AtMostOnce, TypeOK
<1> QED
  BY <1>1, AlwaysAccounted, PTL

(* While execute runs, the verdict is pending; what matters of a step is the *)
(* effect and the verdict it leaves.                                        *)
LEMMA ContractStep ==
  ASSUME DelayedEffects = FALSE, Accounted, Next
  PROVE  [Contract!ContractNext]_(Contract!contractVars)
<1>0. /\ outcome' \in Outcomes /\ pc' \in {"head", "running", "verifying", "callback", "returned", "raised"}
      /\ effects \in Nat /\ effects' \in Nat
  BY TypeStep DEF Accounted, TypeOK
<1>1. Verdict' \in Contract!Verdicts \union {"pending"}
  BY <1>0 DEF Verdict, Contract!Verdicts, Outcomes
<1>2. ASSUME pc \notin {"returned", "raised"}, effects' >= effects,
             Verdict' = "succeeded" => effects' > 0,
             Verdict' = "not_applied" => effects' = 0
      PROVE  Contract!ContractNext
  <2>1. Verdict = "pending"
    BY <1>2 DEF Verdict
  <2> QED
    BY <2>1, <1>0, <1>1, <1>2 DEF Contract!ContractNext
<1>3. ASSUME pc' \notin {"returned"} PROVE Verdict' \notin {"succeeded", "not_applied"}
  BY <1>3 DEF Verdict
<1>4. ASSUME pc' = "returned" PROVE Verdict' = outcome'.external
  BY <1>4 DEF Verdict
<1> HIDE DEF Contract!ContractNext, Verdict
<1>5. ASSUME NEW x \in {"not_applied", "unknown"}, Stopped(x) PROVE Verdict' \in {x, "raised"}
  BY <1>5 DEF Stopped, End, Verdict
<1> USE DEF Accounted, TypeOK, Caused
<1>6. CASE StopOnBudget
  BY <1>6, <1>2, <1>5 DEF StopOnBudget, BudgetOutcome
<1>7. CASE Dispatch
  BY <1>7, <1>2, <1>3 DEF Dispatch
<1>8. CASE OperationReturns
  <2>1. Verdict' \in {"succeeded", "raised"}
    BY <1>8 DEF OperationReturns, End, Verdict
  <2> QED
    BY <1>8, <2>1, <1>2 DEF OperationReturns, NewEffects
<1>9. ASSUME NEW s \in FailureSignal, NEW fate \in Fates, OperationFails(s, fate)
      PROVE  Contract!ContractNext
  <2>1. effects' >= effects /\ pc = "running"
    BY <1>9 DEF OperationFails, Suffer, NewEffects
  <2>2. Verdict' \notin {"succeeded", "not_applied"}
    BY <1>9, <1>3, <1>5 DEF OperationFails, CarryOut, Continue
  <2> QED
    BY <2>1, <2>2, <1>2
<1>10. ASSUME NEW fate \in Fates, OperationRaises(fate) PROVE Contract!ContractNext
  BY <1>10, <1>2, <1>3 DEF OperationRaises, Suffer, NewEffects
<1>11. CASE VerifyRaises
  BY <1>11, <1>2, <1>5 DEF VerifyRaises
<1>12. CASE VerifyReturns
  <2>1. effects' = effects /\ pc = "verifying"
    BY <1>12 DEF VerifyReturns
  <2>2. CASE effects > 0
    <3>1. Verdict' \in {"succeeded", "raised"}
      BY <1>12, <2>2 DEF VerifyReturns, End, Verdict
    <3> QED
      BY <3>1, <2>1, <2>2, <1>2
  <2>3. CASE effects = 0
    BY <1>12, <2>1, <2>3, <1>2, <1>3, <1>5 DEF VerifyReturns, Continue
  <2> QED
    BY <2>2, <2>3
<1>13. CASE CallbackRaises
  BY <1>13, <1>2, <1>5 DEF CallbackRaises
<1>14. CASE CallbackReturns
  BY <1>14, <1>2, <1>3 DEF CallbackReturns, AfterCallback
<1>15. CASE Tick
  BY <1>15 DEF Tick, Verdict, Contract!contractVars
<1>16. CASE EffectLands
  BY <1>16 DEF EffectLands
<1> QED
  BY <1>6, <1>7, <1>8, <1>9, <1>10, <1>11, <1>12, <1>13, <1>14, <1>15, <1>16 DEF Next, Step

(* execute implements OutcomeContract for every budget: a definite verdict  *)
(* agrees with the external system, and no verdict is given twice.          *)
THEOREM Implements ==
  ASSUME DelayedEffects = FALSE
  PROVE  Spec => ImplementsContract
<1>1. Init => Contract!ContractInit
  BY DEF Init, Contract!ContractInit, Verdict
<1>2. Accounted /\ [Next]_vars => [Contract!ContractNext]_(Contract!contractVars)
  <2>1. UNCHANGED vars => UNCHANGED Contract!contractVars
    BY DEF vars, Contract!contractVars, Verdict
  <2> QED
    BY <2>1, ContractStep
<1>3. Spec => []Accounted
  BY AlwaysAccounted
<1> QED
  BY <1>1, <1>2, <1>3, PTL DEF Spec, ImplementsContract, Contract!ContractSpec
==============================================================================
