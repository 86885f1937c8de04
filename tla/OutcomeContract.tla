--------------------------- MODULE OutcomeContract ---------------------------
(***************************************************************************)
(* What a caller of RecoveryExecutor.execute may rely on, with none of the *)
(* machinery that produces it: one external effect that is applied or not, *)
(* and one final verdict on it.  RecoveryExecutor implements this module.  *)
(***************************************************************************)
VARIABLES
  verdict,    \* "pending" until the call ends, then its external_outcome
  applied     \* has the external effect been applied?

contractVars == <<verdict, applied>>

Verdicts == {"succeeded", "not_applied", "unknown", "raised"}

ContractInit == verdict = "pending" /\ applied = FALSE

(* While the call is pending the effect may appear, once and for good, and *)
(* the call may end; a definite verdict must match the effect.             *)
ContractNext ==
  /\ verdict = "pending"
  /\ verdict' \in Verdicts \union {"pending"}
  /\ applied' \in BOOLEAN
  /\ applied => applied'
  /\ verdict' = "succeeded" => applied'
  /\ verdict' = "not_applied" => ~applied'

ContractSpec == ContractInit /\ [][ContractNext]_contractVars
==============================================================================
