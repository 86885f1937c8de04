----------------------------- MODULE EvaluatorLoop ------------------------------
(***************************************************************************)
(* run_evaluator_loop of orchestration.py: generate a candidate, evaluate   *)
(* it, refine it, until it is accepted or max_iterations evaluations are     *)
(* spent.  Candidates are numbered in the order in which they are made.      *)
(***************************************************************************)
EXTENDS Naturals

CONSTANT MaxIterations   \* max_iterations, 1..10

VARIABLES
  loop,                 \* what is called next
  iteration,
  candidate,            \* the last candidate, 0 for none
  evaluated,            \* the candidate that `evaluation` is about
  accepted,             \* evaluation.accepted
  value                 \* the candidate in the result

vars == <<loop, iteration, candidate, evaluated, accepted, value>>

Init ==
  /\ loop = "generate" /\ iteration = 0
  /\ candidate = 0 /\ evaluated = 0 /\ accepted = FALSE /\ value = 0

Raise ==
  /\ loop \in {"generate", "evaluate", "refine"}
  /\ loop' = "raised"
  /\ UNCHANGED <<iteration, candidate, evaluated, accepted, value>>

Generate ==
  /\ loop = "generate"
  /\ candidate' = 1
  /\ loop' = "evaluate"
  /\ UNCHANGED <<iteration, evaluated, accepted, value>>

(* mutant: refine after the last evaluation too *)
AlwaysMore(i) == i <= MaxIterations

MoreRounds(i) == i < MaxIterations

Evaluate ==
  /\ loop = "evaluate"
  /\ iteration' = iteration + 1
  /\ evaluated' = candidate
  /\ \E verdict \in BOOLEAN :
       /\ accepted' = verdict
       /\ loop' = CASE verdict -> "accept"
                    [] ~verdict /\ MoreRounds(iteration + 1) -> "refine"
                    [] OTHER -> "again"
  /\ UNCHANGED <<candidate, value>>

Refine ==
  /\ loop = "refine"
  /\ candidate' = candidate + 1
  /\ loop' = "again"
  /\ UNCHANGED <<iteration, evaluated, accepted, value>>

(* the next turn of the for loop *)
Again ==
  /\ loop = "again" /\ iteration < MaxIterations
  /\ loop' = "evaluate"
  /\ UNCHANGED <<iteration, candidate, evaluated, accepted, value>>

Return ==
  /\ loop = "accept" \/ (loop = "again" /\ iteration >= MaxIterations)
  /\ loop' = "returned"
  /\ value' = candidate
  /\ UNCHANGED <<iteration, candidate, evaluated, accepted>>

Step == Raise \/ Generate \/ Evaluate \/ Refine \/ Again \/ Return

Ended == loop \in {"returned", "raised"}

-----------------------------------------------------------------------------
(* Properties                                                              *)

(* No more evaluations than asked for, each of a candidate that was made.    *)
TypeOK ==
  /\ loop \in {"generate", "evaluate", "refine", "again", "accept", "returned", "raised"}
  /\ iteration \in 0..MaxIterations
  /\ candidate \in 0..MaxIterations /\ evaluated \in 0..candidate
  /\ accepted \in BOOLEAN /\ value \in 0..candidate

(* The verdict in a result is on the candidate in it, also when the rounds  *)
(* are spent: the last candidate is not refined once more.                  *)
VerdictOnValue == loop = "returned" => evaluated = value /\ iteration <= MaxIterations
==============================================================================
