----------------------------- MODULE Computations -----------------------------
(***************************************************************************)
(* The components of MCServices that compute more than they keep: the plan   *)
(* of a team, the agreement of relevance judgments, and the evidence and     *)
(* wording of an answer.  Each takes a few steps, but a step computes over    *)
(* lists of whatever length; the theorems about those computations need      *)
(* nothing of the other components.                                         *)
(***************************************************************************)
EXTENDS Integers, Sequences

CONSTANTS
  MaxSpecialists, MaxWave,                                         \* TeamPlan
  MinQueries, MinKappa, MaxRatings,                                \* RetrievalJudgments
  MaxEvidence, MaxClaims, MaxInput, MaxUrl, MaxUrls, MaxUrlTotal, MaxKeys   \* AnswerEvidence

ASSUME ComputationsAssumption ==
  /\ MaxSpecialists \in Nat /\ MaxWave \in Nat \ {0}
  /\ MinQueries \in Nat /\ MinKappa \in Nat /\ MaxRatings \in Nat
  /\ MaxEvidence \in Nat /\ MaxClaims \in Nat \ {0} /\ MaxInput \in Nat /\ MaxKeys \in Nat
  /\ MaxUrl \in Nat /\ MaxUrls \in Nat \ {0} /\ MaxUrlTotal \in Nat /\ MaxUrl <= MaxUrlTotal

VARIABLES
  planner, brief, team, waves, handoffs, tier,
  dataset, outcome, final, promoted, ratings,
  claims, ranked, sources, progressOfAnswer, sent, draft, answer, citations, uncertainty, urls

planning == <<planner, brief, team, waves, handoffs, tier>>
judging == <<dataset, outcome, final, promoted, ratings>>
answering ==
  <<claims, ranked, sources, progressOfAnswer, sent, draft, answer, citations, uncertainty, urls>>

Team == INSTANCE TeamPlan

Judgments == INSTANCE RetrievalJudgments

Answers == INSTANCE AnswerEvidence WITH stage <- progressOfAnswer, evidence <- sent
==============================================================================
