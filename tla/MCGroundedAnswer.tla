---------------------------- MODULE MCGroundedAnswer ---------------------------
(* Small instances of GroundedAnswer.                                      *)
EXTENDS GroundedAnswer

CONSTANTS r1, r2, i1, i2

(* A verdict of the small instances names its confidence, if it has one. *)
Stated == [v \in Verdicts |-> IF v \in {"high", "low"} THEN v ELSE "unverified"]

OneUser == [r \in Requests |-> "ann"]

(* Bound: one request while both items go through their revisions, or two    *)
(* requests while one of them is published.  It limits editors and arrivals *)
(* and no step of the server.                                               *)
Focused ==
  stage[r2] = "new" \/ (store[i2].revision = 1 /\ store[i1].revision <= 2)

FocusedSpec == Init /\ [][Next /\ Focused']_vars /\ Fairness
================================================================================
