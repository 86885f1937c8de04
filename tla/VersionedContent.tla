--------------------------- MODULE VersionedContent ----------------------------
(***************************************************************************)
(* What the editorial workflow promises the readers of one content item.    *)
(* EditorialWorkflow implements it; GroundedAnswer relies on it.            *)
(***************************************************************************)
EXTENDS ContentRows

VARIABLE row            \* is the item public, its revision, its claims' verdicts

Init == row \in Rows /\ ~row.public
Next == row' \in Successors(row)
Spec == Init /\ [][Next]_row
==============================================================================
