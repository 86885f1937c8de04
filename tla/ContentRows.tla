----------------------------- MODULE ContentRows -------------------------------
(***************************************************************************)
(* A content item as search and the grounded answers see it: the part of    *)
(* its row and its claims that they read, and how the editorial workflow    *)
(* (routes_admin.py) changes it.                                            *)
(***************************************************************************)
EXTENDS Naturals

CONSTANTS
  Claims, Verdicts,     \* claims of an item, values of their review_status
  Approved,             \* the verdicts that let a claim be published
  Absent                \* the "verdict" on a claim that is not there (yet)

ASSUME VerdictAssumption ==
  /\ Approved \subseteq Verdicts
  /\ Absent \in Verdicts \ Approved

Rows == [public : BOOLEAN, revision : Nat, verdicts : [Claims -> Verdicts]]

AllApproved(verdicts) == \A c \in Claims : verdicts[c] \in Approved \union {Absent}

Row(public, revision, verdicts) ==
  [public |-> public, revision |-> revision, verdicts |-> verdicts]

(* A public item is frozen but for its withdrawal. *)
Withdrawals(old) ==
  IF old.public THEN {Row(FALSE, old.revision + 1, old.verdicts)} ELSE {}

(* It becomes public as it stands, with every claim approved. *)
Publications(old) ==
  IF ~old.public /\ AllApproved(old.verdicts)
  THEN {Row(TRUE, old.revision + 1, old.verdicts)} ELSE {}

(* Everything else happens in private.  A verdict on a claim of a draft does *)
(* not save the item's row, so the revision may stay.                        *)
PrivateChanges(old) ==
  IF old.public THEN {}
  ELSE [public : {FALSE}, revision : {old.revision, old.revision + 1},
        verdicts : [Claims -> Verdicts]]

Successors(old) == Withdrawals(old) \union Publications(old) \union PrivateChanges(old)
==============================================================================
