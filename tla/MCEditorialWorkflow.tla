------------------------ MODULE MCEditorialWorkflow --------------------------
(* Instances of EditorialWorkflow for TLC: people who may all do everything, *)
(* which leaves separation of duties to the code, and an editor with an     *)
(* administrator.                                                          *)
EXTENDS EditorialWorkflow, TLC

CONSTANTS ed, adm

TeamOfTwo == (ed :> "editor") @@ (adm :> "admin")
AllAdmins == [u \in Users |-> "admin"]

Interchangeable == Permutations(Users) \union Permutations(Workers) \union Permutations(Claims)
==============================================================================
