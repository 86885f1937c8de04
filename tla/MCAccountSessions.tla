-------------------------- MODULE MCAccountSessions --------------------------
(* Small instances of AccountSessions: requests, and sessions, are alike.  *)
EXTENDS AccountSessions, TLC

Interchangeable == Permutations(Workers) \union Permutations(Sessions)

(* Bound: two enrolments and batches of codes and two codes accepted while    *)
(* the account and the clock stand still, or one enrolment and two in all of  *)
(* codes accepted, changes of the account, periods and misses.              *)
Focused ==
  \/ now = 0 /\ user.account.epoch = 0 /\ misses = 0 /\ Len(accepted) <= 2
  \/ /\ issued.secrets <= 1 /\ issued.batches <= 1
     /\ now + user.account.epoch + misses + Len(accepted) <= 2
==============================================================================
