--------------------------------- MODULE Lists ---------------------------------
(***************************************************************************)
(* The operators on sequences that the computations need, under the names of *)
(* SequencesExt.  An instance has every definition that its module extends,  *)
(* and a proof about instances carries all of them: with these few the       *)
(* proofs about the computations take a fraction of the time.               *)
(***************************************************************************)
EXTENDS Sequences, FiniteSetsExt

(* Every element of S once, in every order. *)
SetToSeqs(S) ==
  LET places == 1..Cardinality(S) IN
  {s \in [places -> S] : \A i, j \in places : i # j => s[i] # s[j]}

(* A loop over s that starts with `before`. *)
FoldLeft(step(_, _), before, s) ==
  MapThenFoldSet(LAMBDA x, y : step(y, x), before, LAMBDA i : s[i], LAMBDA S : Max(S), DOMAIN s)

(* The sequences in s, one after the other. *)
FlattenSeq(s) ==
  IF Len(s) = 0 THEN s
  ELSE LET joined[i \in 1..Len(s)] == IF i = 1 THEN s[i] ELSE joined[i - 1] \o s[i]
       IN joined[Len(s)]
==============================================================================
