--------------------------- MODULE RetrievalJudgments ---------------------------
(***************************************************************************)
(* retrieval_judgments.py: a file of human relevance judgments is parsed,    *)
(* its disagreements settled by adjudicators, the annotators' agreement       *)
(* measured, and the result promoted or not.  A dataset is what the file says *)
(* after its JSON and identifiers are found well formed.                    *)
(***************************************************************************)
EXTENDS Lists

CONSTANTS
  MinQueries,           \* min_queries of promotion_gate
  MinKappa,             \* min_mean_weighted_kappa, in ten-thousandths
  MaxRatings            \* bound on the ratings of a pair that are compared

VARIABLES
  dataset,
  outcome,              \* "none", "refused" or "finalized"
  final,                \* the grade of each item
  promoted,
  ratings               \* of two annotators, to be compared

vars == <<dataset, outcome, final, promoted, ratings>>

Grades == 0..3

(* An item is a document of a query; these are the rows a file may have, and  *)
(* "zero" is an item that nobody annotates.                                 *)
Items == {<<1, "one">>, <<1, "two">>, <<2, "one">>}
Zero == <<2, "zero">>
Cells == {<<<<1, "one">>, "a">>, <<<<1, "one">>, "b">>, <<<<1, "one">>, "c">>, <<<<1, "two">>, "a">>,
          <<<<1, "two">>, "c">>, <<<<2, "one">>, "a">>, <<<<2, "one">>, "b">>}

NoGrade == 9
NoAdjudication == [item |-> Zero, by |-> "nobody", grade |-> NoGrade]

Datasets ==
  [ grade : [Cells -> {NoGrade, 0, 2}],
    adjudication : {NoAdjudication}
      \union [item : Items \union {Zero}, by : {"b", "d"}, grade : {0, 3}] ]

Empty == [grade |-> [c \in Cells |-> NoGrade], adjudication |-> NoAdjudication]

Rows(d) == {c \in Cells : d.grade[c] # NoGrade}
Queries(d) == {c[1][1] : c \in Rows(d)}
Annotated(d) == {c[1] : c \in Rows(d)}
Annotators(d, item) == {c[2] : c \in {r \in Rows(d) : r[1] = item}}
GradesOf(d, item) == {d.grade[c] : c \in {r \in Rows(d) : r[1] = item}}

(* mutant: whoever judged the item may settle it *)
Anybody(d, item) == d.adjudication.item = item

Independent(d, item) ==
  d.adjudication.item = item /\ d.adjudication.by \notin Annotators(d, item)

Disputed(d) == {i \in Annotated(d) : Cardinality(GradesOf(d, i)) > 1}

Open(d) == {i \in Disputed(d) : d.adjudication.item # i}

Final(d) ==
  [i \in Annotated(d) \ Open(d) |->
     IF i \in Disputed(d) THEN d.adjudication.grade ELSE CHOOSE g \in GradesOf(d, i) : TRUE]

Judges(d, q) == UNION {Annotators(d, i) : i \in {j \in Annotated(d) : j[1] = q}}

(* parse_dataset: a query is annotated, by two people or more. *)
Unparsable(d) == Queries(d) = {} \/ \E q \in Queries(d) : Cardinality(Judges(d, q)) < 2

(* finalize_dataset: who adjudicates what is settled by the annotations, or    *)
(* by themselves, spoils the dataset, and so does an item with one judgment.  *)
Spoiled(d) ==
  \/ d.adjudication # NoAdjudication /\ d.adjudication.item \notin Annotated(d)
  \/ \E i \in Annotated(d) :
       \/ Cardinality(Annotators(d, i)) < 2
       \/ i \notin Disputed(d) /\ d.adjudication.item = i /\ d.adjudication.grade \notin GradesOf(d, i)
       \/ i \in Disputed(d) \ Open(d) /\ ~Independent(d, i)

NothingRelevant(d, q) ==
  (\A i \in Open(d) : i[1] # q) /\ \A i \in DOMAIN Final(d) : i[1] = q => Final(d)[i] = 0

Refused(d) ==
  Unparsable(d) \/ Spoiled(d) \/ Open(d) # {} \/ \E q \in Queries(d) : NothingRelevant(d, q)

Distance(a, b) == IF a < b THEN b - a ELSE a - b

(* Disagreement observed and expected, both times 3 * the square of the number*)
(* of items, so that linear weighted kappa is 1 - observed / expected.       *)
Observed(a, b) == Len(a) * FoldFunction(LAMBDA x, y : x + y, 0, [i \in DOMAIN a |-> Distance(a[i], b[i])])

Expected(a, b) == FoldFunction(LAMBDA x, y : x + y, 0, [p \in (DOMAIN a) \X (DOMAIN b) |-> Distance(a[p[1]], b[p[2]])])

Rounded(n, d) == (2 * n + d) \div (2 * d)

(* Kappa in ten-thousandths. *)
Kappa(a, b) ==
  IF Expected(a, b) = 0 THEN (IF Observed(a, b) = 0 THEN 10000 ELSE 0)
  ELSE Rounded(10000 * (Expected(a, b) - Observed(a, b)), Expected(a, b))

Shared(d, p) == {i \in Annotated(d) : p \subseteq Annotators(d, i)}

Pairs(d) == {p \in kSubset(2, {"a", "b", "c"}) : Shared(d, p) # {}}

KappaOf(d, p) ==
  LET items == CHOOSE s \in SetToSeqs(Shared(d, p)) : TRUE
      one == CHOOSE x \in p : TRUE
      other == CHOOSE x \in p : x # one
  IN Kappa([i \in DOMAIN items |-> d.grade[<<items[i], one>>]], [i \in DOMAIN items |-> d.grade[<<items[i], other>>]])

MeanKappa(d) == Rounded(MapThenSumSet(LAMBDA p : KappaOf(d, p), Pairs(d)), Cardinality(Pairs(d)))

(* promotion_gate *)
Promoted(d) ==
  /\ Cardinality(Queries(d)) >= MinQueries
  /\ Cardinality(UNION {Annotators(d, i) : i \in Annotated(d)}) >= 2
  /\ MeanKappa(d) >= MinKappa

Init ==
  /\ dataset = Empty /\ outcome = "none" /\ final = <<>> /\ promoted = FALSE
  /\ ratings = <<<<0>>, <<0>>>>

Finalize ==
  /\ outcome = "none" /\ ratings = <<<<0>>, <<0>>>>
  /\ \E d \in Datasets :
       /\ dataset' = d
       /\ IF Refused(d)
          THEN outcome' = "refused" /\ UNCHANGED <<final, promoted>>
          ELSE outcome' = "finalized" /\ final' = Final(d) /\ promoted' = Promoted(d)
  /\ UNCHANGED ratings

(* _linear_weighted_kappa, on any two rows of ratings *)
Compare ==
  /\ outcome = "none" /\ ratings = <<<<0>>, <<0>>>>
  /\ \E n \in 1..MaxRatings : \E a, b \in [1..n -> Grades] : ratings' = <<a, b>>
  /\ UNCHANGED <<dataset, outcome, final, promoted>>

Step == Finalize \/ Compare

-----------------------------------------------------------------------------
(* Properties                                                              *)

TypeOK ==
  /\ \A i \in DOMAIN final : i \in Items /\ final[i] \in Grades
  /\ outcome \in {"none", "refused", "finalized"} /\ promoted \in BOOLEAN

(* What is finalized was judged by two people or more who agreed, or settled  *)
(* by somebody else; every document has a grade, every query something        *)
(* relevant, and two who judged an item in common were compared.             *)
JudgedIndependently ==
  /\ outcome = "finalized" =>
       /\ DOMAIN final = Annotated(dataset) /\ Pairs(dataset) # {}
       /\ \A i \in DOMAIN final :
            /\ Cardinality(Annotators(dataset, i)) >= 2
            /\ \/ GradesOf(dataset, i) = {final[i]}
               \/ /\ dataset.adjudication.item = i /\ dataset.adjudication.grade = final[i]
                  /\ dataset.adjudication.by \notin Annotators(dataset, i)
       /\ \A q \in Queries(dataset) : \E i \in DOMAIN final : i[1] = q /\ final[i] > 0
  /\ promoted => outcome = "finalized"

(* Kappa does not depend on who is named first, lies between -1 and 1, and is *)
(* 1 when all ratings agree and, up to the 6666 ratings from which on rounding *)
(* to four digits may hide a disagreement, only then; where it would divide by *)
(* zero nobody disagreed.                                                   *)
KappaSound ==
  LET a == ratings[1] b == ratings[2] IN
  /\ Kappa(a, b) = Kappa(b, a)
  /\ -10000 <= Kappa(a, b) /\ Kappa(a, b) <= 10000
  /\ a = b => Kappa(a, b) = 10000
  /\ Kappa(a, b) = 10000 /\ Len(a) <= 6666 => a = b
  /\ Expected(a, b) = 0 => Observed(a, b) = 0
==============================================================================
