----------------------------- MODULE AnswerEvidence -----------------------------
(***************************************************************************)
(* generated_answers.py: which reviewed claims a query sends to the provider,*)
(* under budgets of characters, claims and sources, and how the claims that   *)
(* it selects become an answer with citations and an uncertainty.  Texts are  *)
(* sizes.  GroundedAnswer models the request around it, and what editors may  *)
(* change meanwhile.                                                         *)
(***************************************************************************)
EXTENDS Lists

CONSTANTS
  MaxEvidence,          \* max_evidence_chars, of the claims of an item
  MaxClaims,            \* _MAX_CLAIMS_PER_EVIDENCE
  MaxInput,             \* _MAX_MODEL_INPUT_CHARS, serialized
  MaxUrl, MaxUrls, MaxUrlTotal,
  MaxKeys               \* the max_length of claim_keys

VARIABLES
  claims,               \* what each claim of the candidates is
  ranked,               \* rank_items: the candidates, best first
  sources,              \* max_sources
  stage,                \* "query", "asked", "evidence", "no_evidence", "unavailable", "invalid",
                        \* "violation" or "answered"
  evidence,             \* the items sent; one's evidence_id is its place
  draft,                \* what the provider answered
  answer,               \* [marker, key] of each line; marker 0 is none
  citations,            \* evidence ids
  uncertainty,
  urls                  \* the source URLs of an item, as lengths

vars == <<claims, ranked, sources, stage, evidence, draft, answer, citations, uncertainty, urls>>

(* The claim_key is unique in the database: claims 1 to 3 are of item 1. *)
Keys == 1..4
Unknown == 5
ItemOf(k) == IF k = 4 THEN 2 ELSE 1

(* usable: reviewed or published, of some confidence, and not blank; match:   *)
(* how well the text matches the query.                                     *)
Claim(size, usable, match, type, confidence) ==
  [size |-> size, usable |-> usable, match |-> match, claim_type |-> type, confidence |-> confidence]

Kinds ==
  { Claim(2, TRUE, 0, "verified-fact", "high"), Claim(1, TRUE, 0, "verified-fact", "medium"),
    Claim(1, TRUE, 1, "verified-fact", "low"), Claim(2, TRUE, 1, "estimate", "high"),
    Claim(4, TRUE, 1, "verified-fact", "high"), Claim(1, FALSE, 1, "inference", "medium") }

ConfidenceRank == [high |-> 0, medium |-> 1, low |-> 2]

Rank == [low |-> 0, medium |-> 1, high |-> 2]
ByRank == [r \in 0..2 |-> CHOOSE u \in DOMAIN Rank : Rank[u] = r]

NoDraft == [keys |-> <<>>, uncertainty |-> "insufficient"]

(* _claim_relevance *)
Before(j, k) ==
  \/ claims[j].match > claims[k].match
  \/ claims[j].match = claims[k].match
     /\ \/ ConfidenceRank[claims[j].confidence] < ConfidenceRank[claims[k].confidence]
        \/ claims[j].confidence = claims[k].confidence /\ j < k

Usable(item) == {k \in Keys : ItemOf(k) = item /\ claims[k].usable}

Size(keys) == SumFunctionOnSet([k \in Keys |-> claims[k].size], keys)

ByRelevance(keys) == CHOOSE s \in SetToSeqs(keys) : \A i, j \in DOMAIN s : i < j => Before(s[i], s[j])

(* mutant: the budget is looked at before the claim is added *)
RoomLeft(kept, k) == Len(kept) < MaxClaims /\ Size(Range(kept)) < MaxEvidence

Fits(kept, k) == Len(kept) < MaxClaims /\ Size(Range(kept)) + claims[k].size <= MaxEvidence

(* A claim that is too large is skipped; at the cap the loop ends. *)
BoundedClaims(item) ==
  FoldLeft(LAMBDA kept, k : IF Fits(kept, k) THEN Append(kept, k) ELSE kept,
           <<>>, ByRelevance(Usable(item)))

(* Which URLs stay: one that is too long is skipped, and at the first past the *)
(* budget it ends.                                                         *)
BoundedUrls(lengths) ==
  LET usable == {i \in DOMAIN lengths : lengths[i] \in 1..MaxUrl}
      upTo(i) == {j \in usable : j <= i}
  IN {i \in usable : Cardinality(upTo(i)) <= MaxUrls /\ SumFunctionOnSet(lengths, upTo(i)) <= MaxUrlTotal}

(* The length of _serialize_input: each item adds to that of its claims. *)
Serialized(items) ==
  SumFunction([i \in DOMAIN items |-> 1 + Size(Range(items[i].claims))])

Admitted(items, candidate) ==
  /\ Len(items) < sources
  /\ candidate.claims # <<>>
  /\ Serialized(Append(items, candidate)) <= MaxInput

Candidates == [i \in DOMAIN ranked |-> [item |-> ranked[i], claims |-> BoundedClaims(ranked[i])]]

RetrieveEvidence ==
  FoldLeft(LAMBDA items, candidate :
             IF Admitted(items, candidate) THEN Append(items, candidate) ELSE items,
           <<>>, Candidates)

Init ==
  /\ claims = [k \in Keys |-> Claim(1, FALSE, 1, "inference", "medium")]
  /\ ranked = <<>> /\ sources = 1 /\ stage = "query" /\ evidence = <<>> /\ draft = NoDraft
  /\ answer = <<>> /\ citations = <<>> /\ uncertainty = "none" /\ urls = <<>>

(* The database and the request, as they are. *)
Ask ==
  /\ stage = "query" /\ urls = <<>>
  /\ claims' \in [Keys -> Kinds]
  /\ ranked' \in {<<1, 2>>, <<2, 1>>}
  /\ sources' \in 1..2
  /\ stage' = "asked"
  /\ UNCHANGED <<evidence, draft, answer, citations, uncertainty, urls>>

Retrieve ==
  /\ stage = "asked"
  /\ evidence' = RetrieveEvidence
  /\ stage' = IF evidence' = <<>> THEN "no_evidence" ELSE "evidence"
  /\ UNCHANGED <<claims, ranked, sources, draft, answer, citations, uncertainty, urls>>

-----------------------------------------------------------------------------
(* The answer                                                              *)

Sent == UNION {Range(evidence[i].claims) : i \in DOMAIN evidence}

EvidenceIdOf(k) == CHOOSE i \in DOMAIN evidence : k \in Range(evidence[i].claims)

(* dict.fromkeys, and the `seen` of the citations: the first of each stays. *)
Distinct(s) == FoldLeft(LAMBDA seen, x : IF x \in Range(seen) THEN seen ELSE Append(seen, x), <<>>, s)

Drafts ==
  [ keys : UNION {[1..n -> Keys \union {Unknown}] : n \in 0..MaxKeys},
    uncertainty : {"low", "medium", "high", "insufficient"} ]

(* _validated_claim_selection *)
Accepted(d) ==
  /\ Range(d.keys) \subseteq Sent
  /\ d.uncertainty = "insufficient" <=> d.keys = <<>>

ClaimUncertaintyFloor(k) ==
  IF claims[k].claim_type = "verified-fact" THEN ByRank[ConfidenceRank[claims[k].confidence]]
  ELSE IF claims[k].confidence = "high" THEN "medium" ELSE "high"

(* mutant: the surest claim decides *)
SurestDecides(d) ==
  ByRank[Max({Rank[d.uncertainty], Min({Rank[ClaimUncertaintyFloor(k)] : k \in Range(d.keys)})})]

EffectiveUncertainty(d) ==
  ByRank[Max({Rank[d.uncertainty]} \union {Rank[ClaimUncertaintyFloor(k)] : k \in Range(d.keys)})]

CitationsFromSelection(selected) == Distinct([i \in DOMAIN selected |-> EvidenceIdOf(selected[i])])

RenderAnswer(selected) ==
  [ i \in DOMAIN selected |->
      [marker |-> IF Len(CitationsFromSelection(selected)) > 1 THEN EvidenceIdOf(selected[i]) ELSE 0,
       key |-> selected[i]] ]

(* _selected_claim_refs *)
Refs(selected) == [i \in DOMAIN selected |-> <<EvidenceIdOf(selected[i]), selected[i]>>]

(* validate_grounded_contract: the workflow's own judgment of the result. *)
ContractHolds(refs, cited, u) ==
  /\ Cardinality(Range(cited)) = Len(cited)
  /\ IF u = "insufficient" THEN refs = <<>> /\ cited = <<>>
     ELSE /\ refs # <<>> /\ Cardinality(Range(refs)) = Len(refs)
          /\ \A r \in Range(refs) : r[1] \in DOMAIN evidence /\ r[2] \in Range(evidence[r[1]].claims)
          /\ cited = Distinct([i \in DOMAIN refs |-> refs[i][1]])

(* The response is complete, well formed and says its model and usage. *)
Generate ==
  /\ stage = "evidence"
  /\ \E d \in Drafts :
       LET selected == Distinct(d.keys) IN
       /\ draft' = d
       /\ IF Accepted(d)
          THEN /\ answer' = RenderAnswer(selected)
               /\ citations' = CitationsFromSelection(selected)
               /\ uncertainty' = IF d.keys = <<>> THEN "insufficient" ELSE EffectiveUncertainty(d)
               /\ stage' = IF ContractHolds(Refs(selected), citations', uncertainty')
                           THEN "answered" ELSE "violation"
          ELSE stage' = "invalid" /\ UNCHANGED <<answer, citations, uncertainty>>
  /\ UNCHANGED <<claims, ranked, sources, evidence, urls>>

(* An error of the API, or a response that is not all of that. *)
GenerateFails ==
  /\ stage = "evidence"
  /\ stage' \in {"unavailable", "invalid"}
  /\ UNCHANGED <<claims, ranked, sources, evidence, draft, answer, citations, uncertainty, urls>>

(* _bounded_source_urls, of any item *)
BoundUrls ==
  /\ stage = "query" /\ urls = <<>>
  /\ \E n \in 1..4 : urls' \in [1..n -> 0..(MaxUrl + 1)]
  /\ UNCHANGED <<claims, ranked, sources, stage, evidence, draft, answer, citations, uncertainty>>

Step == Ask \/ Retrieve \/ Generate \/ GenerateFails \/ BoundUrls

-----------------------------------------------------------------------------
(* Properties                                                              *)

TypeOK ==
  /\ stage \in {"query", "asked", "evidence", "no_evidence", "unavailable", "invalid", "violation", "answered"}
  /\ \A i \in DOMAIN evidence : evidence[i].item \in {1, 2} /\ Range(evidence[i].claims) \subseteq Keys
  /\ uncertainty \in DOMAIN Rank \union {"none", "insufficient"}

(* The budgets together: what is sent is approved and within every one, and a *)
(* claim is left out only for the cap, by those more relevant, or because it   *)
(* did not fit next to those; and an item with usable URLs keeps some.       *)
EvidenceWithinBudget ==
  /\ Len(evidence) <= sources /\ Serialized(evidence) <= MaxInput
  /\ \A i, j \in DOMAIN evidence : evidence[i].item = evidence[j].item => i = j
  /\ \A i \in DOMAIN evidence :
       LET kept == Range(evidence[i].claims) usable == Usable(evidence[i].item) IN
       /\ kept # {} /\ kept \subseteq usable
       /\ Cardinality(kept) <= MaxClaims /\ Size(kept) <= MaxEvidence
       /\ \A k \in usable \ kept :
            LET better == {j \in kept : Before(j, k)} IN
            \/ Cardinality(better) = MaxClaims
            \/ Size(better) + claims[k].size > MaxEvidence
  /\ LET cited == BoundedUrls(urls) IN
     /\ SumFunctionOnSet(urls, cited) <= MaxUrlTotal /\ Cardinality(cited) <= MaxUrls
     /\ (\E i \in DOMAIN urls : urls[i] \in 1..MaxUrl) => cited # {}

(* An answer says each of its claims once, cites exactly the items they are    *)
(* from, names the item on each line when there are several, and is of low     *)
(* uncertainty only when the provider said so and every claim is a verified    *)
(* fact of high confidence; it is insufficient exactly when it says nothing.   *)
(* The workflow's evaluator, which asks for less, never refuses one.         *)
AnswerSupported ==
  /\ stage # "violation"
  /\ stage = "answered" =>
    LET said == {answer[i].key : i \in DOMAIN answer} IN
    /\ said = Range(draft.keys) /\ Cardinality(said) = Len(answer)
    /\ \A k \in said : claims[k].usable
    /\ Range(citations) = {i \in DOMAIN evidence : said \cap Range(evidence[i].claims) # {}}
    /\ Cardinality(Range(citations)) = Len(citations)
    /\ Len(citations) > 1 =>
         \A i \in DOMAIN answer : evidence[answer[i].marker].item = ItemOf(answer[i].key)
    /\ uncertainty = "insufficient" <=> answer = <<>>
    /\ uncertainty = "low" =>
         /\ draft.uncertainty = "low"
         /\ \A k \in said : claims[k].claim_type = "verified-fact" /\ claims[k].confidence = "high"
    /\ answer # <<>> => Rank[uncertainty] >= Rank[draft.uncertainty]
==============================================================================
