---------------------------- MODULE ReadinessGuardian ----------------------------
(***************************************************************************)
(* The readiness dashboard (app.py) and gate (readiness_gate.py): matrices of *)
(* gates are imported, the live site is scanned, release evidence generated   *)
(* by release_evidence.py is validated against the checkout, and the result   *)
(* is GO or NO-GO.  A scan is awaited; everything else on the page happens    *)
(* between its start and its end.  The site and the checkout are external.    *)
(***************************************************************************)
EXTENDS Naturals

CONSTANT ContractNamesRef    \* has ReleaseEvidence a field source_ref?

VARIABLES
  gates, validated,     \* state.gates, state.authoritative_release_validated
  screen,               \* the decision shown since the last refresh
  scan,                 \* "never", "running", "passed" or "failed"
  head,                 \* the commit and ref that are checked out
  artifact, reply,      \* the artifact given in this step, what became of it,
  exit,                 \* and what the command-line gate said
  proof                 \* history: the artifact validated for this matrix

vars == <<gates, validated, screen, scan, head, artifact, reply, exit, proof>>

(* MANDATORY_BLOCKING_GATE_IDS; the others are like the first.               *)
Mandatory == {"SEC-REG", "RELEASE-EVIDENCE"}

Gate(id, pass, blocking, verified) ==
  [id |-> id, pass |-> pass, blocking |-> blocking, verified |-> verified]

VerifiedPass(g) == g.pass /\ g.verified

(* production_decision *)
Complete(matrix) ==
  \A id \in Mandatory : \E g \in matrix : g.id = id /\ g.blocking

Decision(matrix, authoritative) ==
  IF /\ Complete(matrix)
     /\ \A g \in matrix : g.blocking => VerifiedPass(g)
     /\ authoritative
  THEN "GO" ELSE "NO-GO"

(* What a matrix may say of a gate, if anything. *)
Entries(id) ==
  { {}, {Gate(id, TRUE, TRUE, TRUE)}, {Gate(id, TRUE, TRUE, FALSE)}, {Gate(id, FALSE, TRUE, TRUE)},
    {Gate(id, TRUE, FALSE, TRUE)} }

Matrices == {a \union b \union c : a \in Entries("SEC-REG"), b \in Entries("RELEASE-EVIDENCE"), c \in Entries("LIVE-TLS")}

AllPass == {Gate("SEC-REG", TRUE, TRUE, TRUE), Gate("RELEASE-EVIDENCE", TRUE, TRUE, TRUE)}

Seed == {Gate("SEC-REG", TRUE, TRUE, TRUE), Gate("RELEASE-EVIDENCE", FALSE, TRUE, FALSE)}

Checkouts ==
  { [sha |-> "first", ref |-> "main"], [sha |-> "second", ref |-> "main"], [sha |-> "second", ref |-> "pull"] }

(* An artifact says what it was generated for and what it found; "absent"     *)
(* means that it does not say.                                             *)
Ready ==
  [status |-> "PRODUCTION_READY", ref |-> "main", pull |-> FALSE, tested |-> "first", source |-> "first",
   controls |-> TRUE, references |-> TRUE, blockers |-> FALSE]

Artifacts ==
  { Ready, [Ready EXCEPT !.ref = "absent"], [Ready EXCEPT !.ref = "pull"], [Ready EXCEPT !.pull = TRUE],
    [Ready EXCEPT !.tested = "second"], [Ready EXCEPT !.tested = "second", !.source = "second"],
    [Ready EXCEPT !.status = "TESTED_IN_STAGING"], [Ready EXCEPT !.controls = FALSE],
    [Ready EXCEPT !.references = FALSE], [Ready EXCEPT !.blockers = TRUE] }

NoArtifact == [status |-> "none"]

(* ReleaseEvidence.validate: a control that is not verified is a blocker, and *)
(* nothing ready for production has one.                                   *)
Blocked(a) == a.blockers \/ ~a.controls

Valid(a) ==
  a.status = "PRODUCTION_READY" =>
    ~a.pull /\ a.source = a.tested /\ a.controls /\ a.references /\ ~Blocked(a)

(* validate_release_evidence_artifact: the checkout first, then the contract, *)
(* which refuses a field it does not have, then the reading of source_ref.    *)
Verdict(a) ==
  IF \/ head.ref # "main" \/ (a.ref # "absent") # ContractNamesRef
     \/ ~Valid(a) \/ a.status # "PRODUCTION_READY" THEN "rejected"
  ELSE IF ~ContractNamesRef THEN "crashed"
  ELSE IF a.ref # head.ref \/ a.tested # head.sha \/ a.source # head.sha THEN "rejected"
  ELSE "validated"

Init ==
  /\ gates = Seed /\ validated = FALSE /\ screen = Decision(Seed, FALSE)
  /\ scan = "never" /\ head = [sha |-> "first", ref |-> "main"]
  /\ artifact = NoArtifact /\ reply = "none" /\ exit = "none" /\ proof = NoArtifact

NoAnswer == artifact' = NoArtifact /\ reply' = "none" /\ exit' = "none"

Refresh == screen' = Decision(gates', validated')

(* mutant: an import leaves the validation as it is *)
StillValidated(before) == before

Withdrawn(before) == FALSE

(* import_json_payload refuses a matrix without its mandatory gates; that of  *)
(* an accepted one is withdrawn, whatever it says of release evidence.       *)
Import ==
  /\ gates' \in {m \in Matrices : Complete(m)}
  /\ validated' = Withdrawn(validated) /\ Refresh
  /\ proof' = NoArtifact
  /\ scan' = (IF scan = "running" THEN scan ELSE "never")
  /\ NoAnswer /\ UNCHANGED head

(* The seed, or nothing when it cannot be read. *)
Restore ==
  /\ gates' \in {Seed, {}} /\ validated' = FALSE /\ Refresh
  /\ proof' = NoArtifact
  /\ scan' = (IF scan = "running" THEN scan ELSE "never")
  /\ NoAnswer /\ UNCHANGED head

Proven(g) == IF g.id = "RELEASE-EVIDENCE" THEN [g EXCEPT !.pass = TRUE, !.verified = TRUE] ELSE g

(* A rejection withdraws the validation and leaves the screen as it is; what  *)
(* the handler does not catch leaves everything as it is.                   *)
Upload ==
  /\ \E a \in Artifacts :
       /\ artifact' = a /\ reply' = Verdict(a)
       /\ \/ /\ Verdict(a) = "validated"
             /\ validated' = TRUE /\ gates' = {Proven(g) : g \in gates} /\ Refresh
             /\ proof' = a
          \/ /\ Verdict(a) = "rejected"
             /\ validated' = FALSE /\ UNCHANGED <<gates, screen, proof>>
          \/ /\ Verdict(a) = "crashed"
             /\ UNCHANGED <<validated, gates, screen, proof>>
  /\ exit' = "none" /\ UNCHANGED <<scan, head>>

Live(g) == g.id \in {"LIVE-TLS", "LIVE-HTTPS", "LIVE-HEADERS", "LIVE-SCAN", "TRUST-PRIVACY"}

(* What a scan found before is dropped at once, and shown later. *)
StartScan ==
  /\ scan # "running"
  /\ gates' = {g \in gates : ~Live(g)} /\ scan' = "running"
  /\ NoAnswer /\ UNCHANGED <<validated, screen, head, proof>>

Found(id, ok) == Gate(id, ok, TRUE, ok)

(* run_live_checks on a site with faults; what does not block is left out.    *)
Checked(faults) ==
  {Found("LIVE-TLS", "certificate" \notin faults), Found("TRUST-PRIVACY", "page" \notin faults),
   Found("LIVE-HTTPS", faults \intersect {"silence", "redirect"} = {})}
  \union (IF "silence" \in faults THEN {} ELSE {Found("LIVE-HEADERS", "headers" \notin faults)})

(* mutant: only what the scan found is added *)
Forgotten(found) == {}

Scanned(found) == {found}

EndScan ==
  /\ scan = "running"
  /\ \/ /\ \E faults \in {{}, {"certificate", "page"}, {"silence"}, {"redirect"}, {"headers"}} :
             gates' = gates \union Scanned(Found("LIVE-SCAN", TRUE)) \union Checked(faults)
        /\ scan' = "passed"
     \/ /\ gates' = gates \union Scanned(Found("LIVE-SCAN", FALSE))
        /\ scan' = "failed"
  /\ UNCHANGED validated /\ Refresh
  /\ NoAnswer /\ UNCHANGED <<head, proof>>

Checkout ==
  /\ head' \in Checkouts \ {head}
  /\ NoAnswer /\ UNCHANGED <<gates, validated, screen, scan, proof>>

(* readiness_gate.py, on a snapshot that need not be complete, and perhaps an *)
(* artifact.                                                               *)
RunGate ==
  /\ \E m \in {{}, Seed, AllPass, {g \in AllPass : g.id = "SEC-REG"}}, a \in Artifacts \union {NoArtifact} :
       LET verdict == IF a = NoArtifact THEN "none" ELSE Verdict(a) IN
       /\ artifact' = a /\ reply' = verdict
       /\ exit' = CASE verdict = "rejected" -> "NO-GO"
                    [] verdict = "crashed"  -> "traceback"
                    [] OTHER -> Decision(m, verdict = "validated")
  /\ UNCHANGED <<gates, validated, screen, scan, head, proof>>

Step == Import \/ Restore \/ Upload \/ StartScan \/ EndScan \/ Checkout \/ RunGate

Spec == Init /\ [][Step]_vars

-----------------------------------------------------------------------------
(* Properties                                                              *)

TypeOK ==
  /\ validated \in BOOLEAN /\ screen \in {"GO", "NO-GO"} /\ head \in Checkouts
  /\ scan \in {"never", "running", "passed", "failed"} /\ exit \in {"none", "GO", "NO-GO", "traceback"}
  /\ reply \in {"none", "validated", "rejected", "crashed"}
  /\ artifact \in Artifacts \union {NoArtifact} /\ proof \in Artifacts \union {NoArtifact}
  /\ \A g \in gates : g.pass \in BOOLEAN /\ g.blocking \in BOOLEAN

(* In whatever order matrices, artifacts and scans arrive, GO takes an        *)
(* artifact that was validated for the matrix it is about, with every control *)
(* verified and one commit tested; no matrix says so by itself, and a scan    *)
(* that failed is not forgotten.                                           *)
GoIsEarned ==
  /\ "GO" \in {screen, Decision(gates, validated)} =>
       proof # NoArtifact /\ proof.controls /\ proof.references /\ ~proof.pull /\ proof.tested = proof.source
  /\ Decision(gates, validated) = "GO" => \A id \in Mandatory : \E g \in gates : g.id = id /\ VerifiedPass(g)
  /\ scan = "failed" => "GO" \notin {screen, Decision(gates, validated)}
  /\ exit = "GO" => reply = "validated"

(* README.md of the guardian: the artifact to upload is the one generated by  *)
(* release_evidence.py; it is validated if it is ready for production, has no *)
(* blockers and is bound to the exact checkout.  What the generator writes    *)
(* names a ref only if its contract does.                                  *)
GeneratedArtifactAccepted ==
  /\ artifact = [Ready EXCEPT !.ref = IF ContractNamesRef THEN "main" ELSE "absent"]
  /\ head = [sha |-> "first", ref |-> "main"]
  => reply = "validated"
==============================================================================
