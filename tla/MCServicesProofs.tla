----------------------------- MODULE MCServicesProofs -----------------------------
(***************************************************************************)
(* What TLAPS proves of the components of MCServices, for every value of     *)
(* their constants.  A section per component states its invariant, which     *)
(* holds of its variables whichever component is active, and shows that it   *)
(* implies the component's part of a property; the theorems at the end put    *)
(* the parts together.                                                      *)
(***************************************************************************)
EXTENDS MCServices, ComputationProofs, FunctionTheorems

(* A step of this module is, for each component, one of its steps or none. *)
LEMMA ComponentSteps ==
  ASSUME [AllNext]_everything
  PROVE  /\ active' = active
         /\ Next \/ UNCHANGED vars
         /\ Late!Next \/ UNCHANGED executor
         /\ Gateway!Step \/ UNCHANGED gateway
         /\ Team!Step \/ UNCHANGED planning
         /\ Geo!Step \/ UNCHANGED tenancy
         /\ Judgments!Step \/ UNCHANGED judging
         /\ Staging!Step \/ UNCHANGED staging
         /\ Page!Step \/ UNCHANGED page
         /\ Guardian!Step \/ UNCHANGED guardian
         /\ Answers!Step \/ UNCHANGED answering
         /\ Admin!Step \/ UNCHANGED admin
         /\ Bridge!Step \/ UNCHANGED bridge
         /\ Tools!Step \/ UNCHANGED tools
  BY DEF AllNext, Only, QuotaStep, ExecutorStep, LateEffect, GatewayStep, TeamStep, GeoStep, JudgmentsStep,
         StagingStep, PageStep, GuardianStep, AnswersStep, AdminStep, BridgeStep, ToolsStep,
         everything, rest, others, Late!Next

-----------------------------------------------------------------------------
(* AgentGateway: the invariant remembers, from the reading of the clock to the *)
(* verdict, why the authority was asked, and that the authority never unsays a *)
(* withdrawal.                                                             *)

GrantStands ==
  /\ presented = paper /\ standing # "unissued" /\ stood # "withdrawn"
  /\ Gateway!WindowIsValid(paper) /\ Gateway!Current(paper) /\ Gateway!BoundToCall(paper, call)

GatewayInv ==
  /\ instant \in Nat /\ asked \in Nat
  /\ paper \in Gateway!Papers
  /\ standing \in {"unissued", "issued", "withdrawn"}
  /\ stood = "withdrawn" => standing = "withdrawn"
  /\ gate = "verifying" => text # "suspicious" /\ Gateway!Evaluate(call) \notin {"deny", "allow"}
  /\ gate = "allowed" =>
       text # "suspicious" /\ Gateway!Evaluate(call) # "deny" /\ (Gateway!Evaluate(call) = "allow" \/ GrantStands)

LEMMA PreflightDecides ==
  ASSUME NEW t, NEW c, NEW g
  PROVE  /\ Gateway!Preflight(t, c, g) = "verifying" => t # "suspicious" /\ Gateway!Evaluate(c) \notin {"deny", "allow"}
         /\ Gateway!Preflight(t, c, g) = "allowed" => t # "suspicious" /\ Gateway!Evaluate(c) = "allow"
  BY DEF Gateway!Preflight, Gateway!Blocked

(* The times of a grant of the authority *)
LEMMA PaperTimes ==
  ASSUME paper \in Gateway!Papers
  PROVE  paper.issued_at = 2 /\ paper.expires_at \in 2..5
  BY DEF Gateway!Papers, Gateway!Grant

LEMMA GatewayInit == Gateway!Init => GatewayInv
  BY DEF Gateway!Init, GatewayInv

LEMMA GatewayStepInv ==
  ASSUME GatewayInv, Gateway!Step
  PROVE  GatewayInv'
  <1>1. CASE Gateway!Tick
    BY <1>1 DEF GatewayInv, Gateway!Tick, Gateway!request, GrantStands, Gateway!Current
  <1>2. CASE Gateway!Authority
    <2>1. /\ UNCHANGED <<instant, paper, gate, call, text, presented, asked, stood>>
          /\ standing' \in {"issued", "withdrawn"}
          /\ stood = "withdrawn" => FALSE
      BY <1>2 DEF GatewayInv, Gateway!Authority, Gateway!request
    <2>2. GrantStands => GrantStands'
      BY <2>1 DEF GrantStands, Gateway!Current
    <2> QED
      BY <2>1, <2>2 DEF GatewayInv
  <1>3. CASE Gateway!Authorize
    <2>1. PICK c \in Gateway!Calls, t \in {"none", "suspicious", "trusted"},
               g \in Gateway!Presentable \union {Gateway!NoGrant} :
            LET verdict == Gateway!Preflight(t, c, g) IN
            /\ gate' = verdict
            /\ call' = c /\ text' = t /\ presented' = g
            /\ asked' = IF verdict = "verifying" THEN instant ELSE 0
            /\ stood' = IF verdict = "verifying" THEN standing ELSE "unissued"
      BY <1>3 DEF Gateway!Authorize
    <2>2. UNCHANGED <<instant, paper, standing>>
      BY <1>3 DEF Gateway!Authorize
    <2>3. asked' \in Nat /\ (stood' = "withdrawn" => standing' = "withdrawn")
      BY <2>1, <2>2 DEF GatewayInv
    <2>4. gate' = "verifying" => text' # "suspicious" /\ Gateway!Evaluate(call') \notin {"deny", "allow"}
      BY <2>1, PreflightDecides
    <2>5. gate' = "allowed" => text' # "suspicious" /\ Gateway!Evaluate(call') = "allow"
      BY <2>1, PreflightDecides
    <2>6. Gateway!Evaluate(call)' = Gateway!Evaluate(call')
      BY DEF Gateway!Evaluate, Gateway!Matching
    <2> QED
      BY <2>2, <2>3, <2>4, <2>5, <2>6 DEF GatewayInv
  <1>4. CASE Gateway!Validate
    <2>1. /\ gate = "verifying"
          /\ UNCHANGED <<instant, paper, standing, call, text, presented, asked, stood>>
          /\ gate' \in {"allowed", "approval_required"}
      BY <1>4 DEF Gateway!Validate, Gateway!request
    <2>2. ASSUME gate' = "allowed" PROVE GrantStands'
      <3>1. /\ presented = paper /\ standing = "issued"
            /\ Gateway!WindowIsValid(presented) /\ Gateway!Current(presented) /\ Gateway!BoundToCall(presented, call)
        BY <1>4, <2>2 DEF Gateway!Validate
      <3> QED
        BY <2>1, <3>1 DEF GatewayInv, GrantStands, Gateway!Current
    <2> QED
      BY <2>1, <2>2 DEF GatewayInv
  <1>5. CASE Gateway!NextCall
    BY <1>5 DEF GatewayInv, Gateway!NextCall
  <1> QED
    BY <1>1, <1>2, <1>3, <1>4, <1>5 DEF Gateway!Step

(* Between the signature and the moment of asking lie at most a lifetime and   *)
(* the skew, whatever the grant names as its end.                            *)
LEMMA GatewayApproves ==
  ASSUME GatewayInv, MaxTtl \in Nat, Skew \in Nat
  PROVE  Gateway!ApprovedExactly
  <1> SUFFICES ASSUME gate = "allowed", Gateway!Evaluate(call) = "approval"
               PROVE  /\ presented = paper /\ standing # "unissued" /\ stood # "withdrawn"
                      /\ paper.digest = Gateway!Digest(call) /\ paper.environment = call.environment
                      /\ paper.issued_at - Skew <= asked /\ asked <= paper.issued_at + MaxTtl + Skew
    BY DEF Gateway!ApprovedExactly, GatewayInv
  <1>1. GrantStands /\ asked \in Nat /\ paper \in Gateway!Papers
    BY DEF GatewayInv
  <1>2. paper.issued_at \in Nat /\ paper.expires_at \in Nat
    BY <1>1, PaperTimes
  <1>3. /\ paper.issued_at <= asked + Skew /\ asked - Skew <= paper.expires_at
        /\ paper.expires_at - paper.issued_at <= MaxTtl
    BY <1>1 DEF GrantStands, Gateway!WindowIsValid, Gateway!Current
  <1> QED
    BY <1>1, <1>2, <1>3 DEF GrantStands, Gateway!BoundToCall

-----------------------------------------------------------------------------
(* ReadinessGuardian: the invariant ties the flag and the screen to the        *)
(* artifact that was validated, and a failed scan to the gate it leaves behind.*)

(* What validate_release_evidence_artifact stands for *)
Earned(a) ==
  /\ a.status = "PRODUCTION_READY"
  /\ a.controls /\ a.references /\ ~a.pull /\ a.tested = a.source

(* The flag and the screen rest on the artifact of this matrix.             *)
Grounded ==
  /\ validated => Earned(proof)
  /\ screen = "GO" => Earned(proof)

(* A scan that failed blocks through its gate. *)
ScanBlocks ==
  scan = "failed" => Guardian!Gate("LIVE-SCAN", FALSE, TRUE, FALSE) \in gates /\ screen # "GO"

GuardianInv ==
  /\ validated \in BOOLEAN
  /\ Grounded
  /\ ScanBlocks
  /\ exit = "GO" => reply = "validated"

LEMMA VerdictEarned ==
  ASSUME NEW a, Guardian!Verdict(a) = "validated"
  PROVE  Earned(a)
  <1>1. a.status = "PRODUCTION_READY" /\ Guardian!Valid(a)
    BY DEF Guardian!Verdict
  <1> QED
    BY <1>1 DEF Guardian!Valid, Earned

(* production_decision: nothing but a complete matrix of verified gates, with  *)
(* the flag, is GO.                                                         *)
LEMMA GoNeeds ==
  ASSUME NEW matrix, NEW flag \in BOOLEAN, Guardian!Decision(matrix, flag) = "GO"
  PROVE  /\ flag
         /\ \A g \in matrix : g.blocking => Guardian!VerifiedPass(g)
         /\ \A id \in Guardian!Mandatory : \E g \in matrix : g.id = id /\ Guardian!VerifiedPass(g)
  <1>1. flag /\ Guardian!Complete(matrix) /\ \A g \in matrix : g.blocking => Guardian!VerifiedPass(g)
    BY DEF Guardian!Decision
  <1> QED
    BY <1>1 DEF Guardian!Complete

LEMMA FailedScanStops ==
  ASSUME NEW matrix, NEW flag \in BOOLEAN, Guardian!Gate("LIVE-SCAN", FALSE, TRUE, FALSE) \in matrix
  PROVE  Guardian!Decision(matrix, flag) # "GO"
  <1> DEFINE g == Guardian!Gate("LIVE-SCAN", FALSE, TRUE, FALSE)
  <1>1. g.blocking /\ ~Guardian!VerifiedPass(g)
    BY DEF Guardian!Gate, Guardian!VerifiedPass
  <1> QED
    BY <1>1, GoNeeds

LEMMA ProvenKeepsScan ==
  ASSUME Guardian!Gate("LIVE-SCAN", FALSE, TRUE, FALSE) \in gates
  PROVE  Guardian!Gate("LIVE-SCAN", FALSE, TRUE, FALSE) \in {Guardian!Proven(g) : g \in gates}
  <1>1. Guardian!Proven(Guardian!Gate("LIVE-SCAN", FALSE, TRUE, FALSE)) = Guardian!Gate("LIVE-SCAN", FALSE, TRUE, FALSE)
    BY DEF Guardian!Proven, Guardian!Gate
  <1> QED
    BY <1>1

LEMMA GuardianInit == Guardian!Init => GuardianInv
  <1> SUFFICES ASSUME Guardian!Init PROVE GuardianInv
    OBVIOUS
  <1>1. screen # "GO"
    BY GoNeeds DEF Guardian!Init
  <1> QED
    BY <1>1 DEF Guardian!Init, GuardianInv, Grounded, ScanBlocks

LEMMA GuardianStepInv ==
  ASSUME GuardianInv, Guardian!Step
  PROVE  GuardianInv'
  <1> USE DEF GuardianInv
  <1>1. CASE Guardian!Import
    <2>1. validated' = FALSE /\ screen' # "GO" /\ scan' # "failed" /\ exit' = "none"
      BY <1>1, GoNeeds DEF Guardian!Import, Guardian!Withdrawn, Guardian!Refresh, Guardian!NoAnswer
    <2> QED
      BY <2>1 DEF Grounded, ScanBlocks
  <1>2. CASE Guardian!Restore
    <2>1. validated' = FALSE /\ screen' # "GO" /\ scan' # "failed" /\ exit' = "none"
      BY <1>2, GoNeeds DEF Guardian!Restore, Guardian!Refresh, Guardian!NoAnswer
    <2> QED
      BY <2>1 DEF Grounded, ScanBlocks
  <1>3. CASE Guardian!Upload
    <2>1. PICK a \in Guardian!Artifacts :
            /\ reply' = Guardian!Verdict(a)
            /\ \/ /\ Guardian!Verdict(a) = "validated"
                  /\ validated' = TRUE /\ gates' = {Guardian!Proven(g) : g \in gates} /\ Guardian!Refresh
                  /\ proof' = a
               \/ /\ Guardian!Verdict(a) = "rejected"
                  /\ validated' = FALSE /\ UNCHANGED <<gates, screen, proof>>
               \/ /\ Guardian!Verdict(a) = "crashed"
                  /\ UNCHANGED <<validated, gates, screen, proof>>
      BY <1>3 DEF Guardian!Upload
    <2>2. exit' = "none" /\ scan' = scan
      BY <1>3 DEF Guardian!Upload
    <2>3. CASE Guardian!Verdict(a) = "validated"
      <3>1. validated' = TRUE /\ gates' = {Guardian!Proven(g) : g \in gates} /\ Guardian!Refresh /\ Earned(proof')
        BY <2>1, <2>3, VerdictEarned
      <3>2. ASSUME scan = "failed"
            PROVE  Guardian!Gate("LIVE-SCAN", FALSE, TRUE, FALSE) \in gates' /\ screen' # "GO"
        <4>1. Guardian!Gate("LIVE-SCAN", FALSE, TRUE, FALSE) \in gates'
          BY <3>1, <3>2, ProvenKeepsScan DEF ScanBlocks
        <4> QED
          BY <3>1, <4>1, FailedScanStops DEF Guardian!Refresh
      <3>3. Grounded'
        BY <3>1 DEF Grounded, Earned
      <3>4. ScanBlocks'
        BY <2>2, <3>2 DEF ScanBlocks, Guardian!Gate
      <3> QED
        BY <2>2, <3>1, <3>3, <3>4
    <2>4. CASE Guardian!Verdict(a) # "validated"
      <3>1. UNCHANGED <<gates, screen, proof>> /\ (validated' = FALSE \/ validated' = validated)
        BY <2>1, <2>4
      <3>2. Grounded'
        BY <3>1 DEF Grounded, Earned
      <3>3. ScanBlocks'
        BY <2>2, <3>1 DEF ScanBlocks, Guardian!Gate
      <3> QED
        BY <2>2, <3>1, <3>2, <3>3
    <2> QED
      BY <2>3, <2>4
  <1>4. CASE Guardian!StartScan
    BY <1>4 DEF Guardian!StartScan, Guardian!NoAnswer, Grounded, ScanBlocks, Earned
  <1>5. CASE Guardian!EndScan
    <2>1. /\ validated' = validated /\ Guardian!Refresh /\ exit' = "none" /\ proof' = proof
          /\ scan' = "failed" => Guardian!Gate("LIVE-SCAN", FALSE, TRUE, FALSE) \in gates'
      BY <1>5 DEF Guardian!EndScan, Guardian!Found, Guardian!Scanned, Guardian!NoAnswer
    <2>2. screen' = "GO" => validated
      BY <2>1, GoNeeds DEF Guardian!Refresh
    <2>3. scan' = "failed" => screen' # "GO"
      BY <2>1, FailedScanStops DEF Guardian!Refresh
    <2>4. Grounded'
      BY <2>1, <2>2 DEF Grounded, Earned
    <2>5. ScanBlocks'
      BY <2>1, <2>3 DEF ScanBlocks, Guardian!Gate
    <2> QED
      BY <2>1, <2>4, <2>5
  <1>6. CASE Guardian!Checkout
    BY <1>6 DEF Guardian!Checkout, Guardian!NoAnswer, Grounded, ScanBlocks, Earned
  <1>7. CASE Guardian!RunGate
    <2>1. /\ UNCHANGED <<gates, validated, screen, scan, proof>>
          /\ exit' = "GO" => reply' = "validated"
      <3>1. PICK m, a :
              LET verdict == IF a = Guardian!NoArtifact THEN "none" ELSE Guardian!Verdict(a) IN
              /\ reply' = verdict
              /\ exit' = CASE verdict = "rejected" -> "NO-GO"
                           [] verdict = "crashed"  -> "traceback"
                           [] OTHER -> Guardian!Decision(m, verdict = "validated")
        BY <1>7 DEF Guardian!RunGate
      <3>2. exit' = "GO" => Guardian!Decision(m, reply' = "validated") = "GO"
        BY <3>1
      <3>3. exit' = "GO" => reply' = "validated"
        BY <3>2, GoNeeds
      <3> QED
        BY <1>7, <3>3 DEF Guardian!RunGate
    <2> QED
      BY <2>1 DEF Grounded, ScanBlocks, Earned
  <1> QED
    BY <1>1, <1>2, <1>3, <1>4, <1>5, <1>6, <1>7 DEF Guardian!Step

LEMMA GuardianEarns == GuardianInv => Guardian!GoIsEarned
  <1> SUFFICES ASSUME GuardianInv PROVE Guardian!GoIsEarned
    OBVIOUS
  <1>1. ASSUME "GO" \in {screen, Guardian!Decision(gates, validated)} PROVE Earned(proof)
    BY <1>1, GoNeeds DEF GuardianInv, Grounded
  <1>2. Earned(proof) => proof # Guardian!NoArtifact
    BY DEF Earned, Guardian!NoArtifact
  <1>3. Guardian!Decision(gates, validated) = "GO" =>
          \A id \in Guardian!Mandatory : \E g \in gates : g.id = id /\ Guardian!VerifiedPass(g)
    BY GoNeeds DEF GuardianInv
  <1>4. scan = "failed" => "GO" \notin {screen, Guardian!Decision(gates, validated)}
    BY FailedScanStops DEF GuardianInv, ScanBlocks
  <1> QED
    BY <1>1, <1>2, <1>3, <1>4 DEF Guardian!GoIsEarned, GuardianInv, Earned

-----------------------------------------------------------------------------
(* ToolPolicy: nothing is registered that __post_init__ refuses.             *)

ToolsInv ==
  /\ offeredTool \in Tools!ToolCapability
  /\ \A tool \in registered : tool \in Tools!ToolCapability /\ Tools!Registrable(tool)
  /\ Tools!EffectsAnswered

(* What authorize lets through of a tool that could be registered *)
LEMMA AuthorizedIsAnswered ==
  ASSUME NEW tool \in Tools!ToolCapability, Tools!Registrable(tool),
         NEW given \in Tools!ToolInvocationContext, Tools!Authorized(tool, given)
  PROVE  /\ tool.replay_class \in Tools!SideEffects =>
              /\ given.granted_permissions # {}
              /\ given.idempotency_key = "key" \/ given.approved
         /\ tool.replay_class = "non_idempotent_side_effect" => given.approved
         /\ given.research_source_id \in {"none", ""} \union tool.allowed_research_sources
  <1>1. given.idempotency_key \in {"none", "", "key", "bad"}
    BY DEF Tools!ToolInvocationContext
  <1>2. tool.replay_class = "non_idempotent_side_effect" => given.approved
    BY DEF Tools!Registrable, Tools!Authorized
  <1>3. tool.replay_class = "idempotent_side_effect" => given.idempotency_key = "key"
    BY <1>1 DEF Tools!Registrable, Tools!Authorized, Tools!KeyGiven
  <1>4. tool.replay_class \in Tools!SideEffects => given.granted_permissions # {}
    BY DEF Tools!Registrable, Tools!Authorized
  <1>5. given.research_source_id \in {"none", ""} \union tool.allowed_research_sources
    BY DEF Tools!Authorized, Tools!SourceAllowed
  <1> QED
    BY <1>2, <1>3, <1>4, <1>5 DEF Tools!SideEffects

LEMMA ToolsInit == Tools!Init => ToolsInv
  BY DEF Tools!Init, ToolsInv, Tools!EffectsAnswered

LEMMA ToolsStepInv ==
  ASSUME ToolsInv, Tools!Step
  PROVE  ToolsInv'
  <1>1. CASE Tools!Register
    <2>1. /\ registered' = {Tools!LocalRank, offeredTool} /\ Tools!Registrable(offeredTool)
          /\ registered = {} /\ UNCHANGED <<offeredTool, invocation, ruling>>
      BY <1>1 DEF Tools!Register
    <2>2. Tools!LocalRank \in Tools!ToolCapability
      BY DEF Tools!LocalRank, Tools!ToolCapability, Tools!Names, Tools!ReplayClasses
    <2>3. Tools!Registrable(Tools!LocalRank)
      BY DEF Tools!LocalRank, Tools!Registrable, Tools!SideEffects
    <2>4. ruling # "authorized"
      BY <2>1 DEF ToolsInv, Tools!EffectsAnswered
    <2>5. Tools!EffectsAnswered'
      BY <2>1, <2>4 DEF Tools!EffectsAnswered
    <2>6. \A tool \in registered' : tool \in Tools!ToolCapability /\ Tools!Registrable(tool)
      BY <2>1, <2>2, <2>3 DEF ToolsInv
    <2> QED
      BY <2>1, <2>5, <2>6 DEF ToolsInv, Tools!Registrable
  <1>2. CASE Tools!Authorize
    <2>1. PICK given \in Tools!ToolInvocationContext :
            /\ invocation' = given
            /\ ruling' = IF \E tool \in registered : tool.name = given.name /\ Tools!Authorized(tool, given)
                         THEN "authorized" ELSE "denied"
      BY <1>2 DEF Tools!Authorize
    <2>2. UNCHANGED <<registered, offeredTool>>
      BY <1>2 DEF Tools!Authorize
    <2>3. ASSUME ruling' = "authorized" PROVE Tools!EffectsAnswered'
      <3>1. PICK tool \in registered : tool.name = given.name /\ Tools!Authorized(tool, given)
        BY <2>1, <2>3
      <3>2. tool \in Tools!ToolCapability /\ Tools!Registrable(tool)
        BY DEF ToolsInv
      <3> QED
        BY <2>1, <2>2, <3>1, <3>2, AuthorizedIsAnswered DEF Tools!EffectsAnswered
    <2>4. Tools!EffectsAnswered'
      BY <2>3 DEF Tools!EffectsAnswered
    <2> QED
      BY <2>2, <2>4 DEF ToolsInv, Tools!Registrable
  <1> QED
    BY <1>1, <1>2 DEF Tools!Step

(* A step of another component leaves the tools as they are. *)
LEMMA ToolsKept == ToolsInv /\ UNCHANGED tools => ToolsInv'
  <1> SUFFICES ASSUME ToolsInv, UNCHANGED tools PROVE ToolsInv'
    OBVIOUS
  <1>1. UNCHANGED <<registered, offeredTool, invocation, ruling>>
    BY DEF tools
  <1>2. Tools!EffectsAnswered'
    <2>1. Tools!EffectsAnswered
      BY DEF ToolsInv
    <2> QED
      BY <1>1, <2>1, Zenon DEF Tools!EffectsAnswered
  <1>3. \A tool \in registered' : tool \in Tools!ToolCapability /\ Tools!Registrable(tool)
    BY <1>1 DEF ToolsInv
  <1> QED
    BY <1>1, <1>2, <1>3 DEF ToolsInv, Tools!Registrable
-----------------------------------------------------------------------------
(* AssistantPage: a question remembers whose session it was sent with as long  *)
(* as the page is in its epoch; a login under way finds a page that shows      *)
(* nothing.                                                                 *)

Questions ==
  {Page!NoAsk} \union
  [phase : {"sent", "answer", "forbidden", "other", "expired"}, by : 1..LastSession, epoch : Nat]

PageTyped ==
  /\ holder \in [1..LastSession -> Page!Users \union {Page!Nobody}]
  /\ cookie \in 0..LastSession /\ alive \subseteq 1..LastSession
  /\ asks \in [1..LastAsk -> Questions]
  /\ epoch \in Nat /\ controller \in 0..LastAsk
  /\ panel \in {"assistant", "login", "left"} /\ identity \in Page!Users \union {Page!Nobody}
  /\ login \in [phase : {"idle", "posted", "me", "welcome"}, user : Page!Users \union {Page!Nobody}]

(* The page and the cookie *)
PageCoherent ==
  /\ panel # "assistant" => identity = Page!Nobody /\ result = Page!Hidden
  /\ login.phase # "idle" => panel = "login"
  /\ login.phase = "welcome" => cookie = 0 \/ holder[cookie] = login.user

(* A question of this epoch was asked by the user of this epoch. *)
QuestionsOwned ==
  \A a \in 1..LastAsk :
    asks[a] # Page!NoAsk =>
      /\ asks[a].epoch <= epoch
      /\ asks[a].epoch = epoch /\ identity # Page!Nobody => holder[asks[a].by] = identity

PageInv == PageTyped /\ PageCoherent /\ QuestionsOwned /\ Page!OneUserAtATime

LEMMA PageInit == Page!Init => PageInv
  <1> SUFFICES ASSUME Page!Init PROVE PageInv
    OBVIOUS
  <1>1. PageTyped
    BY ServicesAssumption DEF Page!Init, PageTyped, Questions, Page!Users, Page!Nobody, Page!NoAsk
  <1>2. PageCoherent
    BY DEF Page!Init, PageCoherent
  <1>3. QuestionsOwned
    BY DEF Page!Init, QuestionsOwned
  <1>4. Page!OneUserAtATime
    BY ServicesAssumption DEF Page!Init, Page!OneUserAtATime
  <1> QED
    BY <1>1, <1>2, <1>3, <1>4 DEF PageInv

(* cancelAnswerRequest forgets one question, if there is one. *)
LEMMA AbortForgets ==
  ASSUME PageTyped
  PROVE  /\ Page!Aborted \in [1..LastAsk -> Questions]
         /\ \A a \in 1..LastAsk : Page!Aborted[a] \in {Page!NoAsk, asks[a]}
  BY DEF PageTyped, Page!Aborted, Questions

(* Whatever shows the login panel keeps the invariant: no question that is     *)
(* left is of the new epoch.                                               *)
LEMMA LoggedOutKeeps ==
  ASSUME PageInv, NEW kept \in [1..LastAsk -> Questions],
         \A a \in 1..LastAsk : kept[a] \in {Page!NoAsk, asks[a]},
         Page!ShowLoggedOut(kept), UNCHANGED <<holder, login>>,
         alive' \subseteq 1..LastSession, cookie' \in 0..LastSession,
         cookie' \in {0, cookie}
  PROVE  PageInv'
  <1>1. /\ asks' = kept /\ controller' = 0 /\ epoch' = epoch + 1 /\ identity' = Page!Nobody
        /\ panel' = "login" /\ result' = Page!Hidden
    BY DEF Page!ShowLoggedOut, Page!Cleared
  <1>2. PageTyped'
    BY <1>1, ServicesAssumption DEF PageInv, PageTyped
  <1>3. PageCoherent'
    BY <1>1 DEF PageInv, PageTyped, PageCoherent
  <1>4. QuestionsOwned'
    BY <1>1 DEF PageInv, PageTyped, QuestionsOwned, Questions, Page!NoAsk
  <1>5. Page!OneUserAtATime'
    BY <1>1 DEF Page!OneUserAtATime
  <1> QED
    BY <1>2, <1>3, <1>4, <1>5 DEF PageInv

LEMMA PageStepInv ==
  ASSUME PageInv, Page!Step
  PROVE  PageInv'
  <1>0. PageTyped /\ PageCoherent /\ QuestionsOwned /\ Page!OneUserAtATime
    BY DEF PageInv
  <1>1. CASE Page!Expire
    BY <1>0, <1>1 DEF Page!Expire, Page!shown, PageInv, PageTyped, PageCoherent, QuestionsOwned, Page!OneUserAtATime
  <1>2. CASE panel # "left" /\ Page!LogIn
    BY <1>0, <1>2
       DEF Page!LogIn, Page!shown, PageInv, PageTyped, PageCoherent, QuestionsOwned, Page!OneUserAtATime
  <1>3. CASE panel # "left" /\ Page!LoginAnswered
    <2>1. panel = "login" /\ identity = Page!Nobody /\ result = Page!Hidden
      BY <1>0, <1>3 DEF Page!LoginAnswered, PageCoherent
    <2>2. UNCHANGED <<identity, epoch, controller, result, asks, logouts>>
      BY <1>3 DEF Page!LoginAnswered
    <2>3. /\ holder' \in [1..LastSession -> Page!Users \union {Page!Nobody}]
          /\ alive' \subseteq 1..LastSession
          /\ cookie' \in 0..LastSession
          /\ login' \in [phase : {"idle", "me"}, user : Page!Users \union {Page!Nobody}]
          /\ panel' \in {"login", "left"} /\ (login'.phase = "me" => panel' = "login")
      BY <1>0, <1>3, <2>1 DEF Page!LoginAnswered, PageTyped
    <2> QED
      BY <1>0, <2>1, <2>2, <2>3 DEF PageInv, PageTyped, PageCoherent, QuestionsOwned, Page!OneUserAtATime
  <1>4. CASE panel # "left" /\ Page!MeServed
    BY <1>0, <1>4
       DEF Page!MeServed, Page!shown, PageInv, PageTyped, PageCoherent, QuestionsOwned, Page!OneUserAtATime
  <1>5. CASE panel # "left" /\ Page!Welcome
    <2>1. panel = "login" /\ identity = Page!Nobody /\ result = Page!Hidden
      BY <1>0, <1>5 DEF Page!Welcome, PageCoherent, Page!OneUserAtATime
    <2>2. /\ asks' = Page!Aborted /\ controller' = 0 /\ epoch' = epoch + 1 /\ identity' = login.user
          /\ panel' = "assistant" /\ UNCHANGED <<result, alive, holder, cookie, logouts>>
          /\ login' = [phase |-> "idle", user |-> Page!Nobody] /\ login.phase = "welcome"
      BY <1>5 DEF Page!Welcome, Page!ShowAuthenticated
    <2>3. PageTyped'
      BY <1>0, <2>2, AbortForgets, ServicesAssumption DEF PageTyped, PageCoherent
    <2>4. PageCoherent'
      BY <2>2 DEF PageCoherent
    <2>5. QuestionsOwned'
      BY <1>0, <2>2, AbortForgets DEF PageTyped, QuestionsOwned, Questions, Page!NoAsk
    <2>6. Page!OneUserAtATime'
      BY <1>0, <2>1, <2>2 DEF PageCoherent, Page!OneUserAtATime
    <2> QED
      BY <2>3, <2>4, <2>5, <2>6 DEF PageInv
  <1>6. ASSUME NEW a \in 1..LastAsk, Page!Ask(a) PROVE PageInv'
    <2>1. CASE cookie = 0
      BY <1>0, <1>6, <2>1, LoggedOutKeeps DEF Page!Ask, PageTyped
    <2>2. CASE cookie # 0
      <3>1. /\ panel = "assistant" /\ result' = Page!Hidden /\ controller' = a
            /\ asks' = [asks EXCEPT ![a] = [phase |-> "sent", by |-> cookie, epoch |-> epoch]]
            /\ UNCHANGED <<panel, identity, epoch, alive, holder, cookie, login, logouts>>
        BY <1>6, <2>2 DEF Page!Ask
      <3>2. holder[cookie] = identity
        BY <1>0, <2>2, <3>1 DEF Page!OneUserAtATime
      <3>3. PageTyped'
        BY <1>0, <2>2, <3>1 DEF PageTyped, Questions
      <3>4. QuestionsOwned'
        BY <1>0, <3>1, <3>2 DEF PageTyped, QuestionsOwned
      <3>5. PageCoherent' /\ Page!OneUserAtATime'
        BY <1>0, <3>1 DEF PageCoherent, Page!OneUserAtATime
      <3> QED
        BY <3>3, <3>4, <3>5 DEF PageInv
    <2> QED
      BY <2>1, <2>2
  <1>7. ASSUME NEW a \in 1..LastAsk, panel # "left", Page!AskAnswered(a) PROVE PageInv'
    <2>0. asks[a] # Page!NoAsk /\ UNCHANGED <<alive, holder, cookie, login, logouts>>
      BY <1>7 DEF Page!AskAnswered, Page!NoAsk
    <2>1. CASE asks[a].phase \in {"forbidden", "expired"} /\ Page!StillCurrent(asks[a])
      <3> DEFINE kept == [asks EXCEPT ![a] = Page!NoAsk]
      <3>1. kept \in [1..LastAsk -> Questions] /\ \A b \in 1..LastAsk : kept[b] \in {Page!NoAsk, asks[b]}
        BY <1>0 DEF PageTyped, Questions
      <3>2. Page!ShowLoggedOut(kept)
        BY <1>7, <2>1 DEF Page!AskAnswered
      <3> HIDE DEF kept
      <3> QED
        BY <1>0, <2>0, <3>1, <3>2, LoggedOutKeeps DEF PageTyped
    <2>2. CASE ~(asks[a].phase \in {"forbidden", "expired"} /\ Page!StillCurrent(asks[a]))
      <3>1. /\ result' = IF asks[a].phase = "answer" /\ Page!StillCurrent(asks[a])
                         THEN [by |-> holder[asks[a].by], epoch |-> asks[a].epoch] ELSE result
            /\ controller' = (IF controller = a THEN 0 ELSE controller)
            /\ asks' = [asks EXCEPT ![a] = Page!NoAsk]
            /\ UNCHANGED <<panel, identity, epoch>>
        BY <1>7, <2>2 DEF Page!AskAnswered
      <3>2. PageTyped'
        BY <1>0, <2>0, <3>1, ServicesAssumption DEF PageTyped, Questions
      <3>3. QuestionsOwned'
        BY <1>0, <2>0, <3>1 DEF PageTyped, QuestionsOwned
      <3>4. Page!StillCurrent(asks[a]) => asks[a].epoch = epoch /\ holder[asks[a].by] = identity /\ panel = "assistant"
        BY <1>0, <2>0 DEF Page!StillCurrent, QuestionsOwned, PageCoherent
      <3>5. PageCoherent' /\ Page!OneUserAtATime'
        BY <1>0, <2>0, <3>1, <3>4 DEF PageCoherent, Page!OneUserAtATime
      <3> QED
        BY <3>2, <3>3, <3>5 DEF PageInv
    <2> QED
      BY <2>1, <2>2
  <1>8. ASSUME NEW l \in 1..LastLogout, Page!LogOut(l) PROVE PageInv'
    <2>1. /\ asks' = Page!Aborted /\ controller' = 0
          /\ UNCHANGED <<alive, holder, cookie, panel, identity, epoch, result, login>>
      BY <1>8 DEF Page!LogOut
    <2>2. PageTyped'
      BY <1>0, <2>1, AbortForgets, ServicesAssumption DEF PageTyped
    <2>3. QuestionsOwned'
      BY <1>0, <2>1, AbortForgets DEF QuestionsOwned
    <2> QED
      BY <1>0, <2>1, <2>2, <2>3 DEF PageInv, PageCoherent, Page!OneUserAtATime
  <1>9. ASSUME NEW l \in 1..LastLogout, Page!LogoutAnswered(l) PROVE PageInv'
    <2>1. UNCHANGED <<alive, holder, login>> /\ cookie' \in {0, cookie}
      BY <1>9 DEF Page!LogoutAnswered
    <2>2. cookie' \in 0..LastSession /\ alive' \subseteq 1..LastSession
      BY <1>0, <2>1, ServicesAssumption DEF PageTyped
    <2>3. CASE logouts[l].phase = "lost"
      BY <1>0, <1>9, <2>1, <2>2, <2>3
         DEF Page!LogoutAnswered, Page!shown, PageInv, PageTyped, PageCoherent, QuestionsOwned, Page!OneUserAtATime
    <2>4. CASE logouts[l].phase # "lost"
      <3>1. Page!ShowLoggedOut(Page!Aborted)
        BY <1>9, <2>4 DEF Page!LogoutAnswered
      <3> QED
        BY <1>0, <2>1, <2>2, <3>1, AbortForgets, LoggedOutKeeps
    <2> QED
      BY <2>3, <2>4
  <1>10. ASSUME NEW a \in 1..LastAsk, Page!AskServed(a) PROVE PageInv'
    <2>1. /\ asks[a] # Page!NoAsk
          /\ UNCHANGED <<alive, holder, cookie, panel, identity, epoch, controller, result, login, logouts>>
      BY <1>10 DEF Page!AskServed, Page!NoAsk, Page!shown
    <2>2. PICK reaction \in {"answer", "forbidden", "other", "expired"} : asks' = [asks EXCEPT ![a].phase = reaction]
      BY <1>10 DEF Page!AskServed
    <2>3. PageTyped'
      BY <1>0, <2>1, <2>2 DEF PageTyped, Questions
    <2>4. QuestionsOwned'
      BY <1>0, <2>1, <2>2 DEF PageTyped, QuestionsOwned, Questions
    <2> QED
      BY <1>0, <2>1, <2>3, <2>4 DEF PageInv, PageCoherent, Page!OneUserAtATime
  <1>11. ASSUME NEW l \in 1..LastLogout, Page!LogoutServed(l) PROVE PageInv'
    BY <1>0, <1>11
       DEF Page!LogoutServed, Page!shown, PageInv, PageTyped, PageCoherent, QuestionsOwned, Page!OneUserAtATime
  <1> QED
    BY <1>1, <1>2, <1>3, <1>4, <1>5, <1>6, <1>7, <1>8, <1>9, <1>10, <1>11 DEF Page!Step

-----------------------------------------------------------------------------
(* AdminPage: the buttons on the page are of its item and for the user they    *)
(* were made for, so that a transition that is sent was offered.             *)

AdminRequests ==
  {Admin!Unsent} \union
  [kind : {"open", "transition", "review", "create", "attach", "account"},
   action : Admin!Actions \union {Admin!NoAction}, for : Admin!Users \union {Admin!Nobody},
   sensitive : BOOLEAN, phase : {"sent", "dialog", "again"}]

AdminTyped ==
  /\ currentUser \in Admin!Users \union {Admin!Nobody}
  /\ selectedContent \in Admin!Statuses \union {Admin!NoItem}
  /\ selectedPanel \in [item : Admin!Statuses \union {Admin!NoItem}, buttons : SUBSET Admin!Actions,
                        for : Admin!Users \union {Admin!Nobody}, current : BOOLEAN]
  /\ requests \in [1..LastRequest -> AdminRequests]
  /\ entering \in [1..LastLogin -> Admin!Users \union {Admin!Nobody}]
  /\ leaving \in BOOLEAN /\ boot \in BOOLEAN

ButtonsOffered == selectedPanel.buttons \subseteq Admin!Offered(selectedPanel.item, selectedPanel.for)

AdminInv == AdminTyped /\ ButtonsOffered /\ Admin!ButtonsOfWhatIsShown

LEMMA AdminInit == Admin!Init => AdminInv
  <1> SUFFICES ASSUME Admin!Init PROVE AdminInv
    OBVIOUS
  <1>1. AdminTyped
    BY DEF Admin!Init, AdminTyped, AdminRequests, Admin!Blank
  <1>2. ButtonsOffered
    BY DEF Admin!Init, ButtonsOffered, Admin!Blank
  <1>3. Admin!ButtonsOfWhatIsShown
    BY DEF Admin!Init, Admin!ButtonsOfWhatIsShown, Admin!Unsent
  <1> QED
    BY <1>1, <1>2, <1>3 DEF AdminInv

LEMMA OfferedAreActions ==
  ASSUME NEW status, NEW user
  PROVE  Admin!Offered(status, user) \subseteq Admin!Actions
  BY DEF Admin!Offered

LEMMA ActionsAreOfStatuses ==
  ASSUME NEW act \in Admin!Actions
  PROVE  act.target \in Admin!Statuses
  BY DEF Admin!Actions, Admin!Statuses

(* A step that sends, closes or repeats one request without a new offer *)
LEMMA RequestChanged ==
  ASSUME AdminInv, NEW r \in 1..LastRequest, NEW request \in AdminRequests,
         request.kind = "transition" => request.action \in Admin!Offered(request.action.from, request.for),
         requests' = [requests EXCEPT ![r] = request],
         UNCHANGED <<Admin!shownNow, entering, leaving, boot>>
  PROVE  AdminInv'
  <1>1. AdminTyped' /\ ButtonsOffered'
    BY DEF AdminInv, AdminTyped, ButtonsOffered, Admin!shownNow
  <1>2. Admin!ButtonsOfWhatIsShown'
    BY DEF AdminInv, AdminTyped, Admin!ButtonsOfWhatIsShown, Admin!shownNow
  <1> QED
    BY <1>1, <1>2 DEF AdminInv

LEMMA AdminStepInv ==
  ASSUME AdminInv, Admin!Step
  PROVE  AdminInv'
  <1>0. AdminTyped /\ ButtonsOffered /\ Admin!ButtonsOfWhatIsShown
    BY DEF AdminInv
  <1>1. CASE Admin!Booted \/ Admin!LogoutDone
    <2>1. AdminTyped' /\ ButtonsOffered'
      BY <1>0, <1>1 DEF Admin!Booted, Admin!LogoutDone, Admin!ShowApp, Admin!ShowLogin, Admin!shownNow,
                        AdminTyped, ButtonsOffered
    <2>2. Admin!ButtonsOfWhatIsShown'
      BY <1>0, <1>1 DEF Admin!Booted, Admin!LogoutDone, Admin!ShowApp, Admin!ShowLogin, Admin!shownNow,
                        AdminTyped, Admin!ButtonsOfWhatIsShown
    <2> QED
      BY <2>1, <2>2 DEF AdminInv
  <1>2. ASSUME NEW l \in 1..LastLogin, Admin!SubmitLogin(l) \/ Admin!LoginDone(l) PROVE AdminInv'
    <2>1. AdminTyped' /\ ButtonsOffered'
      BY <1>0, <1>2 DEF Admin!SubmitLogin, Admin!LoginDone, Admin!ShowApp, Admin!shownNow,
                        AdminTyped, ButtonsOffered
    <2>2. Admin!ButtonsOfWhatIsShown'
      BY <1>0, <1>2 DEF Admin!SubmitLogin, Admin!LoginDone, Admin!ShowApp, Admin!shownNow,
                        AdminTyped, Admin!ButtonsOfWhatIsShown
    <2> QED
      BY <2>1, <2>2 DEF AdminInv
  <1>3. CASE Admin!ClickLogout
    BY <1>0, <1>3 DEF Admin!ClickLogout, Admin!shownNow, AdminInv, AdminTyped, ButtonsOffered,
                      Admin!ButtonsOfWhatIsShown
  <1>4. ASSUME NEW r \in 1..LastRequest, NEW act \in Admin!Actions \union {Admin!NoAction},
               NEW kind \in {"open", "review", "create", "attach", "account"}, NEW sensitive \in BOOLEAN,
               Admin!Send(r, Admin!NewRequest(kind, act, sensitive))
        PROVE  AdminInv'
    <2>1. Admin!NewRequest(kind, act, sensitive) \in AdminRequests
      BY <1>0 DEF Admin!NewRequest, AdminRequests, AdminTyped
    <2>2. Admin!NewRequest(kind, act, sensitive).kind # "transition"
      BY DEF Admin!NewRequest
    <2> QED
      BY <1>4, <2>1, <2>2, RequestChanged DEF Admin!Send
  <1>5. ASSUME NEW r \in 1..LastRequest,
               \/ Admin!SelectContent(r) \/ Admin!ReviewClaim(r) \/ Admin!SubmitForm(r)
               \/ Admin!CreateUser(r)
        PROVE  AdminInv'
    BY <1>4, <1>5 DEF Admin!SelectContent, Admin!ReviewClaim, Admin!SubmitForm, Admin!CreateUser
  <1>6. ASSUME NEW r \in 1..LastRequest, Admin!TransitionContent(r) PROVE AdminInv'
    <2>1. PICK act \in selectedPanel.buttons :
            Admin!Send(r, Admin!NewRequest("transition", act, act.target \in {"published", "archived"}))
      BY <1>6 DEF Admin!TransitionContent
    <2> DEFINE request == Admin!NewRequest("transition", act, act.target \in {"published", "archived"})
    <2>2. /\ request \in AdminRequests
          /\ request.action = act /\ request.for = selectedPanel.for
      BY <1>0 DEF Admin!NewRequest, AdminRequests, AdminTyped
    <2>3. request.action \in Admin!Offered(request.action.from, request.for)
      BY <1>0, <2>2 DEF ButtonsOffered, Admin!Offered
    <2>4. requests' = [requests EXCEPT ![r] = request] /\ UNCHANGED <<Admin!shownNow, entering, leaving, boot>>
      BY <2>1 DEF Admin!Send
    <2> HIDE DEF request
    <2> QED
      BY <2>2, <2>3, <2>4, RequestChanged
  <1>7. ASSUME NEW r \in 1..LastRequest, Admin!Refused(r) \/ Admin!StepUp(r) PROVE AdminInv'
    <2>1. requests[r] \in AdminRequests /\ requests[r] # Admin!Unsent
      BY <1>0, <1>7 DEF Admin!Refused, Admin!StepUp, AdminTyped, Admin!Unsent
    <2>2. PICK phase \in {"dialog", "again"} :
            requests' = [requests EXCEPT ![r] = Admin!Unsent] \/ requests' = [requests EXCEPT ![r].phase = phase]
      BY <1>7 DEF Admin!Refused, Admin!StepUp, Admin!Close
    <2>3. UNCHANGED <<Admin!shownNow, entering, leaving, boot>>
      BY <1>7 DEF Admin!Refused, Admin!StepUp
    <2>4. CASE requests' = [requests EXCEPT ![r] = Admin!Unsent]
      BY <2>3, <2>4, RequestChanged DEF AdminRequests, Admin!Unsent
    <2>5. CASE requests' = [requests EXCEPT ![r].phase = phase]
      <3> DEFINE request == [requests[r] EXCEPT !.phase = phase]
      <3>1. request \in AdminRequests /\ request.kind = requests[r].kind /\ request.action = requests[r].action
            /\ request.for = requests[r].for
        BY <2>1 DEF AdminRequests
      <3>2. requests' = [requests EXCEPT ![r] = request]
        BY <2>5
      <3> HIDE DEF request
      <3> QED
        BY <1>0, <2>3, <3>1, <3>2, RequestChanged DEF Admin!ButtonsOfWhatIsShown
    <2> QED
      BY <2>2, <2>4, <2>5
  <1>8. ASSUME NEW r \in 1..LastRequest, Admin!Accepted(r) PROVE AdminInv'
    <2>1. requests[r] \in AdminRequests /\ requests[r] # Admin!Unsent /\ UNCHANGED <<entering, leaving, boot>>
      BY <1>0, <1>8 DEF Admin!Accepted, AdminTyped, Admin!Unsent
    <2>2. CASE requests[r].kind = "account"
      BY <1>8, <2>1, <2>2, RequestChanged DEF Admin!Accepted, Admin!Close, AdminRequests, Admin!Unsent
    <2>3. CASE requests[r].kind = "review"
      <3> DEFINE request == IF selectedContent = Admin!NoItem THEN Admin!Unsent
                            ELSE Admin!NewRequest("open", Admin!NoAction, FALSE)
      <3>1. request \in AdminRequests /\ request.kind # "transition"
        BY <1>0 DEF Admin!NewRequest, AdminRequests, AdminTyped, Admin!Unsent
      <3>2. requests' = [requests EXCEPT ![r] = request] /\ UNCHANGED Admin!shownNow
        BY <1>8, <2>3 DEF Admin!Accepted
      <3> HIDE DEF request
      <3> QED
        BY <2>1, <3>1, <3>2, RequestChanged
    <2>4. CASE requests[r].kind \in {"open", "transition", "create", "attach"}
      <3>1. PICK status \in Admin!Statuses : Admin!Close(r) /\ Admin!RenderSelected(status)
        <4>1. CASE requests[r].kind = "transition"
          <5>1. requests[r].action \in Admin!Actions
            BY <1>0, <4>1, OfferedAreActions DEF Admin!ButtonsOfWhatIsShown
          <5> QED
            BY <1>8, <4>1, <5>1, ActionsAreOfStatuses DEF Admin!Accepted
        <4>2. CASE requests[r].kind = "create"
          BY <1>8, <4>2 DEF Admin!Accepted, Admin!Statuses
        <4>3. CASE requests[r].kind \in {"open", "attach"}
          BY <1>8, <4>3 DEF Admin!Accepted
        <4> QED
          BY <2>4, <4>1, <4>2, <4>3
      <3>2. /\ requests' = [requests EXCEPT ![r] = Admin!Unsent] /\ selectedContent' = status
            /\ selectedPanel' = [item |-> status, buttons |-> Admin!Offered(status, currentUser),
                                 for |-> currentUser, current |-> TRUE]
            /\ UNCHANGED currentUser
        BY <3>1 DEF Admin!Close, Admin!RenderSelected
      <3>3. AdminTyped'
        BY <1>0, <2>1, <3>2, OfferedAreActions DEF AdminTyped, AdminRequests
      <3>4. ButtonsOffered'
        BY <3>2 DEF ButtonsOffered
      <3>5. Admin!ButtonsOfWhatIsShown'
        BY <1>0, <3>2 DEF AdminTyped, Admin!ButtonsOfWhatIsShown, Admin!Unsent
      <3> QED
        BY <3>3, <3>4, <3>5 DEF AdminInv
    <2> QED
      BY <2>1, <2>2, <2>3, <2>4 DEF AdminRequests
  <1> QED
    BY <1>1, <1>2, <1>3, <1>5, <1>6, <1>7, <1>8 DEF Admin!Step

-----------------------------------------------------------------------------
(* SecondFactorDialog: who waits for a dialog has one, and a login that has     *)
(* come through keeps a session whose factor is settled.                      *)

Sessions ==
  [1..LastSessionOpened -> [user : Bridge!People \union {"nobody"}, alive : BOOLEAN, verified : BOOLEAN]]

Fetches ==
  [phase : {"idle", "posted", "accepted", "status", "enroll", "secret", "code", "checking", "codes",
            "cancel", "ready"},
   user : Bridge!People \union {"nobody"}, by : 0..LastSessionOpened, enrolling : BOOLEAN]

BridgeTyped ==
  /\ required \subseteq Bridge!People /\ enrolled \subseteq Bridge!People /\ pending \subseteq Bridge!People
  /\ session \in Sessions /\ jar \in 0..LastSessionOpened
  /\ fetching \in [Logins -> Fetches] /\ dialogs \in Seq(Logins)

(* The session of the cookie, and those alive, were opened for somebody. *)
SessionsOpened ==
  /\ jar # 0 => session[jar].user \in Bridge!People
  /\ \A s \in 1..LastSessionOpened : session[s].alive => session[s].user \in Bridge!People

(* How far a login is: the session of its last request was opened, and the      *)
(* factor is settled for that session once the login has come through.        *)
Coherent(f, sessions) ==
  /\ f.by # 0 => sessions[f.by].user \in Bridge!People
  /\ f.phase = "posted" => f.user \in Bridge!People
  /\ f.phase \in {"ready", "codes"} =>
       f.by # 0 /\ (sessions[f.by].verified \/ sessions[f.by].user \notin required)

LoginsCoherent == \A l \in Logins : Coherent(fetching[l], session)

Shown == {dialogs[i] : i \in 1..Len(dialogs)}

(* A login has one dialog at most, and those with one wait for it. *)
DialogsHeld ==
  /\ \A i, j \in 1..Len(dialogs) : dialogs[i] = dialogs[j] => i = j
  /\ \A l \in Logins : fetching[l].phase \in {"secret", "code", "codes"} <=> l \in Shown

BridgeInv == BridgeTyped /\ SessionsOpened /\ LoginsCoherent /\ DialogsHeld

LEMMA BridgeInit == Bridge!Init => BridgeInv
  <1> SUFFICES ASSUME Bridge!Init PROVE BridgeInv
    OBVIOUS
  <1>1. BridgeTyped
    BY ServicesAssumption DEF Bridge!Init, BridgeTyped, Sessions, Fetches, Bridge!Unborn, Bridge!Idle
  <1>2. SessionsOpened /\ LoginsCoherent
    BY ServicesAssumption DEF Bridge!Init, SessionsOpened, LoginsCoherent, Coherent, Bridge!Unborn, Bridge!Idle
  <1>3. DialogsHeld
    BY DEF Bridge!Init, DialogsHeld, Shown, Bridge!Idle
  <1> QED
    BY <1>1, <1>2, <1>3 DEF BridgeInv

LEMMA BridgeSettles == BridgeInv => Bridge!FactorSettled
  <1> SUFFICES ASSUME BridgeInv PROVE Bridge!FactorSettled
    OBVIOUS
  <1>1. \A l \in Logins :
          Bridge!At(l, "ready") => session[fetching[l].by].verified \/ Bridge!Holder(l) \notin required
    BY DEF BridgeInv, LoginsCoherent, Coherent, Bridge!At, Bridge!Holder
  <1>2. DOMAIN dialogs = 1..Len(dialogs)
    BY DEF BridgeInv, BridgeTyped
  <1>3. \A l \in Logins :
          fetching[l].phase \in {"secret", "code", "codes"} <=> \E i \in DOMAIN dialogs : dialogs[i] = l
    BY <1>2 DEF BridgeInv, DialogsHeld, Shown
  <1> QED
    BY <1>1, <1>3 DEF Bridge!FactorSettled

(* A dialog opens over the others, and only the topmost closes. *)
LEMMA OpenShows ==
  ASSUME BridgeTyped, DialogsHeld, NEW l \in Logins, l \notin Shown, Bridge!Open(l)
  PROVE  /\ dialogs' \in Seq(Logins) /\ Shown' = Shown \union {l}
         /\ \A i, j \in 1..Len(dialogs') : dialogs'[i] = dialogs'[j] => i = j
  <1>1. /\ dialogs' \in Seq(Logins) /\ Len(dialogs') = Len(dialogs) + 1
        /\ \A i \in 1..Len(dialogs) + 1 : dialogs'[i] = IF i = 1 THEN l ELSE dialogs[i - 1]
    BY DEF BridgeTyped, Bridge!Open
  <1>2. Len(dialogs) \in Nat
    BY DEF BridgeTyped
  <1>3. Shown' = Shown \union {l}
    <2>1. Shown' \subseteq Shown \union {l}
      BY <1>1, <1>2 DEF Shown
    <2>2. l \in Shown'
      <3>1. 1 \in 1..Len(dialogs') /\ dialogs'[1] = l
        BY <1>1, <1>2
      <3> QED
        BY <3>1 DEF Shown
    <2>3. ASSUME NEW i \in 1..Len(dialogs) PROVE dialogs[i] \in Shown'
      <3>1. i + 1 \in 1..Len(dialogs') /\ dialogs'[i + 1] = dialogs[i]
        BY <1>1, <1>2
      <3> QED
        BY <3>1 DEF Shown
    <2> QED
      BY <2>1, <2>2, <2>3 DEF Shown
  <1>4. ASSUME NEW i \in 1..Len(dialogs'), NEW j \in 1..Len(dialogs'), dialogs'[i] = dialogs'[j] PROVE i = j
    <2>1. ASSUME NEW k \in 1..Len(dialogs), dialogs[k] = l PROVE FALSE
      BY <2>1 DEF Shown
    <2>2. i # 1 => i - 1 \in 1..Len(dialogs) /\ dialogs'[i] = dialogs[i - 1]
      BY <1>1, <1>2
    <2>3. j # 1 => j - 1 \in 1..Len(dialogs) /\ dialogs'[j] = dialogs[j - 1]
      BY <1>1, <1>2
    <2>4. (i = 1 => dialogs'[i] = l) /\ (j = 1 => dialogs'[j] = l)
      BY <1>1, <1>2
    <2>5. CASE i # 1 /\ j # 1
      <3>1. i - 1 = j - 1
        BY <1>4, <2>2, <2>3, <2>5 DEF DialogsHeld
      <3> QED
        BY <1>1, <1>2, <3>1
    <2> QED
      BY <1>4, <2>1, <2>2, <2>3, <2>4, <2>5
  <1> QED
    BY <1>1, <1>3, <1>4

LEMMA CloseHides ==
  ASSUME BridgeTyped, DialogsHeld, NEW l \in Logins, Bridge!OnTop(l), Bridge!CloseTop
  PROVE  /\ dialogs' \in Seq(Logins) /\ Shown' = Shown \ {l}
         /\ \A i, j \in 1..Len(dialogs') : dialogs'[i] = dialogs'[j] => i = j
  <1>1. /\ dialogs' \in Seq(Logins) /\ Len(dialogs') = Len(dialogs) - 1 /\ dialogs[1] = l /\ Len(dialogs) >= 1
        /\ \A i \in 1..Len(dialogs) - 1 : dialogs'[i] = dialogs[i + 1]
    BY DEF BridgeTyped, Bridge!OnTop, Bridge!CloseTop
  <1>2. Len(dialogs) \in Nat
    BY DEF BridgeTyped
  <1>3. ASSUME NEW i \in 1..Len(dialogs) - 1 PROVE i + 1 \in 1..Len(dialogs) /\ dialogs[i + 1] # l
    <2>1. i + 1 \in 1..Len(dialogs) /\ 1 \in 1..Len(dialogs) /\ i + 1 # 1
      BY <1>1, <1>2
    <2> QED
      BY <1>1, <2>1 DEF DialogsHeld
  <1>4. Shown' \subseteq Shown \ {l}
    <2> SUFFICES ASSUME NEW i \in 1..Len(dialogs) - 1 PROVE dialogs'[i] \in Shown \ {l}
      BY <1>1 DEF Shown
    <2> QED
      BY <1>1, <1>3 DEF Shown
  <1>5. ASSUME NEW i \in 1..Len(dialogs), dialogs[i] # l PROVE dialogs[i] \in Shown'
    <2>1. i - 1 \in 1..Len(dialogs') /\ dialogs'[i - 1] = dialogs[i]
      BY <1>1, <1>2, <1>5
    <2> QED
      BY <2>1 DEF Shown
  <1>6. ASSUME NEW i \in 1..Len(dialogs'), NEW j \in 1..Len(dialogs'), dialogs'[i] = dialogs'[j] PROVE i = j
    <2>1. /\ i + 1 \in 1..Len(dialogs) /\ j + 1 \in 1..Len(dialogs)
          /\ dialogs[i + 1] = dialogs[j + 1]
      BY <1>1, <1>2, <1>6
    <2>2. i + 1 = j + 1
      BY <2>1 DEF DialogsHeld
    <2> QED
      BY <1>1, <1>2, <2>2
  <1>7. Shown \ {l} \subseteq Shown'
    BY <1>5 DEF Shown
  <1> QED
    BY <1>1, <1>4, <1>6, <1>7

(* A step that leaves the dialogs, and a login's need of one, as they are *)
LEMMA DialogsKept ==
  ASSUME DialogsHeld, UNCHANGED dialogs,
         \A l \in Logins : fetching'[l].phase \in {"secret", "code", "codes"}
                           <=> fetching[l].phase \in {"secret", "code", "codes"}
  PROVE  DialogsHeld'
  BY DEF DialogsHeld, Shown

(* What the server may have done to its sessions and the cookie by a step: it    *)
(* opens, verifies and ends sessions, and never hands one to somebody else.     *)
ServerMoves ==
  /\ required' = required /\ enrolled' \subseteq Bridge!People /\ pending' \subseteq Bridge!People
  /\ session' \in Sessions /\ jar' \in 0..LastSessionOpened
  /\ jar' # 0 => session'[jar'].user \in Bridge!People
  /\ \A s \in 1..LastSessionOpened :
       /\ session[s].user \in Bridge!People =>
            session'[s].user = session[s].user /\ (session[s].verified => session'[s].verified)
       /\ session'[s].alive => session'[s].user \in Bridge!People

LEMMA ServerStays ==
  ASSUME BridgeInv, UNCHANGED Bridge!server
  PROVE  ServerMoves
  BY DEF BridgeInv, BridgeTyped, SessionsOpened, ServerMoves, Bridge!server

LEMMA ServerEnds ==
  ASSUME BridgeInv, NEW s \in 1..LastSessionOpened, session' = [session EXCEPT ![s].alive = FALSE],
         jar' \in {0, jar}, UNCHANGED <<required, enrolled, pending>>
  PROVE  ServerMoves
  <1>1. session' \in Sessions
    BY DEF BridgeInv, BridgeTyped, Sessions
  <1>2. \A t \in 1..LastSessionOpened :
          /\ session'[t].user = session[t].user /\ session'[t].verified = session[t].verified
          /\ session'[t].alive => session[t].alive
    BY DEF BridgeInv, BridgeTyped, Sessions
  <1>3. jar' \in 0..LastSessionOpened
    <2>1. jar \in 0..LastSessionOpened
      BY DEF BridgeInv, BridgeTyped
    <2>2. 0 \in 0..LastSessionOpened
      BY ServicesAssumption
    <2> QED
      BY <2>1, <2>2
  <1> QED
    BY <1>1, <1>2, <1>3 DEF BridgeInv, BridgeTyped, SessionsOpened, ServerMoves

LEMMA AcceptedIsOpened ==
  ASSUME BridgeInv, NEW l \in Logins, Bridge!Accepted(l)
  PROVE  /\ fetching[l].by \in 1..LastSessionOpened /\ Bridge!Holder(l) \in Bridge!People
         /\ Bridge!Holder(l) = session[fetching[l].by].user
  BY ServicesAssumption DEF BridgeInv, BridgeTyped, SessionsOpened, Fetches, Bridge!Accepted, Bridge!Holder

LEMMA CodeVerifies ==
  ASSUME BridgeInv, NEW l \in Logins, Bridge!CodeTaken(l)
  PROVE  ServerMoves /\ fetching[l].by # 0 /\ session'[fetching[l].by].verified
  <1> DEFINE s == fetching[l].by
  <1>1. /\ s \in 1..LastSessionOpened /\ session[s].user \in Bridge!People
        /\ session' = [session EXCEPT ![s].verified = TRUE] /\ UNCHANGED <<required, jar>>
        /\ enrolled' = enrolled \union {session[s].user} /\ pending' = pending \ {session[s].user}
    BY AcceptedIsOpened DEF Bridge!CodeTaken, Bridge!Holder
  <1>2. session' \in Sessions
    BY <1>1 DEF BridgeInv, BridgeTyped, Sessions
  <1>3. \A t \in 1..LastSessionOpened :
          /\ session'[t].user = session[t].user /\ session'[t].alive = session[t].alive
          /\ session'[t].verified <=> session[t].verified \/ t = s
    BY <1>1 DEF BridgeInv, BridgeTyped, Sessions
  <1> HIDE DEF s
  <1>4. ServerMoves
    BY <1>1, <1>2, <1>3 DEF BridgeInv, BridgeTyped, SessionsOpened, ServerMoves
  <1>5. s # 0 /\ session'[s].verified
    BY <1>1, <1>3
  <1> QED
    BY <1>4, <1>5 DEF s

(* A step of one login, of which the rest of the invariant follows from where   *)
(* the login has come to.                                                  *)
LEMMA LoginMoves ==
  ASSUME BridgeInv, ServerMoves, NEW l \in Logins, NEW f \in Fetches, Coherent(f, session'),
         fetching' = [fetching EXCEPT ![l] = f], dialogs' \in Seq(Logins), DialogsHeld'
  PROVE  BridgeInv'
  <1>1. BridgeTyped'
    BY DEF BridgeInv, BridgeTyped, ServerMoves
  <1>2. SessionsOpened'
    BY DEF SessionsOpened, ServerMoves
  <1>3. ASSUME NEW m \in Logins, m # l PROVE Coherent(fetching[m], session')
    <2>1. fetching[m] \in Fetches /\ Coherent(fetching[m], session)
      BY DEF BridgeInv, BridgeTyped, LoginsCoherent
    <2>2. fetching[m].by # 0 => fetching[m].by \in 1..LastSessionOpened
      BY <2>1, ServicesAssumption DEF Fetches
    <2> QED
      BY <2>1, <2>2 DEF Coherent, ServerMoves
  <1>4. \A m \in Logins : Coherent(fetching'[m], session')
    BY <1>3 DEF BridgeInv, BridgeTyped
  <1>5. required' = required
    BY DEF ServerMoves
  <1>6. LoginsCoherent'
    BY <1>4, <1>5 DEF LoginsCoherent, Coherent
  <1> QED
    BY <1>1, <1>2, <1>6 DEF BridgeInv

(* Where Go and Ask leave a login *)
Moved(l, phase, by, enrolling) == [phase |-> phase, user |-> fetching[l].user, by |-> by, enrolling |-> enrolling]

LEMMA GoMoves ==
  ASSUME BridgeInv, NEW l \in Logins, NEW phase, Bridge!Go(l, phase)
  PROVE  fetching' = [fetching EXCEPT ![l] = Moved(l, phase, fetching[l].by, fetching[l].enrolling)]
  <1>1. fetching \in [Logins -> Fetches] /\ fetching[l] \in Fetches
    BY DEF BridgeInv, BridgeTyped
  <1>2. [fetching[l] EXCEPT !.phase = phase] = Moved(l, phase, fetching[l].by, fetching[l].enrolling)
    BY <1>1 DEF Fetches, Moved
  <1>3. [fetching EXCEPT ![l].phase = phase] = [fetching EXCEPT ![l] = [fetching[l] EXCEPT !.phase = phase]]
    BY <1>1
  <1> QED
    BY <1>2, <1>3 DEF Bridge!Go

LEMMA BothMove ==
  ASSUME BridgeInv, NEW l \in Logins, NEW phase, NEW by
  PROVE  [fetching EXCEPT ![l].phase = phase, ![l].by = by]
         = [fetching EXCEPT ![l] = Moved(l, phase, by, fetching[l].enrolling)]
  <1>1. fetching \in [Logins -> Fetches] /\ fetching[l] \in Fetches
    BY DEF BridgeInv, BridgeTyped
  <1>2. [[fetching[l] EXCEPT !.phase = phase] EXCEPT !.by = by] = Moved(l, phase, by, fetching[l].enrolling)
    <2> DEFINE half == [phase |-> phase, user |-> fetching[l].user, by |-> fetching[l].by,
                        enrolling |-> fetching[l].enrolling]
    <2>1. [fetching[l] EXCEPT !.phase = phase] = half
      BY <1>1 DEF Fetches
    <2>2. [half EXCEPT !.by = by] = Moved(l, phase, by, fetching[l].enrolling)
      BY DEF Moved
    <2> QED
      BY <2>1, <2>2
  <1>3. [fetching EXCEPT ![l].phase = phase, ![l].by = by]
        = [fetching EXCEPT ![l] = [[fetching[l] EXCEPT !.phase = phase] EXCEPT !.by = by]]
    BY <1>1
  <1> QED
    BY <1>2, <1>3

LEMMA PostedMoves ==
  ASSUME NEW idle \in Fetches, NEW u
  PROVE  [idle EXCEPT !.phase = "posted", !.user = u]
         = [phase |-> "posted", user |-> u, by |-> idle.by, enrolling |-> idle.enrolling]
  <1> DEFINE half == [phase |-> "posted", user |-> idle.user, by |-> idle.by, enrolling |-> idle.enrolling]
  <1>1. [idle EXCEPT !.phase = "posted"] = half
    BY DEF Fetches
  <1>2. [half EXCEPT !.user = u] = [phase |-> "posted", user |-> u, by |-> idle.by, enrolling |-> idle.enrolling]
    OBVIOUS
  <1>3. [idle EXCEPT !.phase = "posted", !.user = u] = [[idle EXCEPT !.phase = "posted"] EXCEPT !.user = u]
    OBVIOUS
  <1> QED
    BY <1>1, <1>2, <1>3

LEMMA EnrollMoves ==
  ASSUME BridgeInv, NEW l \in Logins
  PROVE  [fetching EXCEPT ![l].phase = "secret", ![l].enrolling = TRUE]
         = [fetching EXCEPT ![l] = Moved(l, "secret", fetching[l].by, TRUE)]
  <1>1. fetching \in [Logins -> Fetches] /\ fetching[l] \in Fetches
    BY DEF BridgeInv, BridgeTyped
  <1>2. [[fetching[l] EXCEPT !.phase = "secret"] EXCEPT !.enrolling = TRUE]
        = Moved(l, "secret", fetching[l].by, TRUE)
    <2> DEFINE half == [phase |-> "secret", user |-> fetching[l].user, by |-> fetching[l].by,
                        enrolling |-> fetching[l].enrolling]
    <2>1. [fetching[l] EXCEPT !.phase = "secret"] = half
      BY <1>1 DEF Fetches
    <2>2. \A e : [half EXCEPT !.enrolling = e] = Moved(l, "secret", fetching[l].by, e)
      BY DEF Moved
    <2> QED
      BY <2>1, <2>2
  <1>3. [fetching EXCEPT ![l].phase = "secret", ![l].enrolling = TRUE]
        = [fetching EXCEPT ![l] = [[fetching[l] EXCEPT !.phase = "secret"] EXCEPT !.enrolling = TRUE]]
    BY <1>1
  <1> QED
    BY <1>2, <1>3

LEMMA AskMoves ==
  ASSUME BridgeInv, NEW l \in Logins, NEW phase, Bridge!Ask(l, phase)
  PROVE  fetching' = [fetching EXCEPT ![l] = Moved(l, phase, jar, fetching[l].enrolling)]
  BY BothMove DEF Bridge!Ask

(* The steps of a login that neither open nor close a dialog, open one for it,   *)
(* and close its own                                                       *)
LEMMA KeptMoves ==
  ASSUME BridgeInv, ServerMoves, NEW l \in Logins, NEW f \in Fetches, Coherent(f, session'),
         fetching' = [fetching EXCEPT ![l] = f], UNCHANGED dialogs,
         f.phase \in {"secret", "code", "codes"} <=> fetching[l].phase \in {"secret", "code", "codes"}
  PROVE  BridgeInv'
  <1>1. \A m \in Logins : fetching'[m].phase \in {"secret", "code", "codes"}
                           <=> fetching[m].phase \in {"secret", "code", "codes"}
    BY DEF BridgeInv, BridgeTyped
  <1>2. DialogsHeld' /\ dialogs' \in Seq(Logins)
    BY <1>1, DialogsKept DEF BridgeInv, BridgeTyped
  <1> QED
    BY <1>2, LoginMoves

LEMMA OpenMoves ==
  ASSUME BridgeInv, ServerMoves, NEW l \in Logins, NEW f \in Fetches, Coherent(f, session'),
         fetching' = [fetching EXCEPT ![l] = f], Bridge!Open(l),
         f.phase \in {"secret", "code", "codes"}, fetching[l].phase \notin {"secret", "code", "codes"}
  PROVE  BridgeInv'
  <1>1. dialogs' \in Seq(Logins) /\ DialogsHeld'
    BY OpenShows DEF BridgeInv, BridgeTyped, DialogsHeld
  <1> QED
    BY <1>1, LoginMoves

LEMMA CloseMoves ==
  ASSUME BridgeInv, ServerMoves, NEW l \in Logins, NEW f \in Fetches, Coherent(f, session'),
         fetching' = [fetching EXCEPT ![l] = f], Bridge!OnTop(l), Bridge!CloseTop,
         f.phase \notin {"secret", "code", "codes"}
  PROVE  BridgeInv'
  <1>1. dialogs' \in Seq(Logins) /\ DialogsHeld'
    BY CloseHides DEF BridgeInv, BridgeTyped, DialogsHeld
  <1> QED
    BY <1>1, LoginMoves

LEMMA BridgeStepInv ==
  ASSUME BridgeInv, Bridge!Step
  PROVE  BridgeInv'
  <1>0. /\ BridgeTyped /\ SessionsOpened /\ DialogsHeld
        /\ \A l \in Logins : fetching[l] \in Fetches /\ Coherent(fetching[l], session)
    BY DEF BridgeInv, BridgeTyped, LoginsCoherent
  <1>1. CASE Bridge!Expire
    <2>1. UNCHANGED <<required, enrolled, pending, jar, fetching, dialogs>>
      BY <1>1 DEF Bridge!Expire
    <2>2. ServerMoves
      BY <1>1, ServerEnds DEF Bridge!Expire
    <2>3. BridgeTyped' /\ SessionsOpened'
      BY <1>0, <2>1, <2>2 DEF BridgeTyped, SessionsOpened, ServerMoves
    <2>4. ASSUME NEW l \in Logins PROVE Coherent(fetching[l], session')
      <3>1. fetching[l].by # 0 => fetching[l].by \in 1..LastSessionOpened
        BY <1>0, ServicesAssumption DEF Fetches
      <3> QED
        BY <1>0, <2>2, <3>1 DEF Coherent, ServerMoves
    <2>5. LoginsCoherent'
      BY <2>1, <2>4 DEF LoginsCoherent, Coherent
    <2>6. DialogsHeld'
      BY <1>0, <2>1, DialogsKept
    <2> QED
      BY <2>3, <2>5, <2>6 DEF BridgeInv
  <1>2. ASSUME NEW l \in Logins, Bridge!Submit(l) PROVE BridgeInv'
    <2>1. PICK u \in Bridge!People :
            fetching' = [fetching EXCEPT ![l] = [Bridge!Idle EXCEPT !.phase = "posted", !.user = u]]
      BY <1>2 DEF Bridge!Submit
    <2> DEFINE f == [phase |-> "posted", user |-> u, by |-> 0, enrolling |-> FALSE]
    <2>2. fetching' = [fetching EXCEPT ![l] = f]
      <3>1. Bridge!Idle \in Fetches /\ Bridge!Idle.by = 0 /\ Bridge!Idle.enrolling = FALSE
        BY ServicesAssumption DEF Bridge!Idle, Fetches
      <3>2. [Bridge!Idle EXCEPT !.phase = "posted", !.user = u]
            = [phase |-> "posted", user |-> u, by |-> Bridge!Idle.by, enrolling |-> Bridge!Idle.enrolling]
        BY <3>1, PostedMoves
      <3>3. [phase |-> "posted", user |-> u, by |-> Bridge!Idle.by, enrolling |-> Bridge!Idle.enrolling] = f
        BY <3>1
      <3> QED
        BY <2>1, <3>2, <3>3
    <2>3. f \in Fetches /\ Coherent(f, session')
      BY ServicesAssumption DEF Fetches, Coherent
    <2> QED
      BY <1>2, <2>2, <2>3, ServerStays, KeptMoves DEF Bridge!Submit, Bridge!At
  <1>3. ASSUME NEW l \in Logins, Bridge!LoginRefused(l) PROVE BridgeInv'
    <2>1. Moved(l, "idle", fetching[l].by, fetching[l].enrolling) \in Fetches
      BY <1>0 DEF Moved, Fetches
    <2>2. Coherent(Moved(l, "idle", fetching[l].by, fetching[l].enrolling), session')
      BY <1>0, <1>3 DEF Bridge!LoginRefused, Bridge!server, Moved, Coherent
    <2> QED
      BY <1>3, <2>1, <2>2, GoMoves, ServerStays, KeptMoves DEF Bridge!LoginRefused, Bridge!At, Moved
  <1>4. ASSUME NEW l \in Logins, Bridge!LoginAccepted(l) PROVE BridgeInv'
    <2>1. PICK s \in 1..LastSessionOpened :
            /\ session[s] = Bridge!Unborn /\ jar' = s
            /\ session' = [session EXCEPT ![s] = [user |-> fetching[l].user, alive |-> TRUE, verified |-> FALSE]]
      BY <1>4 DEF Bridge!LoginAccepted
    <2> DEFINE f == Moved(l, "accepted", fetching[l].by, fetching[l].enrolling)
    <2>2. fetching' = [fetching EXCEPT ![l] = f]
      BY <1>4, GoMoves DEF Bridge!LoginAccepted
    <2>3. fetching[l].user \in Bridge!People /\ f \in Fetches
      BY <1>0, <1>4, ServicesAssumption DEF Bridge!LoginAccepted, Bridge!At, Coherent, Moved, Fetches
    <2>4. session'[s].user = fetching[l].user /\ \A t \in 1..LastSessionOpened : t # s => session'[t] = session[t]
      BY <1>0, <2>1 DEF BridgeTyped, Sessions
    <2>5. session[s].user \notin Bridge!People
      BY <2>1 DEF Bridge!Unborn, Bridge!People
    <2>6. session' \in Sessions
      BY <1>0, <2>1 DEF BridgeTyped, Sessions, Fetches
    <2>7. ServerMoves
      <3>1. UNCHANGED <<required, enrolled, pending>> /\ jar' \in 0..LastSessionOpened
        BY <1>4, <2>1, ServicesAssumption DEF Bridge!LoginAccepted
      <3>2. session'[jar'].user \in Bridge!People
        BY <2>1, <2>3, <2>4
      <3>3. ASSUME NEW t \in 1..LastSessionOpened
            PROVE  /\ session[t].user \in Bridge!People =>
                        session'[t].user = session[t].user /\ (session[t].verified => session'[t].verified)
                   /\ session'[t].alive => session'[t].user \in Bridge!People
        BY <1>0, <2>3, <2>4, <2>5 DEF SessionsOpened
      <3> QED
        BY <1>0, <2>6, <3>1, <3>2, <3>3 DEF BridgeTyped, ServerMoves
    <2>8. Coherent(f, session')
      <3>1. fetching[l].by # 0 => fetching[l].by \in 1..LastSessionOpened
        BY <1>0, ServicesAssumption DEF Fetches
      <3> QED
        BY <1>0, <2>7, <3>1 DEF Moved, Coherent, ServerMoves
    <2> QED
      BY <1>4, <2>2, <2>3, <2>7, <2>8, KeptMoves DEF Bridge!LoginAccepted, Bridge!At, Moved
  <1>a. ASSUME NEW l \in Logins, Bridge!StatusAsked(l) PROVE BridgeInv'
    <2> DEFINE f == Moved(l, "status", jar, fetching[l].enrolling)
    <2>1. ServerMoves /\ UNCHANGED <<required, session>>
      BY <1>a, ServerStays DEF Bridge!StatusAsked, Bridge!server
    <2>2. f \in Fetches /\ Coherent(f, session')
      BY <1>0, <2>1 DEF BridgeTyped, SessionsOpened, Moved, Fetches, Coherent
    <2> QED
      BY <1>a, <2>1, <2>2, AskMoves, KeptMoves DEF Bridge!StatusAsked, Bridge!At, Moved
  <1>5. ASSUME NEW l \in Logins, Bridge!StatusAnswered(l) PROVE BridgeInv'
    <2>1. ServerMoves /\ UNCHANGED <<required, session>> /\ Bridge!At(l, "status")
      BY <1>5, ServerStays DEF Bridge!StatusAnswered, Bridge!server
    <2>2. /\ fetching[l].by \in 1..LastSessionOpened /\ Bridge!Holder(l) \in Bridge!People
          /\ Bridge!Holder(l) = session[fetching[l].by].user
      BY <1>5, AcceptedIsOpened DEF Bridge!StatusAnswered
    <2> DEFINE f(phase) == Moved(l, phase, fetching[l].by, fetching[l].enrolling)
    <2>3. \A phase \in {"ready", "code"} : f(phase) \in Fetches
      BY <1>0 DEF Moved, Fetches
    <2>4. CASE ~Bridge!Outstanding(l)
      <3>1. Coherent(f("ready"), session')
        <4>1. session[fetching[l].by].verified \/ session[fetching[l].by].user \notin required
          BY <2>2, <2>4 DEF Bridge!Outstanding
        <4>2. Coherent(f("ready"), session)
          <5> DEFINE g == f("ready")
          <5>1. g.by = fetching[l].by /\ g.phase = "ready"
            BY DEF Moved
          <5>2. fetching[l].by # 0
            BY <2>2
          <5> HIDE DEF g
          <5>3. Coherent(g, session)
            BY <2>2, <4>1, <5>1, <5>2 DEF Coherent
          <5> QED
            BY <5>3 DEF g
        <4> QED
          BY <2>1, <4>2
      <3>2. fetching' = [fetching EXCEPT ![l] = f("ready")] /\ UNCHANGED dialogs
        BY <1>5, <2>4, GoMoves DEF Bridge!StatusAnswered
      <3> QED
        BY <2>1, <2>3, <3>1, <3>2, KeptMoves DEF Bridge!At, Moved
    <2>5. CASE Bridge!Outstanding(l) /\ Bridge!Holder(l) \in enrolled
      <3>1. Coherent(f("code"), session')
        BY <1>0, <2>1 DEF Moved, Coherent
      <3>2. fetching' = [fetching EXCEPT ![l] = f("code")] /\ Bridge!Open(l)
        BY <1>5, <2>5, GoMoves DEF Bridge!StatusAnswered
      <3> QED
        BY <2>1, <2>3, <3>1, <3>2, OpenMoves DEF Bridge!At, Moved
    <2>6. CASE Bridge!Outstanding(l) /\ Bridge!Holder(l) \notin enrolled
      <3> DEFINE g == Moved(l, "enroll", jar, fetching[l].enrolling)
      <3>1. g \in Fetches
        BY <1>0 DEF BridgeTyped, Moved, Fetches
      <3>2. Coherent(g, session')
        BY <1>0, <2>1, <2>2, <2>6 DEF SessionsOpened, Bridge!Outstanding, Moved, Coherent
      <3>3. fetching' = [fetching EXCEPT ![l] = g] /\ UNCHANGED dialogs
        BY <1>5, <2>6, AskMoves DEF Bridge!StatusAnswered
      <3> QED
        BY <2>1, <3>1, <3>2, <3>3, KeptMoves DEF Bridge!At, Moved
    <2> QED
      BY <2>4, <2>5, <2>6
  <1>6. ASSUME NEW l \in Logins, Bridge!EnrollStarted(l) PROVE BridgeInv'
    <2> DEFINE f == Moved(l, "secret", fetching[l].by, TRUE)
    <2>1. Bridge!Holder(l) \in Bridge!People /\ Bridge!At(l, "enroll")
      BY <1>6, AcceptedIsOpened DEF Bridge!EnrollStarted
    <2>2. ServerMoves /\ UNCHANGED session
      BY <1>0, <1>6, <2>1 DEF Bridge!EnrollStarted, BridgeTyped, SessionsOpened, ServerMoves
    <2>3. f \in Fetches /\ Coherent(f, session')
      BY <1>0, <2>2 DEF Moved, Fetches, Coherent
    <2>4. fetching' = [fetching EXCEPT ![l] = f] /\ Bridge!Open(l)
      BY <1>6, EnrollMoves DEF Bridge!EnrollStarted
    <2> QED
      BY <2>1, <2>2, <2>3, <2>4, OpenMoves DEF Bridge!At, Moved
  <1>7. ASSUME NEW l \in Logins, Bridge!Proceed(l) PROVE BridgeInv'
    <2> DEFINE f == Moved(l, "code", fetching[l].by, fetching[l].enrolling)
    <2>1. ServerMoves /\ UNCHANGED session
      BY <1>7, ServerStays DEF Bridge!Proceed, Bridge!server
    <2>2. f \in Fetches /\ Coherent(f, session')
      BY <1>0, <2>1 DEF Moved, Fetches, Coherent
    <2> QED
      BY <1>7, <2>1, <2>2, GoMoves, KeptMoves DEF Bridge!Proceed, Bridge!At, Moved
  <1>8. ASSUME NEW l \in Logins, Bridge!EnterCode(l) \/ Bridge!Cancel(l) PROVE BridgeInv'
    <2> DEFINE f(phase) == Moved(l, phase, jar, fetching[l].enrolling)
    <2>1. ServerMoves /\ UNCHANGED <<required, session>>
      BY <1>8, ServerStays DEF Bridge!EnterCode, Bridge!Cancel, Bridge!server
    <2>2. PICK phase \in {"checking", "cancel"} : Bridge!Ask(l, phase) /\ Bridge!OnTop(l) /\ Bridge!CloseTop
      BY <1>8 DEF Bridge!EnterCode, Bridge!Cancel
    <2>3. f(phase) \in Fetches /\ Coherent(f(phase), session')
      BY <1>0, <2>1 DEF BridgeTyped, SessionsOpened, Moved, Fetches, Coherent
    <2> QED
      BY <2>1, <2>2, <2>3, AskMoves, CloseMoves DEF Moved
  <1>9. ASSUME NEW l \in Logins, Bridge!CodeAccepted(l) PROVE BridgeInv'
    <2> DEFINE f(phase) == Moved(l, phase, fetching[l].by, fetching[l].enrolling)
    <2>1. ServerMoves /\ fetching[l].by # 0 /\ session'[fetching[l].by].verified /\ Bridge!At(l, "checking")
      BY <1>9, CodeVerifies DEF Bridge!CodeAccepted, Bridge!CodeTaken
    <2>2. fetching[l].by \in 1..LastSessionOpened /\ session[fetching[l].by].user \in Bridge!People
      BY <1>9, AcceptedIsOpened DEF Bridge!CodeAccepted, Bridge!CodeTaken
    <2>3. \A phase \in {"codes", "ready"} : f(phase) \in Fetches /\ Coherent(f(phase), session')
      BY <1>0, <2>1, <2>2 DEF ServerMoves, Moved, Fetches, Coherent
    <2>4. CASE fetching[l].enrolling
      BY <1>9, <2>1, <2>3, <2>4, GoMoves, OpenMoves DEF Bridge!CodeAccepted, Bridge!At, Moved
    <2>5. CASE ~fetching[l].enrolling
      BY <1>9, <2>1, <2>3, <2>5, GoMoves, KeptMoves DEF Bridge!CodeAccepted, Bridge!At, Moved
    <2> QED
      BY <2>4, <2>5
  <1>10. ASSUME NEW l \in Logins, Bridge!CodeRefused(l) PROVE BridgeInv'
    <2> DEFINE f == Moved(l, "code", fetching[l].by, fetching[l].enrolling)
    <2>1. ServerMoves
      BY <1>10, ServerStays, ServerEnds, AcceptedIsOpened DEF Bridge!CodeRefused, Bridge!server
    <2>2. fetching[l].by # 0 => fetching[l].by \in 1..LastSessionOpened
      BY <1>0, ServicesAssumption DEF Fetches
    <2>3. f \in Fetches /\ Coherent(f, session')
      BY <1>0, <2>1, <2>2 DEF ServerMoves, Moved, Fetches, Coherent
    <2> QED
      BY <1>10, <2>1, <2>3, GoMoves, OpenMoves DEF Bridge!CodeRefused, Bridge!At, Moved
  <1>11. ASSUME NEW l \in Logins, Bridge!Acknowledge(l) PROVE BridgeInv'
    <2> DEFINE f == Moved(l, "ready", fetching[l].by, fetching[l].enrolling)
    <2>1. ServerMoves /\ UNCHANGED session
      BY <1>11, ServerStays DEF Bridge!Acknowledge, Bridge!server
    <2>2. f \in Fetches /\ Coherent(f, session')
      BY <1>0, <1>11, <2>1 DEF Bridge!Acknowledge, Bridge!At, Moved, Fetches, Coherent
    <2> QED
      BY <1>11, <2>1, <2>2, GoMoves, CloseMoves DEF Bridge!Acknowledge, Moved
  <1>12. ASSUME NEW l \in Logins, Bridge!Fails(l) PROVE BridgeInv'
    <2> DEFINE f == Moved(l, "cancel", jar, fetching[l].enrolling)
    <2>1. ServerMoves /\ UNCHANGED jar
      BY <1>12, ServerStays, CodeVerifies DEF Bridge!Fails, Bridge!server, Bridge!CodeTaken
    <2>2. f \in Fetches /\ Coherent(f, session')
      BY <1>0, <2>1 DEF BridgeTyped, ServerMoves, Moved, Fetches, Coherent
    <2> QED
      BY <1>12, <2>1, <2>2, AskMoves, KeptMoves DEF Bridge!Fails, Moved
  <1>13. ASSUME NEW l \in Logins, Bridge!Cancelled(l) \/ Bridge!Deliver(l) PROVE BridgeInv'
    <2>1. ServerMoves
      BY <1>13, ServerStays, ServerEnds, AcceptedIsOpened
         DEF Bridge!Cancelled, Bridge!Deliver, Bridge!server
    <2>2. /\ fetching' = [fetching EXCEPT ![l] = Bridge!Idle] /\ UNCHANGED dialogs
          /\ fetching[l].phase \in {"cancel", "ready"}
      BY <1>13 DEF Bridge!Cancelled, Bridge!Deliver, Bridge!At
    <2>3. Bridge!Idle \in Fetches /\ Coherent(Bridge!Idle, session') /\ Bridge!Idle.phase = "idle"
      BY ServicesAssumption DEF Bridge!Idle, Fetches, Coherent
    <2> QED
      BY <2>1, <2>2, <2>3, KeptMoves
  <1> QED
    BY <1>1, <1>2, <1>3, <1>4, <1>a, <1>5, <1>6, <1>7, <1>8, <1>9, <1>10, <1>11, <1>12, <1>13 DEF Bridge!Step

-----------------------------------------------------------------------------
(* RecoveryExecutor, with effects that may land after their call has failed:    *)
(* where a call may be dispatched again, nothing has been applied and nothing   *)
(* is under way, unless its caller opted in to a repetition.                  *)

LateTyped == operation \in Late!Calls /\ effects \in Nat /\ inFlight \in Nat

SpentOnce ==
  ~Late!OptedIntoRepeat =>
    /\ effects + inFlight <= 1
    /\ pc \in {"head", "running", "callback"} => effects = 0 /\ inFlight = 0

LateInv == LateTyped /\ SpentOnce

LEMMA LateInit == Late!Init => LateInv
  BY DEF Late!Init, LateInv, LateTyped, SpentOnce

LEMMA LateOnce == LateInv => AtMostOnceUnlessOptedIn
  BY DEF LateInv, SpentOnce, AtMostOnceUnlessOptedIn, Late!AtMostOnceUnlessOptedIn

(* What decide makes of a failure: a blind retry takes an operation declared    *)
(* idempotent, and a callback other than replan a failure before the tool ran.  *)
LEMMA LateDecides ==
  ASSUME LateTyped, NEW s \in Late!FailureSignal
  PROVE  /\ Late!decide(Late!EffectiveSignal(s)) = "retry" => operation.idempotent
         /\ Late!decide(Late!EffectiveSignal(s)) \in Late!callbackActions \ {"replan"} =>
              s.failure_class \in {"malformed_arguments", "stale_context"} /\ ~s.side_effect_uncertain
  <1> DEFINE e == Late!EffectiveSignal(s)
  <1>1. /\ e \in Late!FailureSignal /\ (e.idempotent => operation.idempotent)
        /\ e.failure_class = s.failure_class /\ (e.side_effect_uncertain <=> s.side_effect_uncertain)
    BY DEF LateTyped, Late!EffectiveSignal, Late!FailureSignal, Late!Calls
  <1> HIDE DEF e
  <1>2. Late!decide(e) = "retry" => e.idempotent
    BY <1>1 DEF Late!decide, Late!ActionWhenTouched, Late!ActionWhenClean, Late!StopAction, Late!FailureSignal
  <1>3. Late!decide(e) \in Late!callbackActions \ {"replan"} =>
          e.failure_class \in {"malformed_arguments", "stale_context"} /\ ~e.side_effect_uncertain
    BY <1>1 DEF Late!decide, Late!ActionWhenTouched, Late!ActionWhenClean, Late!StopAction,
                Late!callbackActions, Late!TouchedState, Late!FailureSignal
  <1> QED
    BY <1>1, <1>2, <1>3 DEF e

LEMMA LateFailure ==
  ASSUME LateInv, NEW s \in Late!FailureSignal, NEW fate \in Late!Fates, Late!OperationFails(s, fate)
  PROVE  LateInv'
  <1>1. /\ pc = "running" /\ operation' = operation /\ Late!Suffer(fate) /\ Late!Honest(s, fate)
        /\ lastAction' = Late!decide(Late!EffectiveSignal(s)) /\ Late!CarryOut
    BY DEF Late!OperationFails
  <1>2. LateTyped'
    BY <1>1 DEF LateInv, LateTyped, Late!Suffer, Late!NewEffects
  <1>3. ASSUME ~Late!OptedIntoRepeat PROVE effects' + inFlight' <= 1
    BY <1>1, <1>3 DEF LateInv, SpentOnce, Late!Suffer, Late!NewEffects
  <1>4. ASSUME ~Late!OptedIntoRepeat PROVE pc' \notin {"head", "running"}
    <2>1. lastAction' # "retry"
      BY <1>1, <1>4, LateDecides DEF LateInv, Late!OptedIntoRepeat
    <2> QED
      BY <1>1, <2>1 DEF Late!CarryOut, Late!Continue, Late!Stopped, Late!End
  <1>5. ASSUME ~Late!OptedIntoRepeat, pc' = "callback" PROVE effects' = 0 /\ inFlight' = 0
    <2>1. lastAction' \in Late!callbackActions \ {"replan"}
      BY <1>1, <1>5 DEF Late!CarryOut, Late!Continue, Late!Stopped, Late!End,
                        Late!OptedIntoRepeat
    <2>2. fate = "none"
      BY <1>1, <2>1, LateDecides DEF LateInv, Late!Honest
    <2> QED
      BY <1>1, <1>5, <2>2 DEF LateInv, SpentOnce, Late!Suffer
  <1> QED
    BY <1>1, <1>2, <1>3, <1>4, <1>5 DEF LateInv, SpentOnce, Late!OptedIntoRepeat

LEMMA LateStepInv ==
  ASSUME LateInv, Late!Next
  PROVE  LateInv'
  <1> USE DEF LateInv, LateTyped, SpentOnce, Late!OptedIntoRepeat
  <1>1. CASE Late!StopOnBudget \/ Late!VerifyRaises \/ Late!CallbackRaises
    BY <1>1 DEF Late!StopOnBudget, Late!VerifyRaises, Late!CallbackRaises, Late!Stopped, Late!End
  <1>2. CASE Late!Dispatch
    BY <1>2 DEF Late!Dispatch
  <1>3. CASE Late!OperationReturns
    BY <1>3 DEF Late!OperationReturns, Late!End, Late!NewEffects
  <1>4. ASSUME NEW s \in Late!FailureSignal, NEW fate \in Late!Fates, Late!OperationFails(s, fate)
        PROVE  LateInv'
    BY <1>4, LateFailure
  <1>5. ASSUME NEW fate \in Late!Fates, Late!OperationRaises(fate) PROVE LateInv'
    BY <1>5 DEF Late!OperationRaises, Late!Suffer, Late!NewEffects
  <1>6. CASE Late!VerifyReturns
    BY <1>6 DEF Late!VerifyReturns, Late!Stopped, Late!End, Late!Continue, Late!MayRepeat
  <1>7. CASE Late!CallbackReturns
    BY <1>7 DEF Late!CallbackReturns, Late!AfterCallback
  <1>8. CASE Late!Tick
    BY <1>8 DEF Late!Tick
  <1>9. CASE Late!EffectLands
    BY <1>9 DEF Late!EffectLands
  <1> QED
    BY <1>1, <1>2, <1>3, <1>4, <1>5, <1>6, <1>7, <1>8, <1>9 DEF Late!Next, Late!Step

-----------------------------------------------------------------------------
(* GeoTenancy: rows are only added, and memberships past and present are never   *)
(* fewer, so that what a request has found to hold stays so until its commit.   *)

Everyone == members \union former

(* The first part of TenantsApart, for a row that may still be staged *)
Fits(r) ==
  /\ r.kind \in {"project", "set"} => Geo!May(r.by, "write", r.org)
  /\ r.kind = "project" => Geo!Has("organization", r.org, r.org)
  /\ r.kind \in {"set", "query", "run"} => Geo!Has("project", r.project, r.org)
  /\ r.kind = "query" => \E s \in rows : s.kind = "set" /\ s.id = r.parent /\ s.project = r.project
  /\ r.kind = "run" => \E q \in rows : q.kind = "query" /\ q.id = r.parent /\ q.project = r.project

Creates(r) == IF r.kind \in {"part", "audit"} THEN r.parent ELSE r.id

Needed(c) == IF wish[c].list THEN "read" ELSE "write"

PartsOf(c) == {r \in rows : r.kind = "part" /\ r.parent = c}

(* How far the request of a client is *)
RequestInv(c) ==
  /\ progress[c] = "new" => shown[c] = {}
  /\ progress[c] # "new" => wish[c].kind \in Geo!Kinds /\ wish[c].parts \in Nat
  /\ progress[c] = "access" => wish[c].kind \in {"project", "set", "query"}
  /\ progress[c] = "lookup" =>
       /\ wish[c].kind # "organization" /\ (wish[c].kind = "run" => ~wish[c].list)
       /\ wish[c].kind # "run" => Geo!May(wish[c].user, Needed(c), wish[c].org)
  /\ progress[c] = "list" => Geo!May(wish[c].user, "read", wish[c].org)
  /\ progress[c] \in {"flush", "complete", "commit"} => Fits(Geo!New(c))
  /\ staged[c] = IF progress[c] = "complete" THEN {Geo!New(c)}
                 ELSE IF progress[c] = "commit" THEN {Geo!New(c)} \union Geo!Belongings(c) ELSE {}
  /\ \A r \in shown[c] : Geo!May(wish[c].user, "read", r.org)
  /\ progress[c] = "created" =>
       /\ wish[c].kind = "organization" => Geo!Member(c, wish[c].user, "owner") \in Everyone
       /\ wish[c].kind = "run" => PartsOf(c) = Geo!Belongings(c)
  /\ progress[c] # "created" => \A r \in rows : Creates(r) # c

Live == rows \union UNION {staged[c] : c \in Clients}

GeoInv ==
  /\ progress \in [Clients -> {"new", "access", "lookup", "list", "flush", "complete", "commit",
                               "created", "listed", "refused"}]
  /\ DOMAIN staged = Clients /\ DOMAIN wish = Clients /\ DOMAIN shown = Clients
  /\ \A m \in Everyone : Geo!Has("organization", m.org, m.org)
  /\ \A r \in rows : Fits(r)
  /\ \A r, s \in Live : Geo!Clash(r, s) => r = s
  /\ \A c \in Clients : RequestInv(c)

LEMMA GeoInit == Geo!Init => GeoInv
  <1> SUFFICES ASSUME Geo!Init PROVE GeoInv
    OBVIOUS
  <1> DEFINE tree(n, by) ==
        {[kind |-> "organization", id |-> n, org |-> n, project |-> 0, parent |-> 0, key |-> n, by |-> by],
         [kind |-> "project", id |-> n, org |-> n, project |-> n, parent |-> n, key |-> n, by |-> by],
         [kind |-> "set", id |-> n, org |-> n, project |-> n, parent |-> n, key |-> n, by |-> by],
         [kind |-> "query", id |-> n, org |-> n, project |-> n, parent |-> n, key |-> 0, by |-> by]}
  <1>1. rows = tree(1, "amal") \union tree(2, "bob")
    BY DEF Geo!Init, Geo!Tree, Geo!Row
  <1>2. /\ progress = [c \in Clients |-> "new"] /\ wish = [c \in Clients |-> Geo!NoWish]
        /\ staged = [c \in Clients |-> {}] /\ shown = [c \in Clients |-> {}]
    BY DEF Geo!Init
  <1>3. Everyone = {[org |-> 1, user |-> "amal", role |-> "owner"], [org |-> 1, user |-> "bob", role |-> "viewer"],
                    [org |-> 2, user |-> "bob", role |-> "owner"]}
    BY DEF Geo!Init, Everyone, Geo!Member
  <1>4. Geo!Has("organization", 1, 1) /\ Geo!Has("organization", 2, 2)
        /\ Geo!Has("project", 1, 1) /\ Geo!Has("project", 2, 2)
    BY <1>1 DEF Geo!Has
  <1>5. Geo!May("amal", "write", 1) /\ Geo!May("bob", "write", 2)
    <2>1. "write" \in Geo!Permissions["owner"]
      BY DEF Geo!Permissions
    <2> DEFINE amal == [org |-> 1, user |-> "amal", role |-> "owner"]
               bob == [org |-> 2, user |-> "bob", role |-> "owner"]
    <2>2. amal \in members \union former /\ bob \in members \union former
      BY <1>3 DEF Everyone
    <2>3. /\ amal.org = 1 /\ amal.user = "amal" /\ amal.role = "owner"
          /\ bob.org = 2 /\ bob.user = "bob" /\ bob.role = "owner"
      OBVIOUS
    <2> HIDE DEF amal, bob
    <2> QED
      BY <2>1, <2>2, <2>3 DEF Geo!May
  <1>6. ASSUME NEW r \in rows PROVE Fits(r)
    <2>1. PICK n \in {1, 2} : r \in tree(n, IF n = 1 THEN "amal" ELSE "bob")
      BY <1>1
    <2>2. /\ r.kind \in {"organization", "project", "set", "query"} /\ r.org = n
          /\ r.kind # "organization" => r.project = n /\ r.parent = n
          /\ r.by = IF n = 1 THEN "amal" ELSE "bob"
      BY <2>1
    <2>3. \E s \in rows : s.kind = "set" /\ s.id = n /\ s.project = n
      BY <1>1
    <2> QED
      BY <1>4, <1>5, <2>2, <2>3 DEF Fits
  <1>7. UNION {staged[c] : c \in Clients} = {}
    BY <1>2
  <1>8. ASSUME NEW r \in Live, NEW s \in Live, Geo!Clash(r, s) PROVE r = s
    <2>1. r \in rows /\ s \in rows
      BY <1>7 DEF Live
    <2>2. PICK n \in {1, 2} : r \in tree(n, IF n = 1 THEN "amal" ELSE "bob")
      BY <1>1, <2>1
    <2>3. PICK m \in {1, 2} : s \in tree(m, IF m = 1 THEN "amal" ELSE "bob")
      BY <1>1, <2>1
    <2>4. r.kind = s.kind /\ r.kind \in {"organization", "project", "set"} /\ r.key = n /\ s.key = m /\ n = m
      BY <1>8, <2>2, <2>3 DEF Geo!Clash
    <2> QED
      BY <2>2, <2>3, <2>4
  <1>9. ASSUME NEW c \in Clients PROVE RequestInv(c)
    <2>1. \A r \in rows : Creates(r) \in {1, 2}
      BY <1>1 DEF Creates
    <2>2. c \notin {1, 2}
      BY ServicesAssumption
    <2> QED
      BY <1>2, <2>1, <2>2 DEF RequestInv
  <1> QED
    BY <1>2, <1>3, <1>4, <1>6, <1>8, <1>9 DEF GeoInv

(* A row that a client creates carries what the client asked for. *)
LEMMA NewRow ==
  ASSUME NEW c, wish[c].kind \in Geo!Kinds
  PROVE  LET new == Geo!New(c) w == wish[c] IN
         /\ new.kind = w.kind /\ new.id = c /\ new.by = w.user /\ Creates(new) = c
         /\ w.kind # "organization" => new.org = w.org
         /\ w.kind = "organization" => new.org = c
         /\ w.kind \in {"set", "query", "run"} => new.project = w.project
         /\ w.kind \in {"query", "run"} => new.parent = w.parent
  BY DEF Geo!New, Geo!Row, Geo!Kinds, Creates

LEMMA NewBelongings ==
  ASSUME NEW c, NEW r \in Geo!Belongings(c)
  PROVE  r.kind \in {"part", "audit"} /\ r.parent = c /\ (r.kind = "part" => wish[c].kind = "run")
  BY DEF Geo!Belongings, Geo!Row

(* What is added to keeps what was found. *)
LEMMA Lasting ==
  ASSUME rows \subseteq rows', Everyone \subseteq Everyone'
  PROVE  /\ \A user, needed, org : Geo!May(user, needed, org) => Geo!May(user, needed, org)'
         /\ \A kind, id, org : Geo!Has(kind, id, org) => Geo!Has(kind, id, org)'
         /\ \A r : Fits(r) => Fits(r)'
  <1>1. ASSUME NEW user, NEW needed, NEW org, Geo!May(user, needed, org) PROVE Geo!May(user, needed, org)'
    BY <1>1 DEF Geo!May, Everyone, Geo!Permissions
  <1>2. ASSUME NEW kind, NEW id, NEW org, Geo!Has(kind, id, org) PROVE Geo!Has(kind, id, org)'
    BY <1>2 DEF Geo!Has
  <1>3. ASSUME NEW r, Fits(r) PROVE Fits(r)'
    BY <1>1, <1>2, <1>3 DEF Fits
  <1> QED
    BY <1>1, <1>2, <1>3

(* The request of a client that takes no part in a step *)
LEMMA RequestKept ==
  ASSUME NEW c, RequestInv(c), rows \subseteq rows', Everyone \subseteq Everyone',
         progress'[c] = progress[c], wish'[c] = wish[c], staged'[c] = staged[c], shown'[c] = shown[c],
         \A r \in rows' \ rows : Creates(r) # c
  PROVE  RequestInv(c)'
  <1>1. /\ Geo!New(c)' = Geo!New(c) /\ Geo!Belongings(c)' = Geo!Belongings(c) /\ Needed(c)' = Needed(c)
    BY DEF Geo!New, Geo!Belongings, Needed
  <1>2. PartsOf(c)' = PartsOf(c)
    BY DEF PartsOf, Creates
  <1>3. progress[c] # "created" => \A r \in rows' : Creates(r) # c
    BY DEF RequestInv
  <1>4. progress[c] = "lookup" /\ wish[c].kind # "run" => Geo!May(wish[c].user, Needed(c), wish[c].org)'
    BY <1>1, Lasting DEF RequestInv
  <1>5. progress[c] = "list" => Geo!May(wish[c].user, "read", wish[c].org)'
    BY Lasting DEF RequestInv
  <1>6. progress[c] \in {"flush", "complete", "commit"} => Fits(Geo!New(c))'
    BY <1>1, Lasting DEF RequestInv
  <1>7. \A r \in shown[c] : Geo!May(wish[c].user, "read", r.org)'
    BY Lasting DEF RequestInv
  <1> QED
    BY <1>1, <1>2, <1>3, <1>4, <1>5, <1>6, <1>7 DEF RequestInv, Everyone, Creates

GeoPhases ==
  {"new", "access", "lookup", "list", "flush", "complete", "commit", "created", "listed", "refused"}

(* A step of one client's request *)
OthersKept(c) ==
  \A d \in Clients \ {c} :
    progress'[d] = progress[d] /\ wish'[d] = wish[d] /\ staged'[d] = staged[d] /\ shown'[d] = shown[d]

GeoShaped ==
  /\ progress \in [Clients -> GeoPhases]
  /\ DOMAIN staged = Clients /\ DOMAIN wish = Clients /\ DOMAIN shown = Clients

LEMMA GeoStepOf ==
  ASSUME GeoInv, NEW c \in Clients, OthersKept(c), GeoShaped', RequestInv(c)',
         rows \subseteq rows', Everyone \subseteq Everyone',
         \A r \in rows' \ rows : Creates(r) = c /\ Fits(r)',
         \A m \in Everyone' \ Everyone : Geo!Has("organization", m.org, m.org)',
         \A r, s \in Live' : Geo!Clash(r, s) => r = s
  PROVE  GeoInv'
  <1>1. \A r \in rows' : Fits(r)'
    BY Lasting DEF GeoInv
  <1>2. \A m \in Everyone' : Geo!Has("organization", m.org, m.org)'
    BY Lasting DEF GeoInv
  <1>3. ASSUME NEW d \in Clients PROVE RequestInv(d)'
    <2>1. CASE d # c
      <3>1. RequestInv(d)
        BY DEF GeoInv
      <3>2. \A r \in rows' \ rows : Creates(r) # d
        BY <2>1
      <3> QED
        BY <2>1, <3>1, <3>2, RequestKept DEF OthersKept
    <2> QED
      BY <2>1
  <1>4. (\A r, s \in Live : Geo!Clash(r, s) => r = s)'
    BY DEF Geo!Clash
  <1> QED
    BY <1>1, <1>2, <1>3, <1>4 DEF GeoInv, GeoShaped, GeoPhases

(* One that adds no row and stages nothing new *)
LEMMA QuietStep ==
  ASSUME GeoInv, NEW c \in Clients, OthersKept(c), GeoShaped', RequestInv(c)',
         UNCHANGED <<rows, members, former>>, staged'[c] \in {staged[c], {}}
  PROVE  GeoInv'
  <1>1. \A d \in Clients : staged'[d] \subseteq staged[d]
    BY DEF OthersKept
  <1>2. Live' \subseteq Live
    BY <1>1 DEF Live
  <1>3. \A r, s \in Live' : Geo!Clash(r, s) => r = s
    BY <1>2 DEF GeoInv
  <1> QED
    BY <1>3, GeoStepOf DEF Everyone

LEMMA RefuseKeeps ==
  ASSUME GeoInv, NEW c \in Clients, progress[c] \notin {"new", "created"}, Geo!Refuse(c),
         UNCHANGED <<rows, members, former, wish, shown>>
  PROVE  GeoInv'
  <1>1. OthersKept(c) /\ GeoShaped' /\ progress'[c] = "refused" /\ staged'[c] = {}
    BY DEF GeoInv, GeoShaped, GeoPhases, OthersKept, Geo!Refuse
  <1>2. RequestInv(c)
    BY DEF GeoInv
  <1>3. RequestInv(c)'
    <2>1. \A r \in shown'[c] : Geo!May(wish[c].user, "read", r.org)'
      BY <1>2, Lasting DEF RequestInv, Everyone
    <2>2. \A r \in rows' : Creates(r) # c
      BY <1>2 DEF RequestInv
    <2> QED
      BY <1>1, <1>2, <2>1, <2>2 DEF RequestInv, Creates
  <1> QED
    BY <1>1, <1>3, QuietStep

LEMMA BeginKeeps ==
  ASSUME GeoInv, NEW c \in Clients, Geo!Begin(c)
  PROVE  GeoInv'
  <1>1. RequestInv(c) /\ progress[c] = "new"
    BY DEF GeoInv, Geo!Begin
  <1>2. UNCHANGED <<rows, members, former, staged, shown>>
    BY DEF Geo!Begin
  <1>3. PICK kind \in Geo!Kinds :
          /\ progress' = [progress EXCEPT ![c] =
               CASE kind = "organization" -> "flush" [] kind = "run" -> "lookup" [] OTHER -> "access"]
          /\ \E w : /\ wish' = [wish EXCEPT ![c] = w]
                   /\ w.kind = kind /\ w.parts \in Nat /\ (kind = "run" => ~w.list)
    <2>1. PICK user \in {"amal", "bob"}, list \in BOOLEAN, kind \in Geo!Kinds,
               org \in Geo!Ids("organization"), project \in Geo!Ids("project") :
          \E parent \in CASE kind = "query" -> Geo!Ids("set") [] kind = "run" -> Geo!Ids("query")
                         [] OTHER -> {project},
             key \in {1, 9}, parts \in IF kind = "run" THEN 0..MaxParts ELSE {0} :
            /\ list => kind \in {"project", "set", "query"} /\ key = 1
            /\ kind \in {"query", "run"} => key = 1
            /\ kind = "organization" => org = 1 /\ project = 1
            /\ kind = "project" => project = 1
            /\ wish' = [wish EXCEPT ![c] =
                 [user |-> user, list |-> list, kind |-> kind, org |-> org, project |-> project,
                  parent |-> parent, key |-> key, parts |-> parts]]
            /\ progress' = [progress EXCEPT ![c] =
                 CASE kind = "organization" -> "flush" [] kind = "run" -> "lookup" [] OTHER -> "access"]
      BY DEF Geo!Begin
    <2> DEFINE w(parent, key, parts) ==
                 [user |-> user, list |-> list, kind |-> kind, org |-> org, project |-> project,
                  parent |-> parent, key |-> key, parts |-> parts]
    <2>2. PICK parent \in CASE kind = "query" -> Geo!Ids("set") [] kind = "run" -> Geo!Ids("query")
                         [] OTHER -> {project},
               key \in {1, 9}, parts \in IF kind = "run" THEN 0..MaxParts ELSE {0} :
            /\ list => kind \in {"project", "set", "query"}
            /\ wish' = [wish EXCEPT ![c] = w(parent, key, parts)]
            /\ progress' = [progress EXCEPT ![c] =
                 CASE kind = "organization" -> "flush" [] kind = "run" -> "lookup" [] OTHER -> "access"]
      BY <2>1
    <2>3. parts \in Nat
      BY ServicesAssumption
    <2>4. /\ w(parent, key, parts).kind = kind /\ w(parent, key, parts).parts \in Nat
          /\ kind = "run" => ~w(parent, key, parts).list
      BY <2>2, <2>3
    <2> QED
      BY <2>2, <2>4
  <1>4. OthersKept(c) /\ GeoShaped'
    BY <1>2, <1>3 DEF GeoInv, GeoShaped, GeoPhases, OthersKept
  <1>5. wish'[c].kind = kind /\ wish'[c].parts \in Nat /\ (kind = "run" => ~wish'[c].list)
    BY <1>3 DEF GeoInv
  <1>6. RequestInv(c)'
    <2>1. staged'[c] = {} /\ shown'[c] = {} /\ \A r \in rows' : Creates(r) # c
      BY <1>1, <1>2 DEF RequestInv
    <2>2. CASE kind = "organization"
      <3>1. progress'[c] = "flush"
        BY <1>3, <2>2 DEF GeoInv
      <3>2. Geo!New(c)'.kind = "organization"
        BY <1>5, <2>2 DEF Geo!New, Geo!Row
      <3>3. Fits(Geo!New(c))'
        BY <3>2 DEF Fits
      <3> QED
        BY <1>5, <2>1, <2>2, <3>1, <3>3 DEF RequestInv, Creates
    <2>3. CASE kind = "run"
      <3>1. progress'[c] = "lookup"
        BY <1>3, <2>3 DEF GeoInv
      <3> QED
        BY <1>3, <1>5, <2>1, <2>3, <3>1 DEF RequestInv, Creates
    <2>4. CASE kind \notin {"organization", "run"}
      <3>1. progress'[c] = "access"
        BY <1>3, <2>4 DEF GeoInv
      <3> QED
        BY <1>5, <2>1, <2>4, <3>1 DEF RequestInv, Creates, Geo!Kinds
    <2> QED
      BY <2>2, <2>3, <2>4
  <1> QED
    BY <1>2, <1>4, <1>6, QuietStep

LEMMA AccessKeeps ==
  ASSUME GeoInv, NEW c \in Clients, Geo!Access(c)
  PROVE  GeoInv'
  <1>1. RequestInv(c) /\ progress[c] = "access" /\ UNCHANGED <<rows, members, former, wish, shown>>
    BY DEF GeoInv, Geo!Access
  <1>2. CASE Geo!Refuse(c)
    BY <1>1, <1>2, RefuseKeeps
  <1>3. CASE ~Geo!Refuse(c)
    <2>1. /\ progress' = [progress EXCEPT ![c] = "lookup"] /\ UNCHANGED staged
          /\ \E m \in members : m.org = wish[c].org /\ m.user = wish[c].user /\ Needed(c) \in Geo!Permissions[m.role]
      BY <1>3 DEF Geo!Access, Needed
    <2>2. OthersKept(c) /\ GeoShaped' /\ progress'[c] = "lookup"
      BY <1>1, <2>1 DEF GeoInv, GeoShaped, GeoPhases, OthersKept
    <2>3. Geo!May(wish[c].user, Needed(c), wish[c].org)
      BY <2>1 DEF Geo!May
    <2>4. RequestInv(c)'
      BY <1>1, <2>1, <2>2, <2>3 DEF RequestInv, Creates, Needed, Geo!May, Everyone
    <2> QED
      BY <1>1, <2>1, <2>2, <2>4, QuietStep
  <1> QED
    BY <1>2, <1>3

(* What _project, _query_set and append_provider_result find makes the row of   *)
(* the request fit.                                                        *)
LEMMA ReachableFits ==
  ASSUME GeoInv, NEW c \in Clients, progress[c] = "lookup", ~wish[c].list, Geo!Reachable(wish[c])
  PROVE  Fits(Geo!New(c))
  <1>1. /\ RequestInv(c) /\ wish[c].kind \in {"project", "set", "query", "run"}
        /\ wish[c].kind # "run" => Geo!May(wish[c].user, "write", wish[c].org)
    BY DEF GeoInv, RequestInv, Needed, Geo!Kinds
  <1> DEFINE new == Geo!New(c)
  <1> SUFFICES Fits(new)
    OBVIOUS
  <1>2. /\ new.kind = wish[c].kind /\ new.by = wish[c].user /\ new.org = wish[c].org
        /\ new.kind # "project" => new.project = wish[c].project
        /\ new.kind \in {"query", "run"} => new.parent = wish[c].parent
    BY <1>1, NewRow DEF RequestInv
  <1> HIDE DEF new
  <1>3. CASE new.kind = "project"
    <2>1. Geo!May(new.by, "write", new.org)
      BY <1>1, <1>2, <1>3
    <2>2. PICK m \in Everyone : m.org = new.org
      BY <2>1 DEF Geo!May, Everyone
    <2>3. Geo!Has("organization", new.org, new.org)
      BY <2>2 DEF GeoInv
    <2> QED
      BY <1>3, <2>1, <2>3 DEF Fits
  <1>4. CASE new.kind \in {"set", "query"}
    <2>1. Geo!Has("project", new.project, new.org)
      BY <1>2, <1>4 DEF Geo!Reachable, Geo!InScope, Geo!Has
    <2>2. new.kind = "query" => \E s \in rows : s.kind = "set" /\ s.id = new.parent /\ s.project = new.project
      BY <1>2, <1>4 DEF Geo!Reachable, Geo!InScope
    <2>3. new.kind = "set" => Geo!May(new.by, "write", new.org)
      BY <1>1, <1>2, <1>4
    <2> QED
      BY <1>4, <2>1, <2>2, <2>3 DEF Fits
  <1>5. CASE new.kind = "run"
    <2>1. PICK q \in rows : q.kind = "query" /\ q.id = new.parent /\ q.org = new.org /\ q.project = new.project
      BY <1>2, <1>5 DEF Geo!Reachable, Geo!InScope
    <2>2. Geo!Has("project", new.project, new.org)
      BY <2>1 DEF GeoInv, Fits
    <2>3. \E p \in rows : p.kind = "query" /\ p.id = new.parent /\ p.project = new.project
      BY <2>1
    <2> QED
      BY <1>5, <2>2, <2>3 DEF Fits
  <1> QED
    BY <1>1, <1>2, <1>3, <1>4, <1>5

LEMMA LookupKeeps ==
  ASSUME GeoInv, NEW c \in Clients, Geo!Lookup(c)
  PROVE  GeoInv'
  <1>1. RequestInv(c) /\ progress[c] = "lookup" /\ UNCHANGED <<rows, members, former, wish, shown>>
    BY DEF GeoInv, Geo!Lookup
  <1>2. CASE Geo!Refuse(c)
    BY <1>1, <1>2, RefuseKeeps
  <1>3. CASE ~Geo!Refuse(c)
    <2>1. /\ progress' = [progress EXCEPT ![c] = IF wish[c].list THEN "list" ELSE "flush"] /\ UNCHANGED staged
          /\ Geo!Reachable(wish[c])
      BY <1>3 DEF Geo!Lookup
    <2>2. OthersKept(c) /\ GeoShaped' /\ progress'[c] = IF wish[c].list THEN "list" ELSE "flush"
      BY <1>1, <2>1 DEF GeoInv, GeoShaped, GeoPhases, OthersKept
    <2>3. /\ Geo!New(c)' = Geo!New(c)
          /\ \A r : Fits(r) => Fits(r)'
          /\ \A user, needed, org : Geo!May(user, needed, org) => Geo!May(user, needed, org)'
      BY <1>1, Lasting DEF Geo!New, Everyone
    <2>4. \A r \in shown'[c] : Geo!May(wish[c].user, "read", r.org)'
      BY <1>1, <2>3 DEF RequestInv
    <2>5. (\A r \in rows : Creates(r) # c)' /\ staged'[c] = {}
      BY <1>1, <2>1 DEF RequestInv, Creates
    <2>6. wish'[c].kind \in Geo!Kinds /\ wish'[c].parts \in Nat
      BY <1>1 DEF RequestInv
    <2>7. CASE wish[c].list
      <3>1. Geo!May(wish[c].user, "read", wish[c].org)' /\ progress'[c] = "list"
        BY <1>1, <2>2, <2>3, <2>7 DEF RequestInv, Needed
      <3> QED
        BY <1>1, <2>1, <2>2, <2>4, <2>5, <2>6, <3>1, QuietStep DEF RequestInv
    <2>8. CASE ~wish[c].list
      <3>1. Fits(Geo!New(c))' /\ progress'[c] = "flush"
        BY <1>1, <2>1, <2>2, <2>3, <2>8, ReachableFits
      <3> QED
        BY <1>1, <2>1, <2>2, <2>4, <2>5, <2>6, <3>1, QuietStep DEF RequestInv
    <2> QED
      BY <2>7, <2>8
  <1> QED
    BY <1>2, <1>3

LEMMA ListKeeps ==
  ASSUME GeoInv, NEW c \in Clients, Geo!List(c)
  PROVE  GeoInv'
  <1>1. /\ RequestInv(c) /\ progress[c] = "list" /\ UNCHANGED <<rows, members, former, wish, staged>>
        /\ progress' = [progress EXCEPT ![c] = "listed"]
    BY DEF GeoInv, Geo!List
  <1>2. OthersKept(c) /\ GeoShaped' /\ progress'[c] = "listed" /\ \A r \in shown'[c] : r.org = wish[c].org
    BY <1>1 DEF GeoInv, GeoShaped, GeoPhases, OthersKept, Geo!List
  <1>3. Geo!May(wish[c].user, "read", wish[c].org)'
    BY <1>1, Lasting DEF RequestInv, Everyone
  <1>4. \A r \in shown'[c] : Geo!May(wish[c].user, "read", r.org)'
    BY <1>1, <1>2, <1>3
  <1>5. RequestInv(c)'
    BY <1>1, <1>2, <1>4 DEF RequestInv, Creates
  <1> QED
    BY <1>1, <1>2, <1>5, QuietStep

(* What a client has staged is its row and what belongs to it. *)
LEMMA StagedRows ==
  ASSUME GeoInv, NEW c \in Clients, NEW r \in staged[c]
  PROVE  /\ progress[c] \in {"complete", "commit"} /\ r \in {Geo!New(c)} \union Geo!Belongings(c)
         /\ Creates(r) = c /\ Fits(r)
         /\ r.kind = "part" => progress[c] = "commit" /\ r \in Geo!Belongings(c)
  <1>1. RequestInv(c)
    BY DEF GeoInv
  <1>2. progress[c] \in {"complete", "commit"} /\ r \in {Geo!New(c)} \union Geo!Belongings(c)
        /\ (progress[c] = "complete" => r = Geo!New(c))
    BY <1>1 DEF RequestInv
  <1>3. CASE r = Geo!New(c)
    <2>1. /\ Creates(r) = c /\ r.kind = wish[c].kind /\ r.kind \in Geo!Kinds
      BY <1>1, <1>2, <1>3, NewRow DEF RequestInv
    <2> QED
      BY <1>1, <1>2, <1>3, <2>1 DEF RequestInv, Geo!Kinds
  <1>4. CASE r # Geo!New(c)
    <2>1. r \in Geo!Belongings(c) /\ progress[c] = "commit"
      BY <1>2, <1>4
    <2>2. r.kind \in {"part", "audit"} /\ r.parent = c
      BY <2>1, NewBelongings
    <2> QED
      BY <1>2, <2>1, <2>2 DEF Fits, Creates
  <1> QED
    BY <1>3, <1>4

LEMMA LiveRows ==
  /\ \A x : x \in Live <=> x \in rows \/ \E d \in Clients : x \in staged[d]
  /\ \A x : x \in Live' <=> x \in rows' \/ \E d \in Clients : x \in staged'[d]
  BY DEF Live

LEMMA FlushKeeps ==
  ASSUME GeoInv, NEW c \in Clients, Geo!Flush(c)
  PROVE  GeoInv'
  <1> DEFINE new == Geo!New(c)
  <1>1. RequestInv(c) /\ progress[c] = "flush" /\ UNCHANGED <<rows, members, former, wish, shown>>
    BY DEF GeoInv, Geo!Flush, Geo!Durable
  <1>2. CASE Geo!Refuse(c)
    BY <1>1, <1>2, RefuseKeeps
  <1>3. CASE ~Geo!Refuse(c)
    <2>1. /\ progress' = [progress EXCEPT ![c] = "complete"] /\ staged' = [staged EXCEPT ![c] = {new}]
          /\ \A s \in rows : ~Geo!Clash(new, s)
          /\ \A d \in Clients \ {c} : \A s \in staged[d] : ~Geo!Clash(new, s)
      BY <1>3 DEF Geo!Flush
    <2>2. OthersKept(c) /\ GeoShaped' /\ progress'[c] = "complete" /\ staged'[c] = {new}
      BY <1>1, <2>1 DEF GeoInv, GeoShaped, GeoPhases, OthersKept
    <2>3. /\ Geo!New(c)' = new
          /\ \A r : Fits(r) => Fits(r)'
          /\ \A user, needed, org : Geo!May(user, needed, org) => Geo!May(user, needed, org)'
      BY <1>1, Lasting DEF Geo!New, Everyone
    <2> HIDE DEF new
    <2>4. RequestInv(c)'
      <3>1. Fits(new)' /\ \A r \in shown[c] : Geo!May(wish[c].user, "read", r.org)'
        BY <1>1, <2>3 DEF RequestInv, new
      <3>2. \A r \in rows : Creates(r) # c
        BY <1>1 DEF RequestInv
      <3>3. /\ Geo!New(c)' = new /\ UNCHANGED <<rows, members, former, wish, shown>>
            /\ wish[c].kind \in Geo!Kinds /\ wish[c].parts \in Nat
        BY <1>1, <2>3 DEF RequestInv
      <3>4. Fits(Geo!New(c))'
        BY <3>1 DEF new
      <3>5. staged'[c] = {Geo!New(c)'}
        BY <2>2, <3>3
      <3>6. (\A r \in rows : Creates(r) # c)' /\ (\A r \in shown[c] : Geo!May(wish[c].user, "read", r.org))'
        BY <3>1, <3>2, <3>3 DEF Creates
      <3>7. progress'[c] = "complete" /\ wish'[c].kind \in Geo!Kinds /\ wish'[c].parts \in Nat
        BY <2>2, <3>3
      <3> QED
        BY <3>4, <3>5, <3>6, <3>7 DEF RequestInv
    <2>5. staged[c] = {}
      BY <1>1 DEF RequestInv
    <2>6. Live' = Live \union {new}
      BY <1>1, <2>2, <2>5, LiveRows DEF OthersKept
    <2>7. \A s \in Live : ~Geo!Clash(new, s)
      BY <2>1, <2>5 DEF Live
    <2>8. \A r, s \in Live' : Geo!Clash(r, s) => r = s
      <3>1. \A r, s \in Live : Geo!Clash(r, s) => r = s
        BY DEF GeoInv
      <3>2. \A s \in Live : ~Geo!Clash(s, new)
        BY <2>7 DEF Geo!Clash
      <3> QED
        BY <2>6, <2>7, <3>1, <3>2
    <2> QED
      BY <1>1, <2>2, <2>4, <2>8, GeoStepOf DEF Everyone
  <1> QED
    BY <1>2, <1>3

LEMMA CompleteKeeps ==
  ASSUME GeoInv, NEW c \in Clients, Geo!Complete(c)
  PROVE  GeoInv'
  <1> DEFINE new == Geo!New(c) more == Geo!Belongings(c)
  <1>1. RequestInv(c) /\ progress[c] = "complete" /\ staged[c] = {new}
        /\ UNCHANGED <<rows, members, former, wish, shown>>
    BY DEF GeoInv, RequestInv, Geo!Complete
  <1>2. progress' = [progress EXCEPT ![c] = "commit"] /\ staged' = [staged EXCEPT ![c] = staged[c] \union more]
    BY DEF Geo!Complete
  <1>3. OthersKept(c) /\ GeoShaped' /\ progress'[c] = "commit" /\ staged'[c] = {new} \union more
    BY <1>1, <1>2 DEF GeoInv, GeoShaped, GeoPhases, OthersKept
  <1>4. /\ Geo!New(c)' = new /\ Geo!Belongings(c)' = more
        /\ \A r : Fits(r) => Fits(r)'
        /\ \A user, needed, org : Geo!May(user, needed, org) => Geo!May(user, needed, org)'
    BY <1>1, Lasting DEF Geo!New, Geo!Belongings, Everyone
  <1>5. \A r \in more : r.kind \in {"part", "audit"}
    BY NewBelongings
  <1> HIDE DEF new, more
  <1>6. RequestInv(c)'
    <2>1. Fits(new)' /\ \A r \in shown[c] : Geo!May(wish[c].user, "read", r.org)'
      BY <1>1, <1>4 DEF RequestInv, new
    <2>2. \A r \in rows : Creates(r) # c
      BY <1>1 DEF RequestInv
    <2> QED
      BY <1>1, <1>3, <1>4, <2>1, <2>2 DEF RequestInv, Creates
  <1>7. Live' = Live \union more
    BY <1>1, <1>3, LiveRows DEF OthersKept
  <1>8. \A r, s \in Live' : Geo!Clash(r, s) => r = s
    <2>1. \A r, s \in Live : Geo!Clash(r, s) => r = s
      BY DEF GeoInv
    <2>2. \A s : \A r \in more : ~Geo!Clash(r, s) /\ ~Geo!Clash(s, r)
      BY <1>5 DEF Geo!Clash
    <2> QED
      BY <1>7, <2>1, <2>2
  <1> QED
    BY <1>1, <1>3, <1>6, <1>8, GeoStepOf DEF Everyone

LEMMA CommitKeeps ==
  ASSUME GeoInv, NEW c \in Clients, Geo!Commit(c)
  PROVE  GeoInv'
  <1> DEFINE new == Geo!New(c) more == Geo!Belongings(c)
  <1>1. RequestInv(c) /\ progress[c] = "commit" /\ staged[c] = {new} \union more /\ UNCHANGED <<former, wish, shown>>
        /\ rows' = rows \union staged[c] /\ members' = members \union Geo!Owner(c)
        /\ wish[c].kind \in Geo!Kinds
    BY DEF GeoInv, RequestInv, Geo!Commit
  <1>2. progress' = [progress EXCEPT ![c] = "created"] /\ staged' = [staged EXCEPT ![c] = {}]
    BY DEF Geo!Commit
  <1>3. OthersKept(c) /\ GeoShaped' /\ progress'[c] = "created" /\ staged'[c] = {}
    BY <1>1, <1>2 DEF GeoInv, GeoShaped, GeoPhases, OthersKept
  <1>4. Geo!New(c)' = new /\ Geo!Belongings(c)' = more
    BY <1>1 DEF Geo!New, Geo!Belongings
  <1>5. rows \subseteq rows' /\ Everyone \subseteq Everyone' /\ Everyone' = Everyone \union Geo!Owner(c)
    BY <1>1 DEF Everyone
  <1>6. /\ \A r : Fits(r) => Fits(r)'
        /\ \A user, needed, org : Geo!May(user, needed, org) => Geo!May(user, needed, org)'
    BY <1>5, Lasting
  <1>7. \A r \in rows' \ rows : Creates(r) = c /\ Fits(r)'
    BY <1>1, <1>6, StagedRows
  <1>8. ASSUME NEW m \in Everyone' \ Everyone PROVE Geo!Has("organization", m.org, m.org)'
    <2>1. wish[c].kind = "organization" /\ m = Geo!Member(c, wish[c].user, "owner")
      BY <1>5, <1>8 DEF Geo!Owner
    <2>2. m.org = c
      BY <2>1 DEF Geo!Member
    <2>3. new.kind = "organization" /\ new.id = c /\ new.org = c /\ new \in rows'
      BY <1>1, <2>1, NewRow
    <2> QED
      BY <2>2, <2>3 DEF Geo!Has
  <1>9. RequestInv(c)'
    <2>1. \A r \in shown[c] : Geo!May(wish[c].user, "read", r.org)'
      BY <1>1, <1>6 DEF RequestInv
    <2>2. wish[c].kind = "organization" => Geo!Member(c, wish[c].user, "owner") \in Everyone'
      BY <1>5 DEF Geo!Owner
    <2>3. ASSUME wish[c].kind = "run" PROVE PartsOf(c)' = more
      <3>1. \A r \in rows : ~(r.kind = "part" /\ r.parent = c)
        BY <1>1 DEF RequestInv, Creates
      <3>2. new.kind = "run"
        BY <1>1, <2>3, NewRow
      <3>3. \A r \in more : r.kind = "part" /\ r.parent = c
        BY <2>3 DEF Geo!Belongings, Geo!Row
      <3> HIDE DEF new, more
      <3> QED
        BY <1>1, <3>1, <3>2, <3>3 DEF PartsOf
    <2> HIDE DEF new, more
    <2> QED
      BY <1>1, <1>3, <1>4, <2>1, <2>2, <2>3 DEF RequestInv
  <1>10. Live' \subseteq Live
    BY <1>1, <1>3, LiveRows DEF OthersKept
  <1>11. \A r, s \in Live' : Geo!Clash(r, s) => r = s
    BY <1>10 DEF GeoInv
  <1> QED
    BY <1>3, <1>5, <1>7, <1>8, <1>9, <1>11, GeoStepOf

LEMMA RemoveKeeps ==
  ASSUME GeoInv, Geo!RemoveMember
  PROVE  GeoInv'
  <1>1. UNCHANGED <<rows, staged, progress, wish, shown>> /\ Everyone' = Everyone
    BY DEF Geo!RemoveMember, Everyone
  <1>2. \A c \in Clients : RequestInv(c)'
    BY <1>1, RequestKept DEF GeoInv
  <1>3. (\A r \in rows : Fits(r))' /\ (\A m \in Everyone : Geo!Has("organization", m.org, m.org))'
    BY <1>1, Lasting DEF GeoInv
  <1>4. (\A r, s \in Live : Geo!Clash(r, s) => r = s)'
    BY <1>1 DEF GeoInv, Live, Geo!Clash
  <1> QED
    BY <1>1, <1>2, <1>3, <1>4 DEF GeoInv

LEMMA GeoStepInv ==
  ASSUME GeoInv, Geo!Step
  PROVE  GeoInv'
  <1>1. ASSUME NEW c \in Clients, Geo!Fail(c) PROVE GeoInv'
    BY <1>1, RefuseKeeps DEF Geo!Fail
  <1> QED
    BY <1>1, BeginKeeps, AccessKeeps, LookupKeeps, ListKeeps, FlushKeeps, CompleteKeeps, CommitKeeps, RemoveKeeps
       DEF Geo!Step, Geo!ClientStep

(* A run has as many parts as its answer had: their ids tell them apart. *)
LEMMA PartsCounted ==
  ASSUME NEW c \in Clients, wish[c].kind = "run", wish[c].parts \in Nat
  PROVE  Cardinality(Geo!Belongings(c)) = wish[c].parts
  <1> DEFINE n == wish[c].parts
             part == [i \in 1..n |-> Geo!Row("part", 10 * c + i, wish[c].org, wish[c].project, c, 0, wish[c].user)]
  <1>1. c \in Nat
    BY ServicesAssumption
  <1>2. Geo!Belongings(c) = {part[i] : i \in 1..n}
    BY DEF Geo!Belongings
  <1>3. \A i, j \in 1..n : part[i] = part[j] => i = j
    <2>1. \A i \in 1..n : part[i].id = 10 * c + i
      BY DEF Geo!Row
    <2> HIDE DEF part
    <2> QED
      BY <1>1, <2>1
  <1> HIDE DEF part
  <1>4. part \in Bijection(1..n, Geo!Belongings(c))
    <2>1. part \in [1..n -> Geo!Belongings(c)]
      BY <1>2 DEF part
    <2>2. \A p \in Geo!Belongings(c) : \E i \in 1..n : part[i] = p
      BY <1>2
    <2> QED
      BY <1>3, <2>1, <2>2, Fun_IsBij
  <1> HIDE DEF n
  <1>5. IsFiniteSet(1..n) /\ Cardinality(1..n) = n
    <2>1. n \in Nat
      BY DEF n
    <2> QED
      BY <2>1, FS_Interval
  <1> QED
    BY <1>4, <1>5, FS_Bijection DEF ExistsBijection, n

LEMMA SameCardinality == \A S : Geo!Cardinality(S) = Cardinality(S)
  BY DEF Geo!Cardinality, Cardinality

LEMMA GeoKeepsApart == GeoInv => Geo!TenantsApart /\ Geo!NothingPartial
  <1> SUFFICES ASSUME GeoInv PROVE Geo!TenantsApart /\ Geo!NothingPartial
    OBVIOUS
  <1>1. Geo!TenantsApart
    <2>1. \A r \in rows : Fits(r)
      BY DEF GeoInv
    <2>2. \A c \in Clients : \A r \in shown[c] : Geo!May(wish[c].user, "read", r.org)
      BY DEF GeoInv, RequestInv
    <2>3. \A r, s \in rows : Geo!Clash(r, s) => r = s
      BY DEF GeoInv, Live
    <2> QED
      BY <2>1, <2>2, <2>3 DEF Geo!TenantsApart, Fits
  <1>2. ASSUME NEW c \in Clients, progress[c] = "created", wish[c].kind = "run"
        PROVE  Cardinality({r \in rows : r.kind = "part" /\ r.parent = c}) = wish[c].parts
    BY <1>2, PartsCounted DEF GeoInv, RequestInv, PartsOf
  <1>3. ASSUME NEW c \in Clients
        PROVE  /\ progress[c] = "created" /\ wish[c].kind = "organization" =>
                    Geo!Member(c, wish[c].user, "owner") \in members \union former
               /\ progress[c] # "created" =>
                    \A r \in rows : c # IF r.kind \in {"part", "audit"} THEN r.parent ELSE r.id
    BY DEF GeoInv, RequestInv, Creates, Everyone
  <1>4. Geo!NothingPartial
    <2> SUFFICES ASSUME NEW c \in Clients
                 PROVE  IF progress[c] = "created"
                        THEN /\ wish[c].kind = "organization" =>
                                  Geo!Member(c, wish[c].user, "owner") \in members \union former
                             /\ wish[c].kind = "run" =>
                                  Cardinality({r \in rows : r.kind = "part" /\ r.parent = c}) = wish[c].parts
                        ELSE \A r \in rows : c # IF r.kind \in {"part", "audit"} THEN r.parent ELSE r.id
      BY SameCardinality DEF Geo!NothingPartial
    <2>1. CASE progress[c] = "created"
      BY <1>2, <1>3, <2>1
    <2>2. CASE progress[c] # "created"
      BY <1>3, <2>2
    <2> QED
      BY <2>1, <2>2
  <1> QED
    BY <1>1, <1>4

-----------------------------------------------------------------------------
(* StagingEvidence: a failed check and a spoilt answer come together; the       *)
(* searches begin once the probe has passed, and whoever is done with an        *)
(* attempt has closed its socket.                                           *)

Asked == {"liveness", "readiness", "deployment", "capabilities", "host", "sample1", "sample2", "sample3"}

StagingTyped ==
  /\ probe \in Asked \union {"resolve", "judge", "load", "done"}
  /\ load \in BOOLEAN /\ usable \subseteq {"first", "second"}
  /\ socket \in [Staging!Exchanges -> {"none", "raw", "connection"}]
  /\ attempt \in [Staging!Exchanges -> 0..2] /\ overdue \in [Staging!Exchanges -> BOOLEAN]
  /\ duration \in [Staging!Searches -> Staging!Durations \union {Staging!NoAnswer, Staging!Waiting}]
  /\ evidence \in {"none", "pass", "fail"}

SearchKnows(r) ==
  /\ attempt[r] = 0 => socket[r] = "none" /\ duration[r] = Staging!Waiting
  /\ attempt[r] > 0 => failures = {} /\ probe \in {"load", "done"}
  /\ duration[r] # Staging!Waiting \/ probe = "done" => socket[r] = "none"

Swift == {1000, Staging!Slow}

FitToPass ==
  /\ usable # {} /\ failures = {} /\ served = "expected"
  /\ load => \A r \in Staging!Searches : duration[r] \in Swift

StagingInv ==
  /\ StagingTyped
  /\ failures = {} <=> spoilt = {}
  /\ probe # "resolve" /\ evidence # "fail" => usable # {}
  /\ probe \in {"capabilities", "host", "sample1", "sample2", "sample3", "judge", "load"} /\ failures = {} =>
       served = "expected"
  /\ probe = "load" => failures = {} /\ load
  /\ probe \notin Asked => socket[0] = "none"
  /\ evidence # "none" <=> probe = "done"
  /\ evidence = "pass" => FitToPass
  /\ Cardinality(Staging!Busy) <= Concurrency
  /\ \A r \in Staging!Searches : SearchKnows(r)

LEMMA StagingConstants ==
  /\ Samples \in 1..3 /\ TotalRequests \in Nat /\ TotalRequests >= 1 /\ Concurrency \in Nat
  /\ Staging!Main = 0 /\ 0 \in Staging!Exchanges /\ 0 \notin Staging!Searches
  /\ Staging!Searches = 1..TotalRequests /\ Staging!Searches \subseteq Staging!Exchanges
  /\ \A r \in Staging!Exchanges : r # 0 => r \in Staging!Searches
  /\ Staging!Waiting \notin Staging!Durations /\ Staging!NoAnswer # Staging!Waiting
  <1>1. Samples \in 1..3 /\ TotalRequests \in Nat \ {0} /\ Concurrency \in Nat \ {0}
    BY ServicesAssumption, Zenon
  <1> QED
    BY <1>1 DEF Staging!Main, Staging!Exchanges, Staging!Searches, Staging!NoAnswer, Staging!Waiting,
                Staging!Slow, Staging!Durations

LEMMA ChecksAsked ==
  /\ Staging!Range(Staging!Checks) = {"liveness", "readiness", "deployment", "capabilities", "host"}
  /\ Len(Staging!Checks) = 5
  /\ Staging!Checks[1] = "liveness" /\ Staging!Checks[2] = "readiness" /\ Staging!Checks[3] = "deployment"
  /\ Staging!Checks[4] = "capabilities" /\ Staging!Checks[5] = "host"
  <1>1. /\ Len(Staging!Checks) = 5 /\ DOMAIN Staging!Checks = {1, 2, 3, 4, 5}
        /\ Staging!Checks[1] = "liveness" /\ Staging!Checks[2] = "readiness" /\ Staging!Checks[3] = "deployment"
        /\ Staging!Checks[4] = "capabilities" /\ Staging!Checks[5] = "host"
    BY DEF Staging!Checks
  <1>2. Staging!Range(Staging!Checks) = {Staging!Checks[i] : i \in {1, 2, 3, 4, 5}}
    BY <1>1 DEF Staging!Range
  <1> QED
    BY <1>1, <1>2

LEMMA AsksWhen ==
  /\ Staging!Asking(0) <=> probe \in Asked
  /\ \A r \in Staging!Searches : Staging!Asking(r) <=> probe = "load" /\ duration[r] = Staging!Waiting
  BY ChecksAsked, StagingConstants DEF Staging!Asking, Asked

Later == {"capabilities", "host", "sample1", "sample2", "sample3", "judge"}

LEMMA FollowsWhat ==
  ASSUME NEW p \in Asked
  PROVE  /\ p = "liveness" => Staging!Follows(p) = "readiness"
         /\ p = "readiness" => Staging!Follows(p) = "deployment"
         /\ p \notin {"liveness", "readiness"} => Staging!Follows(p) \in Later
  <1> USE ChecksAsked, StagingConstants
  <1> DEFINE After(c) == Staging!Checks[CHOOSE i \in 2..Len(Staging!Checks) : Staging!Checks[i - 1] = c]
  <1>1. ASSUME NEW c, NEW k \in 2..5, c = Staging!Checks[k - 1] PROVE After(c) = Staging!Checks[k]
    <2>1. \A i \in 2..5 : Staging!Checks[i - 1] = c => i = k
      BY <1>1
    <2> QED
      BY <1>1, <2>1
  <1> HIDE DEF After
  <1>2. /\ After("liveness") = "readiness" /\ After("readiness") = "deployment"
        /\ After("deployment") = "capabilities" /\ After("capabilities") = "host"
    <2>1. /\ After(Staging!Checks[1]) = Staging!Checks[2] /\ After(Staging!Checks[2]) = Staging!Checks[3]
          /\ After(Staging!Checks[3]) = Staging!Checks[4] /\ After(Staging!Checks[4]) = Staging!Checks[5]
      BY <1>1
    <2> QED
      BY <2>1
  <1>3. CASE p \in {"liveness", "readiness", "deployment", "capabilities"}
    <2>1. Staging!Follows(p) = After(p)
      BY <1>3 DEF Staging!Follows, After
    <2> QED
      BY <1>2, <1>3, <2>1 DEF Later
  <1>4. CASE p \in {"host", "sample1", "sample2", "sample3"}
    BY <1>4 DEF Staging!Follows, Later
  <1> QED
    BY <1>3, <1>4 DEF Asked

LEMMA BusyNoMore ==
  ASSUME StagingInv,
         \A r \in Staging!Searches : attempt'[r] > 0 /\ duration'[r] = Staging!Waiting =>
                                     attempt[r] > 0 /\ duration[r] = Staging!Waiting
  PROVE  Cardinality(Staging!Busy') <= Concurrency
  <1>1. IsFiniteSet(Staging!Busy)
    <2>1. IsFiniteSet(1..TotalRequests) /\ Staging!Busy \subseteq 1..TotalRequests
      BY StagingConstants, FS_Interval DEF Staging!Busy
    <2> QED
      BY <2>1, FS_Subset
  <1>2. Staging!Busy' \subseteq Staging!Busy
    BY DEF Staging!Busy
  <1>3. /\ Cardinality(Staging!Busy') <= Cardinality(Staging!Busy)
        /\ Cardinality(Staging!Busy') \in Nat /\ Cardinality(Staging!Busy) \in Nat
    BY <1>1, <1>2, FS_Subset, FS_CardinalityType
  <1> QED
    BY <1>3, StagingConstants DEF StagingInv

(* Sorted, the last of some durations is the longest. *)
LEMMA LongestLast ==
  ASSUME NEW n \in Nat \ {0}, NEW values \in [1..n -> Staging!Durations], NEW r \in 1..n
  PROVE  Staging!Percentile(values, 100) \in Nat /\ 100 * values[r] <= Staging!Percentile(values, 100)
  <1> DEFINE v == Staging!Ordered(values, n)
             Less(x) == {i \in 1..n : values[i] < x}
             Within(x) == {i \in 1..n : values[i] <= x}
  <1>1. /\ DOMAIN values = 1..n /\ Len(values) = n /\ n \in Nat /\ n >= 1 /\ r \in 1..n
        /\ \A s \in 1..n : values[s] \in {1000, 2600, 9000}
        /\ Staging!Range(values) = {values[s] : s \in 1..n}
    BY DEF Staging!Durations, Staging!Slow, Staging!Range
  <1>2. IsFiniteSet(1..n) /\ Cardinality(1..n) = n
    BY FS_Interval
  <1>3. /\ IsFiniteSet(1..n) /\ Cardinality(1..n) = n
        /\ \A x : Less(x) \subseteq 1..n /\ Within(x) \subseteq 1..n
    BY <1>2
  <1>4. \A x \in Staging!Range(values) : Cardinality(Less(x)) < n
    <2> SUFFICES ASSUME NEW s \in 1..n PROVE Cardinality(Less(values[s])) < n
      BY <1>1
    <2>1. s \notin Less(values[s])
      BY <1>1
    <2>2. Less(values[s]) \subseteq (1..n) \ {s}
      BY <2>1
    <2>3. Cardinality((1..n) \ {s}) = n - 1 /\ IsFiniteSet((1..n) \ {s})
      <3> HIDE DEF v, Less, Within
      <3>1. /\ IsFiniteSet((1..n) \ {s})
            /\ Cardinality((1..n) \ {s}) = (IF s \in 1..n THEN Cardinality(1..n) - 1 ELSE Cardinality(1..n))
        BY <1>2, FS_RemoveElement
      <3> QED
        BY <1>2, <3>1
    <2> DEFINE less == Cardinality(Less(values[s]))
    <2>4. less <= n - 1 /\ less \in Nat
      BY <2>2, <2>3, FS_Subset, FS_CardinalityType
    <2>5. less < n
      <3> HIDE DEF less, Less, Within, v
      <3> QED
        BY <2>4
    <2> QED
      BY <2>5
  <1>5. \A x : Cardinality(Within(x)) >= n => \A i \in 1..n : values[i] <= x
    <2> SUFFICES ASSUME NEW x, NEW i \in 1..n, Cardinality(Within(x)) >= n PROVE values[i] <= x
      OBVIOUS
    <2>1. Within(x) = 1..n
      BY <1>1, <1>3, FS_Subset, FS_CardinalityType
    <2> QED
      BY <2>1
  <1>6. \E x \in Staging!Range(values) : \A i \in 1..n : values[i] <= x
    <2>1. CASE \E s \in 1..n : values[s] = 9000
      BY <1>1, <2>1
    <2>2. CASE (\A s \in 1..n : values[s] # 9000) /\ \E s \in 1..n : values[s] = 2600
      <3>1. PICK s \in 1..n : values[s] = 2600
        BY <2>2
      <3>2. values[s] \in Staging!Range(values) /\ \A i \in 1..n : values[i] <= values[s]
        BY <1>1, <2>2, <3>1
      <3> QED
        BY <3>2
    <2>3. CASE \A s \in 1..n : values[s] = 1000
      BY <1>1, <2>3
    <2> QED
      BY <1>1, <2>1, <2>2, <2>3
  <1>7. \E x \in Staging!Range(values) : Cardinality(Less(x)) < n /\ Cardinality(Within(x)) >= n
    <2>1. PICK x \in Staging!Range(values) : \A i \in 1..n : values[i] <= x
      BY <1>6
    <2>2. Within(x) = 1..n
      BY <2>1
    <2>4. Cardinality(Less(x)) < n
      BY <1>4
    <2> HIDE DEF Less, Within
    <2>3. Cardinality(Within(x)) >= n
      BY <1>1, <1>3, <2>2
    <2> QED
      BY <2>3, <2>4
  <1>8. v \in Staging!Range(values) /\ Cardinality(Within(v)) >= n
    <2>1. v = CHOOSE x \in Staging!Range(values) : Cardinality(Less(x)) < n /\ Cardinality(Within(x)) >= n
      BY <1>1 DEF Staging!Ordered, Staging!Cardinality, Cardinality
    <2> QED
      BY <1>7, <2>1
  <1>9. Staging!Percentile(values, 100) = 100 * v
    <2>1. (((n - 1) * 100) \div 100) + 1 = n /\ ((((n - 1) * 100) + 99) \div 100) + 1 = n /\ ((n - 1) * 100) % 100 = 0
      BY <1>1, SMT
    <2>2. v \in Nat
      BY <1>1, <1>8
    <2> HIDE DEF v
    <2>3. 100 * v + 0 * (v - v) = 100 * v
      BY <2>2
    <2> QED
      BY <1>1, <2>1, <2>3 DEF Staging!Percentile, v
  <1>10. v \in Nat /\ values[r] \in Nat /\ values[r] <= v
    BY <1>1, <1>5, <1>8
  <1> HIDE DEF v
  <1> QED
    BY <1>9, <1>10

(* Whoever is within the budgets has no search that was as slow as the slowest. *)
LEMMA WithinEveryBudget ==
  ASSUME StagingInv, Staging!WithinSlo, \A r \in Staging!Searches : duration[r] # Staging!Waiting
  PROVE  \A r \in Staging!Searches : duration[r] \in Swift
  <1> USE StagingConstants
  <1> DEFINE values == [r \in Staging!Searches |-> duration[r]]
  <1>1. values \in [1..TotalRequests -> Staging!Durations]
    BY DEF StagingInv, StagingTyped, Staging!WithinSlo
  <1>2. \A r \in Staging!Searches : values[r] = duration[r]
    OBVIOUS
  <1> DEFINE most == 800000
  <1>3. Staging!Percentile(values, 100) <= most
    BY SMT DEF Staging!WithinSlo
  <1>4. \A n \in Nat : n > 8000 => 100 * n > most
    BY SMT
  <1> HIDE DEF values, most
  <1>5. ASSUME NEW r \in Staging!Searches PROVE values[r] # 9000
    <2>1. Staging!Percentile(values, 100) \in Nat /\ 100 * values[r] <= Staging!Percentile(values, 100)
      BY <1>1, LongestLast
    <2>2. most \in Nat
      BY SMT DEF most
    <2> QED
      BY <1>3, <1>4, <2>1, <2>2, SMT
  <1> QED
    BY <1>1, <1>2, <1>5 DEF Swift, Staging!Durations, Staging!Slow

(* A thread is free for the search that begins. *)
LEMMA ConnectWithin ==
  ASSUME StagingInv, NEW r \in Staging!Exchanges, Staging!Connect(r)
  PROVE  Cardinality(Staging!Busy') <= Concurrency
  <1> USE StagingConstants
  <1>1. /\ attempt' = [attempt EXCEPT ![r] = attempt[r] + 1] /\ duration' = duration
        /\ Staging!May(r) /\ attempt[r] \in 0..2
    BY DEF Staging!Connect, StagingInv, StagingTyped
  <1>2. \A q \in Staging!Searches : q # r => attempt'[q] = attempt[q]
    BY <1>1 DEF StagingInv, StagingTyped
  <1>3. CASE r = 0 \/ attempt[r] > 0
    BY <1>1, <1>2, <1>3, BusyNoMore DEF StagingInv, StagingTyped
  <1>4. CASE r # 0 /\ ~(attempt[r] > 0)
    <2>1. Staging!Cardinality(Staging!Busy) < Concurrency
      BY <1>1, <1>4 DEF Staging!May
    <2>2. Staging!Cardinality(Staging!Busy) = Cardinality(Staging!Busy)
      BY DEF Staging!Cardinality, Cardinality
    <2>3. Staging!Busy \subseteq 1..TotalRequests /\ Staging!Busy' \subseteq Staging!Busy \union {r}
      BY <1>1, <1>2 DEF Staging!Busy
    <2>4. IsFiniteSet(Staging!Busy)
      <3>1. IsFiniteSet(1..TotalRequests)
        BY FS_Interval
      <3> QED
        BY <2>3, <3>1, FS_Subset
    <2>5. IsFiniteSet(Staging!Busy \union {r}) /\ Cardinality(Staging!Busy \union {r}) <= Cardinality(Staging!Busy) + 1
      <3> DEFINE B == Staging!Busy
      <3>1. IsFiniteSet(B) /\ Cardinality(B) \in Nat
        BY <2>4, FS_CardinalityType
      <3> HIDE DEF B
      <3>2. IsFiniteSet(B \union {r}) /\ Cardinality(B \union {r}) <= Cardinality(B) + 1
        <4>1. IsFiniteSet(B \union {r})
              /\ Cardinality(B \union {r}) = (IF r \in B THEN Cardinality(B) ELSE Cardinality(B) + 1)
          BY <3>1, FS_AddElement
        <4> QED
          BY <3>1, <4>1
      <3> QED
        BY <3>2 DEF B
    <2>6. /\ Cardinality(Staging!Busy') <= Cardinality(Staging!Busy \union {r})
          /\ Cardinality(Staging!Busy') \in Nat /\ Cardinality(Staging!Busy \union {r}) \in Nat
          /\ Cardinality(Staging!Busy) \in Nat
      BY <2>3, <2>4, <2>5, FS_Subset, FS_CardinalityType
    <2> QED
      BY <2>1, <2>2, <2>5, <2>6
  <1> QED
    BY <1>3, <1>4

LEMMA StagingInit == Staging!Init => StagingInv
  <1> SUFFICES ASSUME Staging!Init PROVE StagingInv
    OBVIOUS
  <1> USE StagingConstants
  <1>1. StagingTyped
    BY DEF Staging!Init, StagingTyped, Asked
  <1>2. Staging!Busy = {}
    BY DEF Staging!Init, Staging!Busy
  <1>3. Cardinality(Staging!Busy) = 0
    BY <1>2, FS_EmptySet
  <1> QED
    BY <1>1, <1>3 DEF Staging!Init, StagingInv, SearchKnows, FitToPass, Asked

(* A request between its steps: only its socket, its address and its deadline   *)
(* change, and no search starts.                                            *)
LEMMA SocketMoves ==
  ASSUME StagingInv, NEW r \in Staging!Exchanges,
         UNCHANGED <<probe, load, deployed, usable, failures, duration, evidence, served, spoilt>>,
         attempt' \in {attempt, [attempt EXCEPT ![r] = attempt[r] + 1]}, attempt'[r] <= 2,
         overdue' \in {overdue, [overdue EXCEPT ![r] = TRUE]},
         \E held \in {"none", "raw", "connection"} : socket' = [socket EXCEPT ![r] = held],
         \/ r = 0 /\ probe \in Asked
         \/ r # 0 /\ attempt'[r] > 0 /\ probe = "load" /\ duration[r] = Staging!Waiting
         \/ socket'[r] = "none" /\ attempt' = attempt,
         Cardinality(Staging!Busy') <= Concurrency
  PROVE  StagingInv'
  <1> USE StagingConstants
  <1>1. PICK held \in {"none", "raw", "connection"} : socket' = [socket EXCEPT ![r] = held]
    OBVIOUS
  <1>2. /\ attempt' \in [Staging!Exchanges -> 0..2] /\ attempt'[r] >= attempt[r]
        /\ \A q \in Staging!Exchanges : q # r => attempt'[q] = attempt[q]
    BY DEF StagingInv, StagingTyped
  <1>3. /\ socket' \in [Staging!Exchanges -> {"none", "raw", "connection"}] /\ socket'[r] = held
        /\ \A q \in Staging!Exchanges : q # r => socket'[q] = socket[q]
    BY <1>1 DEF StagingInv, StagingTyped
  <1>4. overdue' \in [Staging!Exchanges -> BOOLEAN]
    <2>1. overdue \in [Staging!Exchanges -> BOOLEAN]
      BY DEF StagingInv, StagingTyped
    <2>2. [overdue EXCEPT ![r] = TRUE] \in [Staging!Exchanges -> BOOLEAN]
      BY <2>1, Zenon
    <2> QED
      BY <2>1, <2>2
  <1>5. StagingTyped'
    BY <1>2, <1>3, <1>4 DEF StagingInv, StagingTyped
  <1>6. ASSUME NEW q \in Staging!Searches PROVE SearchKnows(q)'
    BY <1>2, <1>3 DEF StagingInv, StagingTyped, SearchKnows
  <1>7. FitToPass => FitToPass'
    BY DEF FitToPass
  <1>8. probe \notin Asked => socket'[0] = "none"
    BY <1>3 DEF StagingInv
  <1> QED
    BY <1>5, <1>6, <1>7, <1>8 DEF StagingInv

(* The probe ends before any search begins, or when all are answered. *)
LEMMA Written ==
  ASSUME StagingInv, NEW verdict \in {"pass", "fail"}, probe' = "done", evidence' = verdict,
         UNCHANGED <<load, failures, duration, served, spoilt, socket, attempt, overdue>>,
         usable' \subseteq {"first", "second"},
         socket[0] = "none", \A r \in Staging!Searches : SearchKnows(r) /\ socket[r] = "none",
         evidence' = "pass" => FitToPass', verdict # "fail" => usable' # {},
         probe # "done"
  PROVE  StagingInv'
  <1> USE StagingConstants
  <1>1. StagingTyped'
    BY DEF StagingInv, StagingTyped
  <1>2. ASSUME NEW r \in Staging!Searches PROVE SearchKnows(r)'
    BY DEF SearchKnows, StagingInv
  <1>3. Cardinality(Staging!Busy') <= Concurrency
    BY BusyNoMore
  <1> QED
    BY <1>1, <1>2, <1>3 DEF StagingInv, Asked

(* No search begins before the load. *)
LEMMA NoneYet ==
  ASSUME StagingInv, probe \notin {"load", "done"}, NEW r \in Staging!Searches
  PROVE  attempt[r] = 0 /\ socket[r] = "none" /\ duration[r] = Staging!Waiting
  <1>1. attempt[r] \in 0..2 /\ SearchKnows(r)
    BY StagingConstants DEF StagingInv, StagingTyped
  <1> QED
    BY <1>1 DEF SearchKnows

LEMMA StagingStepInv ==
  ASSUME StagingInv, Staging!Step
  PROVE  StagingInv'
  <1> USE StagingConstants
  <1>1. CASE Staging!Deploy
    BY <1>1, BusyNoMore DEF Staging!Deploy, Staging!requests, StagingInv, StagingTyped, SearchKnows, FitToPass
  <1>2. CASE Staging!Resolve
    <2>1. /\ probe = "resolve"
          /\ UNCHANGED <<load, failures, socket, attempt, overdue, duration, served, spoilt>>
      BY <1>2 DEF Staging!Resolve, Staging!requests
    <2>2. socket[0] = "none" /\ \A r \in Staging!Searches : SearchKnows(r) /\ socket[r] = "none"
      BY <2>1, NoneYet DEF StagingInv, Asked
    <2>3. CASE probe' = "done" /\ evidence' = "fail" /\ UNCHANGED usable
      BY <2>1, <2>2, <2>3, Written DEF StagingInv, StagingTyped
    <2>4. CASE \E records \in SUBSET {"first", "private", "second"} :
                 Staging!AllPublic(records) /\ probe' = Staging!Checks[1] /\ usable' = records /\ UNCHANGED evidence
      <3>1. usable' \subseteq {"first", "second"} /\ usable' # {} /\ probe' = "liveness" /\ evidence' = evidence
        BY <2>4, ChecksAsked DEF Staging!AllPublic
      <3>2. StagingTyped'
        BY <2>1, <3>1 DEF StagingInv, StagingTyped, Asked
      <3>3. ASSUME NEW r \in Staging!Searches PROVE SearchKnows(r)'
        BY <2>1, <2>2, <3>1, NoneYet DEF SearchKnows
      <3>4. Cardinality(Staging!Busy') <= Concurrency
        BY <2>1, BusyNoMore
      <3> QED
        BY <2>1, <3>1, <3>2, <3>3, <3>4 DEF StagingInv, Asked
    <2> QED
      BY <1>2, <2>3, <2>4 DEF Staging!Resolve, Staging!Write
  <1>3. CASE Staging!ProbeRaises
    <2>1. /\ probe \in Asked /\ socket[0] \in {"none", "leaked"} /\ probe' = "done" /\ evidence' = "fail"
          /\ UNCHANGED <<load, usable, failures, socket, attempt, overdue, duration, served, spoilt>>
      BY <1>3, AsksWhen DEF Staging!ProbeRaises, Staging!Exhausted, Staging!Idle, Staging!Write, Staging!requests
    <2>2. probe \notin {"load", "done"} /\ socket[0] = "none" /\ usable \subseteq {"first", "second"}
      BY <2>1 DEF StagingInv, StagingTyped, Asked
    <2>3. \A r \in Staging!Searches : SearchKnows(r) /\ socket[r] = "none"
      BY <2>2, NoneYet DEF StagingInv
    <2> QED
      BY <2>1, <2>2, <2>3, Written
  <1>4. CASE Staging!ProbeAnswered
    <2>1. /\ probe \in Asked /\ probe' = Staging!Follows(probe)
          /\ served' = (IF probe = "deployment" THEN deployed ELSE served)
          /\ UNCHANGED <<load, deployed, usable, duration, evidence>>
          /\ socket' = [socket EXCEPT ![0] = "none"] /\ attempt' = [attempt EXCEPT ![0] = 0]
          /\ overdue' = [overdue EXCEPT ![0] = FALSE]
      BY <1>4, AsksWhen DEF Staging!ProbeAnswered, Staging!Fresh, Staging!Closed
    <2>2. \/ failures' = failures /\ spoilt' = spoilt /\ (probe = "deployment" => deployed = "expected")
          \/ failures' = failures \union {probe} /\ \E x : spoilt' = spoilt \union {x}
      BY <1>4 DEF Staging!ProbeAnswered, Staging!Passes
    <2>3. /\ probe \notin {"resolve", "judge", "load", "done"}
          /\ probe' \in Asked \union {"judge"} /\ (probe' \in Later => probe = "deployment" \/ probe \in Later)
      BY <2>1, FollowsWhat DEF Asked, Later
    <2>4. StagingTyped'
      <3>1. /\ socket' \in [Staging!Exchanges -> {"none", "raw", "connection"}]
            /\ attempt' \in [Staging!Exchanges -> 0..2]
        BY <2>1 DEF StagingInv, StagingTyped
      <3>2. overdue' \in [Staging!Exchanges -> BOOLEAN]
        <4>1. overdue \in [Staging!Exchanges -> BOOLEAN] /\ overdue' = [overdue EXCEPT ![0] = FALSE]
          BY <2>1 DEF StagingInv, StagingTyped
        <4> QED
          BY <4>1, Zenon
      <3> QED
        BY <2>1, <2>3, <3>1, <3>2 DEF StagingInv, StagingTyped
    <2>5. \A r \in Staging!Searches : attempt'[r] = 0 /\ socket'[r] = "none" /\ duration'[r] = Staging!Waiting
      BY <2>1, <2>3, NoneYet DEF StagingInv, StagingTyped
    <2>6. Cardinality(Staging!Busy') <= Concurrency
      BY <2>5, BusyNoMore
    <2>7. socket'[0] = "none"
      BY <2>1 DEF StagingInv, StagingTyped
    <2>8. failures' = {} <=> spoilt' = {}
      BY <2>2 DEF StagingInv
    <2>9. probe' \in Later /\ failures' = {} => served' = "expected"
      BY <2>1, <2>2, <2>3 DEF StagingInv, Later, Asked
    <2>10. \A r \in Staging!Searches : SearchKnows(r)'
      BY <2>5, <2>3 DEF SearchKnows
    <2>11. evidence' = "none" /\ usable' # {} /\ probe' \notin {"load", "done"}
      BY <2>1, <2>3 DEF StagingInv, StagingTyped, Asked
    <2> QED
      BY <2>4, <2>6, <2>7, <2>8, <2>9, <2>10, <2>11 DEF StagingInv, Later
  <1>5. CASE Staging!Judge
    <2>1. /\ probe = "judge" /\ UNCHANGED <<load, usable, failures, socket, attempt, overdue, duration, served, spoilt>>
          /\ \/ failures # {} /\ probe' = "done" /\ evidence' = "fail"
             \/ failures = {} /\ load /\ probe' = "load" /\ UNCHANGED evidence
             \/ failures = {} /\ ~load /\ probe' = "done" /\ evidence' = "pass"
      BY <1>5 DEF Staging!Judge, Staging!Write, Staging!requests
    <2>2. /\ socket[0] = "none" /\ \A r \in Staging!Searches : SearchKnows(r) /\ socket[r] = "none"
          /\ usable \subseteq {"first", "second"}
      BY <2>1, NoneYet DEF StagingInv, StagingTyped, Asked
    <2>3. CASE failures # {} /\ probe' = "done" /\ evidence' = "fail"
      BY <2>1, <2>2, <2>3, Written
    <2>4. CASE failures = {} /\ ~load /\ probe' = "done" /\ evidence' = "pass"
      <3>1. FitToPass' /\ usable' # {}
        BY <2>1, <2>4 DEF StagingInv, StagingTyped, FitToPass
      <3> QED
        BY <2>1, <2>2, <2>4, <3>1, Written
    <2>5. CASE failures = {} /\ load /\ probe' = "load" /\ UNCHANGED evidence
      <3>1. StagingTyped'
        BY <2>1, <2>5 DEF StagingInv, StagingTyped
      <3>2. \A r \in Staging!Searches : SearchKnows(r)'
        BY <2>1, <2>2, <2>5 DEF SearchKnows
      <3>3. Cardinality(Staging!Busy') <= Concurrency
        BY <2>1, BusyNoMore
      <3> QED
        BY <2>1, <2>2, <2>5, <3>1, <3>2, <3>3 DEF StagingInv, Asked
    <2> QED
      BY <2>1, <2>3, <2>4, <2>5
  <1>6. CASE Staging!Summarize
    <2>1. /\ probe = "load" /\ probe' = "done" /\ evidence' \in {"pass", "fail"}
          /\ evidence' = "pass" => Staging!WithinSlo
          /\ \A r \in Staging!Searches : duration[r] # Staging!Waiting
          /\ UNCHANGED <<load, usable, failures, socket, attempt, overdue, duration, served, spoilt>>
      BY <1>6 DEF Staging!Summarize, Staging!Write, Staging!requests
    <2>2. /\ socket[0] = "none" /\ \A r \in Staging!Searches : SearchKnows(r) /\ socket[r] = "none"
          /\ usable \subseteq {"first", "second"} /\ usable # {} /\ failures = {} /\ served = "expected"
      BY <2>1 DEF StagingInv, StagingTyped, SearchKnows, Asked
    <2>3. evidence' = "pass" => FitToPass'
      BY <2>1, <2>2, WithinEveryBudget DEF FitToPass
    <2> QED
      BY <2>1, <2>2, <2>3, Written
  <1>7. ASSUME NEW r \in Staging!Exchanges, Staging!Connect(r) PROVE StagingInv'
    <2>1. /\ Staging!Asking(r) /\ attempt[r] < Staging!Cardinality(usable)
          /\ attempt' = [attempt EXCEPT ![r] = attempt[r] + 1]
          /\ \/ socket' = [socket EXCEPT ![r] = "raw"] /\ UNCHANGED overdue
             \/ UNCHANGED socket /\ overdue' \in {overdue, [overdue EXCEPT ![r] = TRUE]}
          /\ UNCHANGED <<probe, load, deployed, usable, failures, duration, evidence, served, spoilt>>
      BY <1>7 DEF Staging!Connect
    <2>2. attempt[r] < 2
      <3>1. Cardinality({"first", "second"}) = 2 /\ IsFiniteSet({"first", "second"})
        <4>1. /\ IsFiniteSet({"first"}) /\ Cardinality({"first"}) = 1
              /\ {"first", "second"} = {"first"} \union {"second"} /\ "second" \notin {"first"}
          BY FS_Singleton
        <4>2. /\ IsFiniteSet({"first"} \union {"second"})
              /\ Cardinality({"first"} \union {"second"}) = Cardinality({"first"}) + 1
          BY <4>1, FS_AddElement
        <4> QED
          BY <4>1, <4>2
      <3>2. Cardinality(usable) <= 2 /\ Cardinality(usable) \in Nat
        <4>1. usable \subseteq {"first", "second"}
          BY DEF StagingInv, StagingTyped
        <4>2. IsFiniteSet(usable) /\ Cardinality(usable) <= Cardinality({"first", "second"})
          BY <3>1, <4>1, FS_Subset
        <4> QED
          BY <3>1, <4>2, FS_CardinalityType
      <3>3. Staging!Cardinality(usable) = Cardinality(usable)
        BY DEF Staging!Cardinality, Cardinality
      <3> QED
        BY <2>1, <3>2, <3>3 DEF StagingInv, StagingTyped
    <2>3. \E held \in {"none", "raw", "connection"} : socket' = [socket EXCEPT ![r] = held]
      <3>1. socket[r] \in {"none", "raw", "connection"} /\ socket = [socket EXCEPT ![r] = socket[r]]
        BY DEF StagingInv, StagingTyped
      <3> QED
        BY <2>1, <3>1
    <2>4. attempt'[r] = attempt[r] + 1 /\ attempt'[r] <= 2 /\ attempt'[r] > 0
      BY <2>1, <2>2 DEF StagingInv, StagingTyped
    <2>5. Cardinality(Staging!Busy') <= Concurrency
      BY <1>7, ConnectWithin
    <2>6. IF r = 0 THEN probe \in Asked ELSE probe = "load" /\ duration[r] = Staging!Waiting
      BY <2>1, AsksWhen
    <2> QED
      BY <2>1, <2>3, <2>4, <2>5, <2>6, SocketMoves
  <1>8. ASSUME NEW r \in Staging!Exchanges, Staging!Handshake(r) \/ Staging!AttemptFails(r) PROVE StagingInv'
    <2>1. /\ UNCHANGED <<probe, load, deployed, usable, failures, attempt, duration, evidence, served, spoilt>>
          /\ overdue' \in {overdue, [overdue EXCEPT ![r] = TRUE]}
          /\ socket[r] \notin {"none", "leaked"}
          /\ socket' = [socket EXCEPT ![r] = "connection"] \/ socket' = [socket EXCEPT ![r] = "none"]
      BY <1>8 DEF Staging!Handshake, Staging!AttemptFails, Staging!Idle, Staging!Closed
    <2>2. Cardinality(Staging!Busy') <= Concurrency
      BY <2>1, BusyNoMore
    <2>3. r = 0 => probe \in Asked
      BY <2>1 DEF StagingInv
    <2>4. r # 0 => attempt[r] > 0 /\ probe = "load" /\ duration[r] = Staging!Waiting
      BY <2>1 DEF StagingInv, StagingTyped, SearchKnows
    <2>5. attempt[r] <= 2
      BY DEF StagingInv, StagingTyped
    <2> QED
      BY <2>1, <2>2, <2>3, <2>4, <2>5, SocketMoves
  <1>9. ASSUME NEW r \in Staging!Searches, Staging!SearchAnswered(r) \/ Staging!SearchFails(r) PROVE StagingInv'
    <2>1. /\ UNCHANGED <<probe, load, deployed, usable, failures, attempt, overdue, evidence, served, spoilt>>
          /\ \E d \in Staging!Durations \union {Staging!NoAnswer} : duration' = [duration EXCEPT ![r] = d]
          /\ \/ socket[r] = "connection" /\ socket' = [socket EXCEPT ![r] = "none"]
             \/ Staging!Exhausted(r) /\ UNCHANGED socket
      BY <1>9 DEF Staging!SearchAnswered, Staging!SearchFails, Staging!Closed, Staging!requests
    <2>2. /\ probe = "load" /\ attempt[r] > 0 /\ duration[r] = Staging!Waiting /\ r # 0
          /\ Staging!Exhausted(r) => socket[r] = "none"
      BY <2>1, AsksWhen DEF Staging!Exhausted, Staging!Idle, StagingInv, StagingTyped, SearchKnows
    <2>3. /\ duration' \in [Staging!Searches -> Staging!Durations \union {Staging!NoAnswer, Staging!Waiting}]
          /\ duration'[r] # Staging!Waiting
          /\ \A q \in Staging!Searches : q # r => duration'[q] = duration[q]
      BY <2>1 DEF StagingInv, StagingTyped
    <2>4. /\ socket' \in [Staging!Exchanges -> {"none", "raw", "connection"}] /\ socket'[r] = "none"
          /\ \A q \in Staging!Exchanges : q # r => socket'[q] = socket[q]
      BY <2>1, <2>2 DEF StagingInv, StagingTyped
    <2>5. StagingTyped'
      BY <2>1, <2>3, <2>4 DEF StagingInv, StagingTyped
    <2>6. ASSUME NEW q \in Staging!Searches PROVE SearchKnows(q)'
      BY <2>1, <2>2, <2>3, <2>4 DEF StagingInv, SearchKnows
    <2>7. Cardinality(Staging!Busy') <= Concurrency
      BY <2>1, <2>3, BusyNoMore
    <2>8. evidence' = "none" /\ socket'[0] = "none"
      BY <2>1, <2>2, <2>4 DEF StagingInv, StagingTyped, Asked
    <2> QED
      BY <2>1, <2>2, <2>5, <2>6, <2>7, <2>8 DEF StagingInv
  <1> QED
    BY <1>1, <1>2, <1>3, <1>4, <1>5, <1>6, <1>7, <1>8, <1>9 DEF Staging!Step

LEMMA StagingHonest ==
  ASSUME StagingInv
  PROVE  Staging!EvidenceHonest
  <1> USE StagingConstants
  <1>1. evidence = "pass" =>
          /\ usable # {} /\ "private" \notin usable /\ spoilt = {} /\ served = "expected"
          /\ load => \A r \in Staging!Searches : duration[r] \in Swift /\ attempt[r] > 0
    <2>1. Staging!Waiting \notin Swift
      BY DEF Swift, Staging!Waiting, Staging!Slow
    <2> QED
      BY <2>1 DEF StagingInv, StagingTyped, FitToPass, SearchKnows
  <1>2. (\E r \in Staging!Searches : attempt[r] > 0) => failures = {} /\ spoilt = {}
    BY DEF StagingInv, SearchKnows
  <1>3. probe \in {"judge", "done"} => \A r \in Staging!Exchanges : socket[r] = "none"
    BY NoneYet DEF StagingInv, SearchKnows, Asked
  <1> QED
    BY <1>1, <1>2, <1>3 DEF Swift, Staging!EvidenceHonest


-----------------------------------------------------------------------------
(* RetrievalJudgments: what is finalized is what finalize_dataset computes    *)
(* of a dataset it does not refuse, and nothing else is promoted.            *)

JudgmentsInv ==
  /\ outcome = "finalized" =>
       dataset \in Judgments!Datasets /\ ~Judgments!Refused(dataset) /\ final = Judgments!Final(dataset)
  /\ promoted => outcome = "finalized"

LEMMA JudgmentsInit == Judgments!Init => JudgmentsInv
  BY DEF Judgments!Init, JudgmentsInv

LEMMA JudgmentsStepInv == JudgmentsInv /\ Judgments!Step => JudgmentsInv'
  BY DEF JudgmentsInv, Judgments!Step, Judgments!Finalize, Judgments!Compare

(* Who judges is one of three people. *)
LEMMA ThreePeople == IsFiniteSet({"a", "b", "c"}) /\ IsFiniteSet({0, 2})
  <1>1. IsFiniteSet({"a"}) /\ IsFiniteSet({0})
    BY FS_Singleton
  <1>2. IsFiniteSet({"a"} \union {"b"}) /\ IsFiniteSet({0} \union {2})
    BY <1>1, FS_AddElement
  <1>3. IsFiniteSet(({"a"} \union {"b"}) \union {"c"})
    BY <1>2, FS_AddElement
  <1>4. {"a", "b", "c"} = ({"a"} \union {"b"}) \union {"c"} /\ {0, 2} = {0} \union {2}
    OBVIOUS
  <1> QED
    BY <1>2, <1>3, <1>4

(* Two or more are two who differ. *)
LEMMA TwoDiffer ==
  ASSUME NEW S, IsFiniteSet(S), Cardinality(S) >= 2
  PROVE  \E a, b \in S : a # b
  <1>1. PICK a \in S : TRUE
    <2>1. S # {}
      BY FS_EmptySet
    <2> QED
      BY <2>1
  <1>2. S # {a}
    <2>1. Cardinality({a}) = 1
      BY FS_Singleton
    <2> QED
      BY <2>1
  <1> QED
    BY <1>1, <1>2

LEMMA PairCounts ==
  ASSUME NEW a, NEW b, a # b
  PROVE  Cardinality({a, b}) = 2
  <1>1. IsFiniteSet({a}) /\ Cardinality({a}) = 1 /\ b \notin {a} /\ {a} \union {b} = {a, b}
    BY FS_Singleton
  <1>2. Cardinality({a} \union {b}) = Cardinality({a}) + 1
    BY <1>1, FS_AddElement
  <1> QED
    BY <1>1, <1>2

(* What the cells of a dataset may hold. *)
LEMMA JudgmentCells ==
  ASSUME NEW d \in Judgments!Datasets, NEW i
  PROVE  /\ \A c \in Judgments!Rows(d) : c[2] \in {"a", "b", "c"} /\ d.grade[c] \in {0, 2}
         /\ Judgments!Annotators(d, i) \subseteq {"a", "b", "c"}
         /\ Judgments!GradesOf(d, i) \subseteq {0, 2}
         /\ i \in Judgments!Annotated(d) => Judgments!GradesOf(d, i) # {}
         /\ d.adjudication.grade \in {0, 3, Judgments!NoGrade}
  <1>1. d.grade \in [Judgments!Cells -> {Judgments!NoGrade, 0, 2}]
    BY DEF Judgments!Datasets
  <1>2. \A c \in Judgments!Cells : c[2] \in {"a", "b", "c"}
    BY DEF Judgments!Cells
  <1>3. \A c \in Judgments!Rows(d) : c[2] \in {"a", "b", "c"} /\ d.grade[c] \in {0, 2}
    BY <1>1, <1>2 DEF Judgments!Rows
  <1>4. d.adjudication.grade \in {0, 3, Judgments!NoGrade}
    BY DEF Judgments!Datasets, Judgments!NoAdjudication
  <1> QED
    BY <1>3, <1>4 DEF Judgments!Annotators, Judgments!GradesOf, Judgments!Annotated

LEMMA JudgmentCardinality == \A S : Judgments!Cardinality(S) = Cardinality(S)
  BY DEF Judgments!Cardinality, Cardinality

(* An item nobody disputes has the grade they all gave. *)
LEMMA AgreedGrade ==
  ASSUME NEW d \in Judgments!Datasets, NEW i \in Judgments!Annotated(d), i \notin Judgments!Disputed(d)
  PROVE  Judgments!GradesOf(d, i) = {CHOOSE g \in Judgments!GradesOf(d, i) : TRUE}
  <1> DEFINE G == Judgments!GradesOf(d, i)
  <1>1. G \subseteq {0, 2} /\ G # {}
    BY JudgmentCells
  <1>2. IsFiniteSet(G) /\ Cardinality(G) \in Nat
    BY <1>1, ThreePeople, FS_Subset, FS_CardinalityType
  <1>3. ~(Cardinality(G) > 1)
    BY JudgmentCardinality DEF Judgments!Disputed
  <1> HIDE DEF G
  <1>4. Cardinality(G) = 1
    <2>1. Cardinality(G) # 0
      BY <1>1, <1>2, FS_EmptySet
    <2> QED
      BY <1>2, <1>3, <2>1
  <1>5. PICK g : G = {g}
    BY <1>2, <1>4, FS_Singleton
  <1>6. G = {CHOOSE x \in G : TRUE}
    BY <1>5
  <1> QED
    BY <1>6 DEF G

(* Two people who share an item are a pair that is measured. *)
LEMMA PairsMeasured ==
  ASSUME NEW d \in Judgments!Datasets, NEW i \in Judgments!Annotated(d),
         Judgments!Cardinality(Judgments!Annotators(d, i)) >= 2
  PROVE  Judgments!Pairs(d) # {}
  <1> DEFINE A == Judgments!Annotators(d, i)
  <1>1. A \subseteq {"a", "b", "c"} /\ Cardinality(A) >= 2
    BY JudgmentCells, JudgmentCardinality
  <1>2. IsFiniteSet(A)
    BY <1>1, ThreePeople, FS_Subset
  <1>3. PICK a \in A, b \in A : a # b
    BY <1>1, <1>2, TwoDiffer
  <1>4. {a, b} \in SUBSET {"a", "b", "c"} /\ Judgments!Cardinality({a, b}) = 2
    BY <1>1, <1>3, PairCounts, JudgmentCardinality
  <1>5. {a, b} \in Judgments!kSubset(2, {"a", "b", "c"})
    BY <1>4 DEF Judgments!kSubset
  <1>6. i \in Judgments!Shared(d, {a, b})
    BY <1>3 DEF Judgments!Shared
  <1> QED
    BY <1>5, <1>6 DEF Judgments!Pairs

LEMMA JudgmentsIndependent ==
  ASSUME JudgmentsInv
  PROVE  Judgments!JudgedIndependently
  <1> SUFFICES ASSUME outcome = "finalized" PROVE Judgments!JudgedIndependently
    BY DEF JudgmentsInv, Judgments!JudgedIndependently
  <1> DEFINE D == dataset
  <1>1. /\ D \in Judgments!Datasets /\ final = Judgments!Final(D) /\ (promoted => outcome = "finalized")
        /\ ~Judgments!Unparsable(D) /\ ~Judgments!Spoiled(D) /\ Judgments!Open(D) = {}
        /\ \A q \in Judgments!Queries(D) : ~Judgments!NothingRelevant(D, q)
    BY DEF JudgmentsInv, Judgments!Refused
  <1> HIDE DEF D
  <1>2. /\ DOMAIN final = Judgments!Annotated(D)
        /\ \A i \in DOMAIN final :
             final[i] = (IF i \in Judgments!Disputed(D) THEN D.adjudication.grade
                         ELSE CHOOSE g \in Judgments!GradesOf(D, i) : TRUE)
    BY <1>1 DEF Judgments!Final
  <1>3. \A i \in DOMAIN final : Judgments!Cardinality(Judgments!Annotators(D, i)) >= 2
    <2> SUFFICES ASSUME NEW i \in DOMAIN final
                 PROVE  Judgments!Cardinality(Judgments!Annotators(D, i)) >= 2
      OBVIOUS
    <2>1. Cardinality(Judgments!Annotators(D, i)) \in Nat
      BY <1>1, JudgmentCells, ThreePeople, FS_Subset, FS_CardinalityType
    <2>2. ~(Judgments!Cardinality(Judgments!Annotators(D, i)) < 2)
      BY <1>1, <1>2 DEF Judgments!Spoiled
    <2> QED
      BY <2>1, <2>2, JudgmentCardinality
  <1>4. Judgments!Pairs(D) # {}
    <2>1. PICK i \in Judgments!Annotated(D) : TRUE
      BY <1>1 DEF Judgments!Unparsable, Judgments!Queries, Judgments!Annotated
    <2> QED
      BY <1>1, <1>2, <1>3, <2>1, PairsMeasured
  <1>5. ASSUME NEW i \in DOMAIN final
        PROVE  \/ Judgments!GradesOf(D, i) = {final[i]}
               \/ /\ D.adjudication.item = i /\ D.adjudication.grade = final[i]
                  /\ D.adjudication.by \notin Judgments!Annotators(D, i)
    <2>1. CASE i \in Judgments!Disputed(D)
      <3>1. D.adjudication.item = i
        BY <1>1, <2>1 DEF Judgments!Open
      <3>2. Judgments!Independent(D, i)
        BY <1>1, <1>2, <2>1 DEF Judgments!Spoiled
      <3> QED
        BY <1>2, <2>1, <3>1, <3>2 DEF Judgments!Independent
    <2>2. CASE i \notin Judgments!Disputed(D)
      BY <1>1, <1>2, <2>2, AgreedGrade
    <2> QED
      BY <2>1, <2>2
  <1>6. ASSUME NEW q \in Judgments!Queries(D)
        PROVE  \E i \in DOMAIN final : i[1] = q /\ final[i] > 0
    <2>1. PICK i \in DOMAIN final : i[1] = q /\ final[i] # 0
      BY <1>1 DEF Judgments!NothingRelevant
    <2>2. final[i] \in {0, 2, 3, Judgments!NoGrade}
      <3>1. Judgments!GradesOf(D, i) \subseteq {0, 2} /\ D.adjudication.grade \in {0, 3, Judgments!NoGrade}
        BY <1>1, JudgmentCells
      <3> QED
        BY <1>5, <3>1
    <2> QED
      BY <2>1, <2>2 DEF Judgments!NoGrade
  <1> QED
    BY <1>1, <1>2, <1>3, <1>4, <1>5, <1>6 DEF D, Judgments!JudgedIndependently

-----------------------------------------------------------------------------
(* GenerationQuota: for any number of requests, any limit, any window and any   *)
(* clock the quota holds, and Retry-After is long enough.                     *)

(* A set that lies within a finite set is finite and no larger. *)
LEMMA Within ==
  ASSUME NEW S, NEW T, IsFiniteSet(T), S \subseteq T
  PROVE  /\ IsFiniteSet(S)
         /\ Cardinality(S) \in Nat /\ Cardinality(T) \in Nat
         /\ Cardinality(S) <= Cardinality(T)
  BY FS_Subset, FS_CardinalityType

(* One more element makes a finite set at most one larger. *)
LEMMA OneMore ==
  ASSUME NEW S, NEW x, IsFiniteSet(S)
  PROVE  /\ IsFiniteSet(S \union {x})
         /\ Cardinality(S \union {x}) \in Nat
         /\ Cardinality(S \union {x}) <= Cardinality(S) + 1
  <1>1. Cardinality(S) \in Nat
    BY FS_CardinalityType
  <1>2. IsFiniteSet(S \union {x}) /\ Cardinality(S \union {x}) \in Nat
    BY FS_AddElement, FS_CardinalityType
  <1>3. Cardinality(S \union {x}) = Cardinality(S) \/ Cardinality(S \union {x}) = Cardinality(S) + 1
    BY FS_AddElement, Zenon
  <1> QED
    BY <1>1, <1>2, <1>3

(* Whole seconds and one more reach past what is left. *)
LEMMA RoundedUp ==
  ASSUME NEW left \in Nat
  PROVE  /\ RetryAfter(left) \in Nat
         /\ Second * RetryAfter(left) \in Nat
         /\ Second * RetryAfter(left) > left
  <1>1. Second \in Nat \ {0}
    BY QuotaAssumption
  <1> DEFINE q == left \div Second
  <1>2. q \in Nat /\ Second * q \in Nat /\ Second * q + Second > left
    BY <1>1, SMT
  <1>3. Second * (q + 1) = Second * q + Second
    BY <1>1, <1>2, SMT
  <1> QED
    BY <1>1, <1>2, <1>3 DEF RetryAfter

(* The inductive invariant: no reservation is later than the clock, no      *)
(* request read a later one, and at a promised time there is room.          *)

Past ==
  /\ IsFiniteSet(reservations)
  /\ \A x \in reservations : x.at <= clock
  /\ \A r \in Requests : arrived[r] <= clock

InWindowOf(x, them) == {y \in them : y.at \in x.at .. x.at + Window}

StillThere(p, them) == {x \in them : x.at >= p - Window}

RoomWhenPromised ==
  \A p \in promises : Cardinality(StillThere(p, reservations)) < MaxRequests

QuotaInv == TypeOK /\ Past /\ QuotaRespected /\ RoomWhenPromised

LEMMA WindowType == Window \in Nat
  BY QuotaAssumption, SMT DEF Window

(* One more reservation after a count below the limit. *)
LEMMA ReserveKeepsQuota ==
  ASSUME QuotaInv, NEW r \in Requests, Reserve(r)
  PROVE  QuotaRespected'
  <1> DEFINE n == [by |-> r, at |-> clock]
  <1>1. /\ clock \in Nat /\ arrived[r] \in Nat /\ arrived[r] <= clock
        /\ n \in [by : Requests, at : Nat] /\ n.at = clock
        /\ reservations' = reservations \union {n}
        /\ \A y \in reservations : y \in [by : Requests, at : Nat] /\ y.at <= clock
        /\ IsFiniteSet(reservations)
    BY DEF QuotaInv, TypeOK, Past, Reserve
  <1>2. IsFiniteSet(Counted(r)) /\ Cardinality(Counted(r)) \in Nat
        /\ Cardinality(Counted(r)) < MaxRequests
    BY <1>1, Within DEF Counted, Reserve
  <1> SUFFICES ASSUME NEW x \in reservations'
               PROVE  Cardinality(InWindowOf(x, reservations')) <= MaxRequests
    BY DEF QuotaRespected, InWindowOf
  <1>3. CASE x \in reservations /\ clock \notin x.at .. x.at + Window
    <2>1. InWindowOf(x, reservations') = InWindowOf(x, reservations)
      BY <1>1, <1>3 DEF InWindowOf
    <2> QED
      BY <2>1, <1>3 DEF QuotaInv, QuotaRespected, InWindowOf
  <1>4. CASE x = n \/ clock \in x.at .. x.at + Window
    <2>1. x.at \in Nat /\ x.at + Window >= clock
      BY <1>1, <1>4, WindowType
    <2>2. \A y \in reservations : y.at \in x.at .. x.at + Window => y.at >= arrived[r] - Window
      BY <1>1, <2>1, WindowType
    <2>3. InWindowOf(x, reservations') \subseteq Counted(r) \union {n}
      BY <1>1, <2>2 DEF InWindowOf, Counted
    <2>4. IsFiniteSet(Counted(r) \union {n})
          /\ Cardinality(Counted(r) \union {n}) <= Cardinality(Counted(r)) + 1
      BY <1>2, OneMore
    <2>5. Cardinality(InWindowOf(x, reservations')) <= Cardinality(Counted(r) \union {n})
          /\ Cardinality(InWindowOf(x, reservations')) \in Nat
          /\ Cardinality(Counted(r) \union {n}) \in Nat
      BY <2>3, <2>4, Within
    <2> QED
      BY <1>2, <2>4, <2>5, QuotaAssumption
  <1> QED
    BY <1>1, <1>3, <1>4

(* The promise of a denial: all who were counted but the oldest are still    *)
(* there at the promised time, and no more than the limit were counted.      *)
LEMMA LimitKeepsPromises ==
  ASSUME QuotaInv, NEW r \in Requests, Limit(r)
  PROVE  /\ promises' \in SUBSET Nat
         /\ RoomWhenPromised'
  <1> DEFINE Rows == [by : Requests, at : Nat]
  <1>1. /\ arrived[r] \in Nat /\ reservations' = reservations
        /\ IsFiniteSet(reservations) /\ promises \in SUBSET Nat
        /\ \A y \in reservations : y \in Rows /\ y.at \in Nat
    BY DEF QuotaInv, TypeOK, Past, Limit
  <1>2. \A p \in promises : Cardinality(StillThere(p, reservations)) < MaxRequests
    BY DEF QuotaInv, RoomWhenPromised
  <1>3. CASE ~UpToDate(r)
    <2>1. promises' = promises
      BY <1>3 DEF Limit
    <2> QED
      BY <1>1, <1>2, <2>1 DEF RoomWhenPromised, StillThere
  <1>4. CASE UpToDate(r)
    <2>1. PICK oldest \in Counted(r) :
            /\ \A x \in Counted(r) : oldest.at <= x.at
            /\ promises' = promises \union
              {arrived[r] + Second * RetryAfter(oldest.at + Window - arrived[r])}
      BY <1>4 DEF Limit
    <2> DEFINE left == oldest.at + Window - arrived[r]
               p == arrived[r] + Second * RetryAfter(left)
    <2>2. /\ oldest \in reservations /\ oldest.at \in Nat /\ oldest.at >= arrived[r] - Window
          /\ \A y \in reservations : y.at <= arrived[r]
          /\ left \in Nat
      BY <1>1, <1>4, WindowType DEF Counted, UpToDate
    <2>3. p \in Nat /\ p > oldest.at + Window
      <3> HIDE DEF left
      <3>1. Second * RetryAfter(left) \in Nat /\ Second * RetryAfter(left) > left
        BY <2>2, RoundedUp
      <3> QED
        BY <1>1, <2>2, <3>1, WindowType DEF left
    <2>4. Cardinality(Counted(r)) <= MaxRequests
      <3>1. Counted(r) \subseteq InWindowOf(oldest, reservations)
        BY <1>1, <2>1, <2>2, WindowType DEF Counted, InWindowOf
      <3>2. Cardinality(InWindowOf(oldest, reservations)) <= MaxRequests
        BY <2>2 DEF QuotaInv, QuotaRespected, InWindowOf
      <3>3. IsFiniteSet(InWindowOf(oldest, reservations))
        BY <1>1, Within DEF InWindowOf
      <3> QED
        BY <3>1, <3>2, <3>3, Within, QuotaAssumption
    <2>5. Cardinality(StillThere(p, reservations)) < MaxRequests
      <3> HIDE DEF p
      <3>1. StillThere(p, reservations) \subseteq Counted(r) \ {oldest}
        BY <1>1, <2>2, <2>3, WindowType DEF StillThere, Counted
      <3>2. IsFiniteSet(Counted(r)) /\ Cardinality(Counted(r)) \in Nat
        BY <1>1, Within DEF Counted
      <3>3. IsFiniteSet(Counted(r) \ {oldest})
            /\ Cardinality(Counted(r) \ {oldest}) = Cardinality(Counted(r)) - 1
        BY <3>2, <2>1, FS_RemoveElement
      <3>4. Cardinality(StillThere(p, reservations)) <= Cardinality(Counted(r) \ {oldest})
            /\ Cardinality(StillThere(p, reservations)) \in Nat
        BY <3>1, <3>3, Within
      <3> QED
        BY <2>4, <3>2, <3>3, <3>4, QuotaAssumption
    <2> HIDE DEF p
    <2>6. promises' = promises \union {p}
      BY <2>1 DEF p
    <2> QED
      BY <1>1, <1>2, <2>3, <2>5, <2>6 DEF RoomWhenPromised, StillThere
  <1> QED
    BY <1>3, <1>4

(* Who was not turned away when counting at or after a promised time. *)
LEMMA NotLimitedAfterPromise ==
  ASSUME QuotaInv, NEW r \in Requests, Limit(r), NEW p \in promises
  PROVE  arrived[r] < p
  <1> SUFFICES ASSUME arrived[r] >= p PROVE FALSE
    BY DEF QuotaInv, TypeOK
  <1>1. /\ arrived[r] \in Nat /\ p \in Nat /\ IsFiniteSet(reservations)
        /\ \A y \in reservations : y.at \in Nat
    BY DEF QuotaInv, TypeOK, Past
  <1>2. Counted(r) \subseteq StillThere(p, reservations)
    BY <1>1, WindowType DEF Counted, StillThere
  <1>3. IsFiniteSet(StillThere(p, reservations))
    BY <1>1, Within DEF StillThere
  <1>4. Cardinality(Counted(r)) <= Cardinality(StillThere(p, reservations))
        /\ Cardinality(Counted(r)) \in Nat
        /\ Cardinality(StillThere(p, reservations)) \in Nat
    BY <1>2, <1>3, Within
  <1>5. Cardinality(StillThere(p, reservations)) < MaxRequests
    BY DEF QuotaInv, RoomWhenPromised
  <1>6. Cardinality(Counted(r)) >= MaxRequests
    BY DEF Limit
  <1> QED
    BY <1>4, <1>5, <1>6, QuotaAssumption

LEMMA QuotaInit == Init => QuotaInv
  BY FS_EmptySet, QuotaAssumption
     DEF Init, QuotaInv, TypeOK, Past, QuotaRespected, RoomWhenPromised, Stages

LEMMA QuotaStepTypes ==
  ASSUME QuotaInv, [Next]_vars
  PROVE  TypeOK' /\ Past'
  <1> USE DEF QuotaInv, TypeOK, Past, Stages
  <1>1. CASE Tick
    BY <1>1 DEF Tick
  <1>2. ASSUME NEW r \in Requests, Arrive(r) PROVE TypeOK' /\ Past'
    BY <1>2, QuotaAssumption DEF Arrive
  <1>3. ASSUME NEW r \in Requests, LockUser(r) PROVE TypeOK' /\ Past'
    BY <1>3, QuotaAssumption DEF LockUser, RowIsFree
  <1>4. ASSUME NEW r \in Requests, Reserve(r) PROVE TypeOK' /\ Past'
    <2>1. /\ reservations' \in SUBSET [by : Requests, at : Nat]
          /\ IsFiniteSet(reservations')
          /\ \A x \in reservations' : x.at <= clock
      <3> DEFINE n == [by |-> r, at |-> clock]
      <3>1. n \in [by : Requests, at : Nat] /\ n.at = clock
        OBVIOUS
      <3>2. reservations' = reservations \union {n}
        BY <1>4 DEF Reserve
      <3> HIDE DEF n
      <3>3. IsFiniteSet(reservations \union {n})
        BY OneMore
      <3> QED
        BY <3>1, <3>2, <3>3
    <2> QED
      BY <1>4, <2>1, QuotaAssumption DEF Reserve, Leave
  <1>5. ASSUME NEW r \in Requests, Limit(r) PROVE TypeOK' /\ Past'
    <2>1. promises' \in SUBSET Nat
      BY <1>5, LimitKeepsPromises
    <2> QED
      BY <1>5, <2>1, QuotaAssumption DEF Limit, Leave
  <1>6. ASSUME NEW r \in Requests, Abort(r) PROVE TypeOK' /\ Past'
    BY <1>6, QuotaAssumption DEF Abort, Leave
  <1>7. CASE UNCHANGED vars
    BY <1>7 DEF vars
  <1> QED
    BY <1>1, <1>2, <1>3, <1>4, <1>5, <1>6, <1>7 DEF Next

LEMMA QuotaStepKeeps ==
  ASSUME QuotaInv, [Next]_vars
  PROVE  QuotaRespected' /\ RoomWhenPromised'
  <1>1. CASE UNCHANGED <<reservations, promises>>
    BY <1>1 DEF QuotaInv, QuotaRespected, RoomWhenPromised, StillThere
  <1>2. ASSUME NEW r \in Requests, Reserve(r) PROVE QuotaRespected' /\ RoomWhenPromised'
    BY <1>2, ReserveKeepsQuota DEF Reserve, RoomWhenPromised
  <1>3. ASSUME NEW r \in Requests, Limit(r) PROVE QuotaRespected' /\ RoomWhenPromised'
    BY <1>3, LimitKeepsPromises DEF QuotaInv, Limit, QuotaRespected
  <1> QED
    BY <1>1, <1>2, <1>3 DEF Next, Tick, Arrive, LockUser, Abort, vars


-----------------------------------------------------------------------------
(* The types of RecoveryExecutor's variables, as in RecoveryExecutorProofs,     *)
(* with effects that may land late                                          *)

(* RecoveryPolicy.decide answers with one of its actions. *)
LEMMA LateDecideType ==
  ASSUME NEW s \in Late!FailureSignal
  PROVE  Late!decide(s) \in Late!RecoveryAction
  BY DEF Late!decide, Late!ActionWhenTouched, Late!ActionWhenClean, Late!StopAction, Late!RecoveryAction,
         Late!callbackActions, Late!stopActions, Late!FailureSignal

(* The spec's idempotence bounds the classifier's, and nothing else changes. *)
LEMMA LateSignalFacts ==
  ASSUME NEW s \in Late!FailureSignal, operation \in Late!Calls
  PROVE  /\ Late!EffectiveSignal(s) \in Late!FailureSignal
         /\ Late!EffectiveSignal(s).idempotent => operation.idempotent
         /\ Late!EffectiveSignal(s).failure_class = s.failure_class
         /\ Late!EffectiveSignal(s).side_effect_uncertain = s.side_effect_uncertain
         /\ Late!EffectiveSignal(s).postcondition_verified = s.postcondition_verified
         /\ Late!TouchedState(Late!EffectiveSignal(s)) = Late!TouchedState(s)
  BY DEF Late!EffectiveSignal, Late!FailureSignal, Late!Calls, Late!TouchedState

(* The initial values have their types. *)
LEMMA LateTypeInit == Late!Init => Late!TypeOK
<1>1. Late!NoOutcome \in Late!Outcomes
  BY DEF Late!NoOutcome, Late!Outcomes
<1>2. 0 \in 0..MaxAttempts /\ 0 \in 0..MaxToolCalls /\ 0 \in 0..MaxElapsed /\ 0 \in Nat
  BY ServicesAssumption
<1> QED
  BY <1>1, <1>2, Zenon DEF Late!Init, Late!TypeOK

(* A call that ends has an outcome, or raised. *)
LEMMA LateEndFacts ==
  ASSUME NEW o \in Late!Outcomes, ending \in Late!Outcomes, Late!End(o)
  PROVE  pc' \in {"returned", "raised"} /\ ending' \in Late!Outcomes
  BY DEF Late!End

(* So does one that stops short. *)
LEMMA LateStoppedFacts ==
  ASSUME NEW x \in {"not_applied", "unknown"}, ending \in Late!Outcomes, Late!Stopped(x)
  PROVE  pc' \in {"returned", "raised"} /\ ending' \in Late!Outcomes
<1>1. [success |-> FALSE, external |-> x, over_budget |-> FALSE] \in Late!Outcomes
  BY DEF Late!Outcomes
<1> QED
  BY <1>1, LateEndFacts DEF Late!Stopped

(* Every step keeps every variable in its type; the counters stay within    *)
(* their budgets because the loop head checks before it counts.             *)
LEMMA LateTypeStep == Late!TypeOK /\ [Late!Next]_executor => Late!TypeOK'
<1> SUFFICES ASSUME Late!TypeOK, [Late!Next]_executor PROVE Late!TypeOK'
  OBVIOUS
<1> USE ServicesAssumption DEF Late!TypeOK
<1>1. CASE Late!StopOnBudget
  <2>1. Late!BudgetOutcome \in {"not_applied", "unknown"} /\ Late!StopAction \in Late!RecoveryAction
    BY DEF Late!BudgetOutcome, Late!StopAction, Late!RecoveryAction, Late!stopActions
  <2> QED
    BY <1>1, <2>1, LateStoppedFacts DEF Late!StopOnBudget
<1>2. CASE Late!Dispatch
  BY <1>2 DEF Late!Dispatch, Late!Exhausted
<1>3. CASE Late!OperationReturns
  <2>1. [success |-> TRUE, external |-> "succeeded", over_budget |-> elapsed >= MaxElapsed]
          \in Late!Outcomes
    BY DEF Late!Outcomes
  <2> QED
    BY <1>3, <2>1, LateEndFacts DEF Late!OperationReturns, Late!NewEffects
<1>4. ASSUME NEW s \in Late!FailureSignal, NEW fate \in Late!Fates, Late!OperationFails(s, fate)
      PROVE  Late!TypeOK'
  <2>1. lastAction' \in Late!RecoveryAction
    BY <1>4, LateSignalFacts, LateDecideType DEF Late!OperationFails
  <2>2. s.failure_class \in Late!FailureClass
    BY DEF Late!FailureSignal
  <2>3. effects' \in Nat /\ inFlight' \in Nat
    BY <1>4 DEF Late!OperationFails, Late!Suffer, Late!NewEffects
  <2>4. pc' \in {"head", "running", "verifying", "callback", "returned", "raised"}
        /\ ending' \in Late!Outcomes /\ verificationCalls' \in Nat
    BY <1>4, LateStoppedFacts DEF Late!OperationFails, Late!CarryOut, Late!Continue
  <2>5. unverified' \in BOOLEAN /\ failure' \in Late!FailureClass \union {"none"}
    BY <1>4, <2>2 DEF Late!OperationFails, Late!FailureSignal, Late!TouchedState
  <2> QED
    BY <1>4, <2>1, <2>3, <2>4, <2>5 DEF Late!OperationFails
<1>5. ASSUME NEW fate \in Late!Fates, Late!OperationRaises(fate) PROVE Late!TypeOK'
  BY <1>5 DEF Late!OperationRaises, Late!Suffer, Late!NewEffects
<1>6. CASE Late!VerifyRaises
  BY <1>6, LateStoppedFacts DEF Late!VerifyRaises
<1>7. CASE Late!VerifyReturns
  <2>1. [success |-> TRUE, external |-> "succeeded", over_budget |-> FALSE] \in Late!Outcomes
    BY DEF Late!Outcomes
  <2> QED
    BY <1>7, <2>1, LateEndFacts, LateStoppedFacts DEF Late!VerifyReturns, Late!Continue
<1>8. CASE Late!CallbackRaises
  BY <1>8, LateStoppedFacts DEF Late!CallbackRaises
<1>9. CASE Late!CallbackReturns
  BY <1>9 DEF Late!CallbackReturns, Late!AfterCallback
<1>10. CASE Late!Tick
  BY <1>10 DEF Late!Tick
<1>11. CASE Late!EffectLands
  BY <1>11 DEF Late!EffectLands
<1>12. CASE UNCHANGED executor
  BY <1>12 DEF executor
<1> QED
  BY <1>1, <1>2, <1>3, <1>4, <1>5, <1>6, <1>7, <1>8, <1>9, <1>10, <1>11, <1>12
     DEF Late!Next, Late!Step


-----------------------------------------------------------------------------
(* The types of the other components' variables, as far as their invariants    *)
(* leave them open                                                          *)

(* AgentGateway: the clock stays within its bound, and what is asked for is a   *)
(* call with a text.                                                        *)
GatewayTypes ==
  /\ instant \in 0..LastInstant /\ asked \in 0..instant
  /\ paper \in Gateway!Papers /\ standing \in {"unissued", "issued", "withdrawn"}
  /\ stood \in {"unissued", "issued", "withdrawn"}
  /\ gate \in {"idle", "verifying", "allowed", "refused", "approval_required"}
  /\ call \in Gateway!Calls /\ text \in {"none", "suspicious", "trusted"}
  /\ presented \in Gateway!Presentable \union {Gateway!NoGrant}

(* It begins so, *)
LEMMA GatewayTypesInit == Gateway!Init => GatewayTypes
  BY ServicesAssumption DEF Gateway!Init, GatewayTypes, Gateway!Calls

(* and every step keeps it so. *)
LEMMA GatewayTypesStep == GatewayTypes /\ Gateway!Step => GatewayTypes'
<1> SUFFICES ASSUME GatewayTypes, Gateway!Step PROVE GatewayTypes'
  OBVIOUS
<1> USE ServicesAssumption DEF GatewayTypes
<1>1. CASE Gateway!Tick
  BY <1>1 DEF Gateway!Tick, Gateway!request, Gateway!Presentable
<1>2. CASE Gateway!Authority
  BY <1>2 DEF Gateway!Authority, Gateway!request, Gateway!Presentable
<1>3. CASE Gateway!Authorize
  <2>1. /\ call' \in Gateway!Calls /\ text' \in {"none", "suspicious", "trusted"}
        /\ presented' \in Gateway!Presentable \union {Gateway!NoGrant} /\ UNCHANGED <<instant, paper, standing>>
    BY <1>3 DEF Gateway!Authorize
  <2>2. gate' \in {"refused", "allowed", "approval_required", "verifying"} /\ asked' \in 0..instant
        /\ stood' \in {"unissued", "issued", "withdrawn"}
    BY <1>3 DEF Gateway!Authorize, Gateway!Preflight
  <2> QED
    BY <2>1, <2>2 DEF Gateway!Presentable
<1>4. CASE Gateway!Validate
  BY <1>4 DEF Gateway!Validate, Gateway!request, Gateway!Presentable
<1>5. CASE Gateway!NextCall
  BY <1>5 DEF Gateway!NextCall, Gateway!Calls
<1> QED
  BY <1>1, <1>2, <1>3, <1>4, <1>5 DEF Gateway!Step

(* ToolPolicy: somebody asked for something, or nobody for anything. *)
ToolsTypes ==
  invocation \in Tools!ToolInvocationContext \union {Tools!Unasked} /\ ruling \in {"none", "authorized", "denied"}

(* It begins so and stays so. *)
LEMMA ToolsTypesKept ==
  /\ Tools!Init => ToolsTypes
  /\ ToolsTypes /\ Tools!Step => ToolsTypes'
<1>1. Tools!Init => ToolsTypes
  BY DEF Tools!Init, ToolsTypes
<1>2. ASSUME ToolsTypes, Tools!Step PROVE ToolsTypes'
  <2>1. CASE Tools!Register
    BY <1>2, <2>1 DEF ToolsTypes, Tools!Register
  <2>2. CASE Tools!Authorize
    BY <2>2 DEF ToolsTypes, Tools!Authorize
  <2> QED
    BY <1>2, <2>1, <2>2 DEF Tools!Step
<1> QED
  BY <1>1, <1>2

(* ReadinessGuardian: gates pass and block, or do not. *)
GatesTyped(matrix) == \A g \in matrix : g.pass \in BOOLEAN /\ g.blocking \in BOOLEAN

(* Every matrix that is imported or restored is of such gates; a validated      *)
(* artifact changes one, and a scan adds some.                               *)
LEMMA GatesAreTyped ==
  /\ \A id : \A entry \in Guardian!Entries(id) : GatesTyped(entry)
  /\ \A m \in Guardian!Matrices : GatesTyped(m)
  /\ GatesTyped(Guardian!Seed) /\ GatesTyped({})
  /\ \A m : GatesTyped(m) => GatesTyped({Guardian!Proven(g) : g \in m})
  /\ \A ok \in BOOLEAN : GatesTyped(Guardian!Scanned(Guardian!Found("LIVE-SCAN", ok)))
  /\ \A faults : GatesTyped(Guardian!Checked(faults))
<1>0. \A id, v : \A p, b \in BOOLEAN : GatesTyped({Guardian!Gate(id, p, b, v)})
  <2> TAKE id, v
  <2> TAKE p, b \in BOOLEAN
  <2>1. Guardian!Gate(id, p, b, v).pass = p /\ Guardian!Gate(id, p, b, v).blocking = b
    BY DEF Guardian!Gate
  <2> QED
    BY <2>1 DEF GatesTyped
<1>1. ASSUME NEW id, NEW entry \in Guardian!Entries(id) PROVE GatesTyped(entry)
  <2>1. GatesTyped({})
    BY DEF GatesTyped
  <2>2. /\ GatesTyped({Guardian!Gate(id, TRUE, TRUE, TRUE)}) /\ GatesTyped({Guardian!Gate(id, TRUE, TRUE, FALSE)})
        /\ GatesTyped({Guardian!Gate(id, FALSE, TRUE, TRUE)}) /\ GatesTyped({Guardian!Gate(id, TRUE, FALSE, TRUE)})
    BY <1>0, Zenon
  <2> QED
    BY <2>1, <2>2 DEF Guardian!Entries
<1>2. ASSUME NEW m \in Guardian!Matrices PROVE GatesTyped(m)
  <2>1. PICK a \in Guardian!Entries("SEC-REG"), b \in Guardian!Entries("RELEASE-EVIDENCE"),
             c \in Guardian!Entries("LIVE-TLS") : m = a \union b \union c
    BY DEF Guardian!Matrices
  <2>2. GatesTyped(a) /\ GatesTyped(b) /\ GatesTyped(c)
    BY <1>1
  <2> QED
    BY <2>1, <2>2 DEF GatesTyped
<1>3. GatesTyped(Guardian!Seed) /\ GatesTyped({})
  BY DEF Guardian!Seed, Guardian!Gate, GatesTyped
<1>4. ASSUME NEW m, GatesTyped(m) PROVE GatesTyped({Guardian!Proven(g) : g \in m})
  <2>1. ASSUME NEW g \in m PROVE Guardian!Proven(g).pass \in BOOLEAN /\ Guardian!Proven(g).blocking \in BOOLEAN
    <3>1. CASE g.id = "RELEASE-EVIDENCE"
      <4>1. Guardian!Proven(g) = [g EXCEPT !.pass = TRUE, !.verified = TRUE]
        BY <3>1 DEF Guardian!Proven
      <4> QED
        BY <1>4, <4>1 DEF GatesTyped
    <3>2. CASE g.id # "RELEASE-EVIDENCE"
      BY <1>4, <3>2 DEF GatesTyped, Guardian!Proven
    <3> QED
      BY <3>1, <3>2
  <2> QED
    BY <2>1 DEF GatesTyped
<1>5. ASSUME NEW ok \in BOOLEAN PROVE GatesTyped(Guardian!Scanned(Guardian!Found("LIVE-SCAN", ok)))
  BY <1>0 DEF Guardian!Scanned, Guardian!Found
<1>6. ASSUME NEW faults PROVE GatesTyped(Guardian!Checked(faults))
  <2> DEFINE tls == Guardian!Found("LIVE-TLS", "certificate" \notin faults)
             trust == Guardian!Found("TRUST-PRIVACY", "page" \notin faults)
             https == Guardian!Found("LIVE-HTTPS", faults \intersect {"silence", "redirect"} = {})
             headers == Guardian!Found("LIVE-HEADERS", "headers" \notin faults)
  <2>1. \A id : \A ok \in BOOLEAN : GatesTyped({Guardian!Found(id, ok)})
    BY <1>0 DEF Guardian!Found
  <2>2. GatesTyped({tls}) /\ GatesTyped({trust}) /\ GatesTyped({https}) /\ GatesTyped({headers})
    BY <2>1
  <2>3. Guardian!Checked(faults) \subseteq {tls, trust, https, headers}
    BY DEF Guardian!Checked
  <2> HIDE DEF tls, trust, https, headers
  <2> QED
    BY <2>2, <2>3 DEF GatesTyped
<1> QED
  BY <1>1, <1>2, <1>3, <1>4, <1>5, <1>6

(* Its variables are of their types. *)
GuardianTypes ==
  /\ validated \in BOOLEAN /\ screen \in {"GO", "NO-GO"} /\ head \in Guardian!Checkouts
  /\ scan \in {"never", "running", "passed", "failed"} /\ exit \in {"none", "GO", "NO-GO", "traceback"}
  /\ reply \in {"none", "validated", "rejected", "crashed"}
  /\ artifact \in Guardian!Artifacts \union {Guardian!NoArtifact}
  /\ proof \in Guardian!Artifacts \union {Guardian!NoArtifact}
  /\ GatesTyped(gates)

(* A decision is one of two, and a verdict one of three. *)
LEMMA GuardianAnswers ==
  /\ \A m, v : Guardian!Decision(m, v) \in {"GO", "NO-GO"}
  /\ \A a : Guardian!Verdict(a) \in {"validated", "rejected", "crashed"}
  BY DEF Guardian!Decision, Guardian!Verdict

(* It begins so, *)
LEMMA GuardianTypesInit == Guardian!Init => GuardianTypes
  BY GatesAreTyped, GuardianAnswers DEF Guardian!Init, GuardianTypes, Guardian!Checkouts

(* and every step keeps it so. *)
LEMMA GuardianTypesStep == GuardianTypes /\ Guardian!Step => GuardianTypes'
<1> SUFFICES ASSUME GuardianTypes, Guardian!Step PROVE GuardianTypes'
  OBVIOUS
<1> USE DEF GuardianTypes
<1>1. CASE Guardian!Import
  <2>1. GatesTyped(gates') /\ validated' = FALSE /\ screen' \in {"GO", "NO-GO"}
    BY <1>1, GatesAreTyped, GuardianAnswers DEF Guardian!Import, Guardian!Withdrawn, Guardian!Refresh
  <2> QED
    BY <1>1, <2>1 DEF Guardian!Import, Guardian!NoAnswer
<1>2. CASE Guardian!Restore
  <2>1. GatesTyped(gates') /\ screen' \in {"GO", "NO-GO"}
    BY <1>2, GatesAreTyped, GuardianAnswers DEF Guardian!Restore, Guardian!Refresh
  <2> QED
    BY <1>2, <2>1 DEF Guardian!Restore, Guardian!NoAnswer
<1>3. CASE Guardian!Upload
  <2>1. PICK a \in Guardian!Artifacts :
          /\ artifact' = a /\ reply' = Guardian!Verdict(a)
          /\ \/ /\ validated' = TRUE /\ gates' = {Guardian!Proven(g) : g \in gates} /\ Guardian!Refresh
                /\ proof' = a
             \/ validated' = FALSE /\ UNCHANGED <<gates, screen, proof>>
             \/ UNCHANGED <<validated, gates, screen, proof>>
    BY <1>3 DEF Guardian!Upload
  <2>2. GatesTyped(gates')
    BY <2>1, GatesAreTyped
  <2>3. screen' \in {"GO", "NO-GO"} /\ reply' \in {"none", "validated", "rejected", "crashed"}
    BY <2>1, GuardianAnswers DEF Guardian!Refresh
  <2>4. exit' = "none" /\ UNCHANGED <<scan, head>>
    BY <1>3 DEF Guardian!Upload
  <2> QED
    BY <2>1, <2>2, <2>3, <2>4
<1>4. CASE Guardian!StartScan
  <2>1. GatesTyped(gates')
    BY <1>4 DEF Guardian!StartScan, GatesTyped
  <2> QED
    BY <1>4, <2>1 DEF Guardian!StartScan, Guardian!NoAnswer
<1>5. CASE Guardian!EndScan
  <2>1. PICK faults \in {{}, {"certificate", "page"}, {"silence"}, {"redirect"}, {"headers"}}, ok \in BOOLEAN :
          \/ gates' = gates \union Guardian!Scanned(Guardian!Found("LIVE-SCAN", ok)) \union Guardian!Checked(faults)
          \/ gates' = gates \union Guardian!Scanned(Guardian!Found("LIVE-SCAN", ok))
    BY <1>5 DEF Guardian!EndScan
  <2>2. GatesTyped(gates')
    <3>1. GatesTyped(Guardian!Scanned(Guardian!Found("LIVE-SCAN", ok))) /\ GatesTyped(Guardian!Checked(faults))
      BY GatesAreTyped
    <3> QED
      BY <2>1, <3>1 DEF GatesTyped
  <2>3. screen' \in {"GO", "NO-GO"} /\ scan' \in {"passed", "failed"}
    BY <1>5, GuardianAnswers DEF Guardian!EndScan, Guardian!Refresh
  <2> QED
    BY <1>5, <2>2, <2>3 DEF Guardian!EndScan, Guardian!NoAnswer
<1>6. CASE Guardian!Checkout
  BY <1>6 DEF Guardian!Checkout, Guardian!NoAnswer
<1>7. CASE Guardian!RunGate
  <2>1. PICK m \in {{}, Guardian!Seed, Guardian!AllPass, {g \in Guardian!AllPass : g.id = "SEC-REG"}}, a \in Guardian!Artifacts \union {Guardian!NoArtifact} :
          /\ artifact' = a
          /\ reply' = IF a = Guardian!NoArtifact THEN "none" ELSE Guardian!Verdict(a)
          /\ exit' = CASE reply' = "rejected" -> "NO-GO"
                       [] reply' = "crashed"  -> "traceback"
                       [] OTHER -> Guardian!Decision(m, reply' = "validated")
    BY <1>7 DEF Guardian!RunGate
  <2>2. reply' \in {"none", "validated", "rejected", "crashed"} /\ exit' \in {"GO", "NO-GO", "traceback"}
    BY <2>1, GuardianAnswers
  <2> QED
    BY <1>7, <2>1, <2>2 DEF Guardian!RunGate
<1> QED
  BY <1>1, <1>2, <1>3, <1>4, <1>5, <1>6, <1>7 DEF Guardian!Step

(* GeoTenancy: rows are of the kinds there are, written by the people there     *)
(* are, and so are the rows a client may yet write.                          *)
RowTyped(r) == r.kind \in Geo!Kinds \union {"part", "audit"} /\ r.by \in {"amal", "bob"}

(* So are all the rows, roles and wishes. *)
GeoTypes ==
  /\ \A r \in rows : RowTyped(r)
  /\ \A m \in Everyone : m.role \in DOMAIN Geo!Permissions
  /\ \A c \in Clients : progress[c] # "new" => wish[c].user \in {"amal", "bob"}

(* It begins so, *)
LEMMA GeoTypesInit == Geo!Init => GeoTypes
<1> SUFFICES ASSUME Geo!Init PROVE GeoTypes
  OBVIOUS
<1>1. ASSUME NEW n, NEW by \in {"amal", "bob"} PROVE \A r \in Geo!Tree(n, by) : RowTyped(r)
  BY DEF Geo!Tree, Geo!Row, RowTyped, Geo!Kinds
<1>2. \A r \in rows : RowTyped(r)
  BY <1>1 DEF Geo!Init
<1>3. \A m \in Everyone : m.role \in DOMAIN Geo!Permissions
  BY DEF Geo!Init, Everyone, Geo!Member, Geo!Permissions
<1>4. \A c \in Clients : progress[c] = "new"
  BY DEF Geo!Init
<1> QED
  BY <1>2, <1>3, <1>4 DEF GeoTypes

(* a client's own rows are so, *)
LEMMA WishedTyped ==
  ASSUME NEW c \in Clients, wish[c].kind \in Geo!Kinds, wish[c].user \in {"amal", "bob"}
  PROVE  RowTyped(Geo!New(c)) /\ \A r \in Geo!Belongings(c) : RowTyped(r)
<1>1. RowTyped(Geo!New(c))
  BY DEF Geo!New, Geo!Kinds, Geo!Row, RowTyped
<1>2. ASSUME NEW r \in Geo!Belongings(c) PROVE RowTyped(r)
  BY DEF Geo!Belongings, Geo!Row, RowTyped
<1> QED
  BY <1>1, <1>2

(* and every step keeps it so. *)
LEMMA GeoTypesStep == GeoInv /\ GeoTypes /\ Geo!Step => GeoTypes'
<1> SUFFICES ASSUME GeoInv, GeoTypes, Geo!Step PROVE GeoTypes'
  OBVIOUS
<1>1. CASE Geo!RemoveMember
  BY <1>1 DEF Geo!RemoveMember, GeoTypes, Everyone
<1>2. ASSUME NEW c \in Clients, Geo!ClientStep(c) PROVE GeoTypes'
  <2>1. CASE Geo!Begin(c)
    <3>1. \E w : wish' = [wish EXCEPT ![c] = w] /\ w.user \in {"amal", "bob"}
      <4>1. PICK user \in {"amal", "bob"}, list \in BOOLEAN, kind \in Geo!Kinds,
                 org \in Geo!Ids("organization"), project \in Geo!Ids("project") :
              \E parent \in CASE kind = "query" -> Geo!Ids("set") [] kind = "run" -> Geo!Ids("query")
                             [] OTHER -> {project},
                 key \in {1, 9}, parts \in IF kind = "run" THEN 0..MaxParts ELSE {0} :
                /\ list => kind \in {"project", "set", "query"} /\ key = 1
                /\ kind \in {"query", "run"} => key = 1
                /\ kind = "organization" => org = 1 /\ project = 1
                /\ kind = "project" => project = 1
                /\ wish' = [wish EXCEPT ![c] =
                     [user |-> user, list |-> list, kind |-> kind, org |-> org, project |-> project,
                      parent |-> parent, key |-> key, parts |-> parts]]
                /\ progress' = [progress EXCEPT ![c] =
                     CASE kind = "organization" -> "flush" [] kind = "run" -> "lookup" [] OTHER -> "access"]
        BY <2>1 DEF Geo!Begin
      <4> DEFINE w(parent, key, parts) ==
                   [user |-> user, list |-> list, kind |-> kind, org |-> org, project |-> project,
                    parent |-> parent, key |-> key, parts |-> parts]
      <4>2. PICK parent \in CASE kind = "query" -> Geo!Ids("set") [] kind = "run" -> Geo!Ids("query")
                            [] OTHER -> {project},
                 key \in {1, 9}, parts \in IF kind = "run" THEN 0..MaxParts ELSE {0} :
              wish' = [wish EXCEPT ![c] = w(parent, key, parts)]
        BY <4>1
      <4>3. w(parent, key, parts).user \in {"amal", "bob"}
        OBVIOUS
      <4> QED
        BY <4>2, <4>3
    <3>2. PICK w : wish' = [wish EXCEPT ![c] = w] /\ w.user \in {"amal", "bob"}
      BY <3>1
    <3>3. \A d \in Clients \ {c} : progress'[d] = progress[d] /\ wish'[d] = wish[d]
      BY <2>1, <3>2 DEF Geo!Begin, GeoInv
    <3>4. \A d \in Clients : progress'[d] # "new" => wish'[d].user \in {"amal", "bob"}
      <4>1. wish'[c] = w
        BY <3>2 DEF GeoInv
      <4> QED
        BY <3>2, <3>3, <4>1 DEF GeoTypes
    <3> QED
      BY <2>1, <3>4 DEF Geo!Begin, GeoTypes, Everyone
  <2>2. ASSUME UNCHANGED <<rows, members, former, wish>>, progress[c] # "new",
               \A d \in Clients \ {c} : progress'[d] = progress[d]
        PROVE  GeoTypes'
    BY <2>2 DEF GeoTypes, Everyone
  <2>3. CASE Geo!Access(c) \/ Geo!Lookup(c) \/ Geo!Fail(c) \/ Geo!List(c) \/ Geo!Complete(c) \/ Geo!Flush(c)
    <3>1. UNCHANGED <<rows, members, former, wish>> /\ progress[c] # "new"
      BY <2>3 DEF Geo!Access, Geo!Lookup, Geo!Fail, Geo!List, Geo!Complete, Geo!Flush, Geo!Durable
    <3>2. \A d \in Clients \ {c} : progress'[d] = progress[d]
      BY <2>3 DEF Geo!Access, Geo!Lookup, Geo!Fail, Geo!List, Geo!Complete, Geo!Flush, Geo!Refuse, GeoInv
    <3> QED
      BY <2>2, <3>1, <3>2
  <2>4. CASE Geo!Commit(c)
    <3>1. /\ progress[c] = "commit" /\ rows' = rows \union staged[c] /\ members' = members \union Geo!Owner(c)
          /\ UNCHANGED <<former, wish>>
      BY <2>4 DEF Geo!Commit
    <3>2. wish[c].kind \in Geo!Kinds /\ staged[c] = {Geo!New(c)} \union Geo!Belongings(c)
      BY <3>1 DEF GeoInv, RequestInv
    <3>3. wish[c].user \in {"amal", "bob"}
      BY <3>1 DEF GeoTypes
    <3>4. \A r \in staged[c] : RowTyped(r)
      BY <3>2, <3>3, WishedTyped
    <3>5. \A m \in Geo!Owner(c) : m.role \in DOMAIN Geo!Permissions
      BY DEF Geo!Owner, Geo!Member, Geo!Permissions
    <3>6. \A d \in Clients \ {c} : progress'[d] = progress[d]
      BY <2>4 DEF Geo!Commit, GeoInv
    <3>7. \A d \in Clients : progress'[d] # "new" => wish'[d].user \in {"amal", "bob"}
      BY <3>1, <3>3, <3>6 DEF GeoTypes
    <3>8. (\A r \in rows : RowTyped(r))'
      BY <3>1, <3>4 DEF GeoTypes, RowTyped
    <3>9. (\A m \in Everyone : m.role \in DOMAIN Geo!Permissions)'
      BY <3>1, <3>5 DEF GeoTypes, Everyone
    <3> QED
      BY <3>7, <3>8, <3>9 DEF GeoTypes
  <2> QED
    BY <1>2, <2>1, <2>3, <2>4 DEF Geo!ClientStep
<1> QED
  BY <1>1, <1>2 DEF Geo!Step

(* RetrievalJudgments: there are final judgments only of what was finalized.     *)
JudgmentsTypes ==
  /\ outcome \in {"none", "refused", "finalized"} /\ promoted \in BOOLEAN
  /\ outcome # "finalized" => DOMAIN final = {}

(* It begins so and stays so. *)
LEMMA JudgmentsTypesKept ==
  /\ Judgments!Init => JudgmentsTypes
  /\ JudgmentsTypes /\ Judgments!Step => JudgmentsTypes'
<1>1. ASSUME Judgments!Init PROVE JudgmentsTypes
  <2>1. outcome = "none" /\ promoted = FALSE /\ final = <<>>
    BY <1>1 DEF Judgments!Init
  <2>2. DOMAIN final = {}
    <3>1. Len(final) = 0 /\ final \in Seq({})
      BY <2>1, EmptySeq
    <3> QED
      BY <3>1, LenProperties
  <2> QED
    BY <2>1, <2>2 DEF JudgmentsTypes
<1>2. ASSUME JudgmentsTypes, Judgments!Step PROVE JudgmentsTypes'
  <2>1. CASE Judgments!Finalize
    <3>1. PICK d : IF Judgments!Refused(d)
                   THEN outcome' = "refused" /\ UNCHANGED <<final, promoted>>
                   ELSE outcome' = "finalized" /\ promoted' = Judgments!Promoted(d)
      BY <2>1 DEF Judgments!Finalize
    <3>2. outcome = "none"
      BY <2>1 DEF Judgments!Finalize
    <3>3. Judgments!Promoted(d) \in BOOLEAN
      BY DEF Judgments!Promoted
    <3>4. outcome' \in {"none", "refused", "finalized"} /\ (outcome' # "finalized" => DOMAIN final' = {})
      BY <1>2, <3>1, <3>2 DEF JudgmentsTypes
    <3>5. promoted' \in BOOLEAN
      BY <1>2, <3>1, <3>3 DEF JudgmentsTypes
    <3> QED
      BY <3>4, <3>5 DEF JudgmentsTypes
  <2>2. CASE Judgments!Compare
    BY <1>2, <2>2 DEF Judgments!Compare, JudgmentsTypes
  <2> QED
    BY <1>2, <2>1, <2>2 DEF Judgments!Step
<1> QED
  BY <1>1, <1>2

(* A final judgment is of an item that was annotated, and is a grade: the one    *)
(* that was settled on, or the one everybody gave.                           *)
LEMMA FinalGrades ==
  ASSUME NEW d \in Judgments!Datasets, NEW i \in DOMAIN Judgments!Final(d)
  PROVE  i \in Judgments!Items /\ Judgments!Final(d)[i] \in Judgments!Grades
<1>1. i \in Judgments!Annotated(d) /\ i \notin Judgments!Open(d)
  BY DEF Judgments!Final
<1>2. i \in Judgments!Items
  <2>1. PICK c \in Judgments!Cells : i = c[1]
    BY <1>1 DEF Judgments!Annotated, Judgments!Rows
  <2> QED
    BY <2>1 DEF Judgments!Cells, Judgments!Items
<1>3. CASE i \in Judgments!Disputed(d)
  <2>1. Judgments!Final(d)[i] = d.adjudication.grade /\ d.adjudication.item = i
    BY <1>1, <1>3 DEF Judgments!Final, Judgments!Open
  <2>2. i # Judgments!Zero
    BY <1>2 DEF Judgments!Items, Judgments!Zero
  <2>3. d.adjudication.grade \in {0, 3}
    BY <2>1, <2>2 DEF Judgments!Datasets, Judgments!NoAdjudication
  <2> QED
    BY <1>2, <2>1, <2>3 DEF Judgments!Grades
<1>4. CASE i \notin Judgments!Disputed(d)
  <2>1. Judgments!Final(d)[i] = (CHOOSE g \in Judgments!GradesOf(d, i) : TRUE)
    BY <1>1, <1>4 DEF Judgments!Final
  <2>2. Judgments!GradesOf(d, i) # {} /\ Judgments!GradesOf(d, i) \subseteq {0, 2}
    BY <1>1, JudgmentCells
  <2>3. Judgments!Final(d)[i] \in Judgments!GradesOf(d, i)
    BY <2>1, <2>2
  <2> QED
    BY <1>2, <2>2, <2>3 DEF Judgments!Grades
<1> QED
  BY <1>3, <1>4

(* So the judgments have their types. *)
LEMMA JudgmentsTyped == JudgmentsInv /\ JudgmentsTypes => Judgments!TypeOK
<1> SUFFICES ASSUME JudgmentsInv, JudgmentsTypes PROVE Judgments!TypeOK
  OBVIOUS
<1>1. ASSUME NEW i \in DOMAIN final PROVE i \in Judgments!Items /\ final[i] \in Judgments!Grades
  <2>1. outcome = "finalized"
    BY DEF JudgmentsTypes
  <2>2. dataset \in Judgments!Datasets /\ final = Judgments!Final(dataset)
    BY <2>1 DEF JudgmentsInv
  <2> QED
    BY <2>2, FinalGrades
<1> QED
  BY <1>1 DEF JudgmentsTypes, Judgments!TypeOK

-----------------------------------------------------------------------------
(* The properties                                                          *)

(* The inductive invariant: the parts of the components do not depend on which  *)
(* one is active.                                                          *)
AllInv ==
  /\ active \in Components
  /\ QuotaInv
  /\ LateInv
  /\ GatewayInv
  /\ TeamInv
  /\ GeoInv
  /\ JudgmentsInv /\ Comparable(ratings)
  /\ StagingInv
  /\ PageInv
  /\ GuardianInv
  /\ AnswersInv
  /\ AdminInv
  /\ BridgeInv
  /\ ToolsInv

(* What it leaves open of the types *)
AllTypes ==
  /\ Late!TypeOK
  /\ GatewayTypes
  /\ GeoTypes
  /\ JudgmentsTypes
  /\ GuardianTypes
  /\ ToolsTypes

(* Every component begins within its part, whichever is active. *)
LEMMA AllBegin == AllInit => AllInv /\ AllTypes
  <1> SUFFICES ASSUME AllInit PROVE AllInv /\ AllTypes
    OBVIOUS
  <1>1. /\ active \in Components
        /\ Init /\ Late!Init /\ Gateway!Init /\ Team!Init /\ Geo!Init /\ Judgments!Init /\ Staging!Init
        /\ Page!Init /\ Guardian!Init /\ Answers!Init /\ Admin!Init /\ Bridge!Init /\ Tools!Init
    BY DEF AllInit
  <1>2. Comparable(ratings)
    BY <1>1, PairsComparable DEF Judgments!Init
  <1>3. AllInv
    BY <1>1, <1>2, QuotaInit, LateInit, GatewayInit, TeamInit, GeoInit, JudgmentsInit, StagingInit, PageInit,
       GuardianInit, AnswersInit, AdminInit, BridgeInit, ToolsInit DEF AllInv
  <1>4. AllTypes
    BY <1>1, LateTypeInit, GatewayTypesInit, GeoTypesInit, JudgmentsTypesKept, GuardianTypesInit, ToolsTypesKept
       DEF AllTypes
  <1> QED
    BY <1>3, <1>4

(* A step of one component leaves the parts of the others as they are. *)
LEMMA AllKept == AllInv /\ [AllNext]_everything => AllInv'
  <1> SUFFICES ASSUME AllInv, [AllNext]_everything PROVE AllInv'
    OBVIOUS
  <1>1. (active \in Components)'
    BY ComponentSteps DEF AllInv, Components
  <1>2. QuotaInv'
    <2>1. [Next]_vars
      BY ComponentSteps
    <2> QED
      BY <2>1, QuotaStepTypes, QuotaStepKeeps DEF AllInv, QuotaInv
  <1>3. LateInv'
    <2>1. ASSUME LateInv, UNCHANGED executor PROVE LateInv'
      BY <2>1 DEF executor, LateInv, LateTyped, SpentOnce, Late!OptedIntoRepeat
    <2> QED
      BY <2>1, ComponentSteps, LateStepInv DEF AllInv
  <1>4. GatewayInv'
    <2>1. ASSUME GatewayInv, UNCHANGED gateway PROVE GatewayInv'
      BY <2>1 DEF gateway, GatewayInv, GrantStands, Gateway!Current
    <2> QED
      BY <2>1, ComponentSteps, GatewayStepInv DEF AllInv
  <1>5. TeamInv'
    <2>1. ASSUME TeamInv, UNCHANGED planning PROVE TeamInv'
      BY <2>1 DEF planning, TeamInv
    <2> QED
      BY <2>1, ComponentSteps, TeamNextKeeps DEF AllInv
  <1>6. GeoInv'
    <2>1. ASSUME GeoInv, UNCHANGED tenancy PROVE GeoInv'
      <3>1. UNCHANGED <<members, former, rows, staged, progress, wish, shown>>
        BY <2>1 DEF tenancy
      <3>2. \A c \in Clients : RequestInv(c)'
        BY <2>1, <3>1, RequestKept DEF GeoInv, Everyone
      <3>3. (\A r \in rows : Fits(r))' /\ (\A m \in Everyone : Geo!Has("organization", m.org, m.org))'
        BY <2>1, <3>1, Lasting DEF GeoInv, Everyone
      <3>4. (\A r, s \in Live : Geo!Clash(r, s) => r = s)'
        BY <2>1, <3>1 DEF GeoInv, Live, Geo!Clash
      <3> QED
        BY <2>1, <3>1, <3>2, <3>3, <3>4 DEF GeoInv
    <2> QED
      BY <2>1, ComponentSteps, GeoStepInv DEF AllInv
  <1>7. JudgmentsInv' /\ Comparable(ratings')
    <2>1. ASSUME JudgmentsInv, UNCHANGED judging PROVE JudgmentsInv'
      BY <2>1 DEF judging, JudgmentsInv
    <2>2. ASSUME Comparable(ratings), UNCHANGED judging PROVE Comparable(ratings')
      <3>1. ratings' = ratings
        BY <2>2 DEF judging
      <3> QED
        BY <2>2, <3>1
    <2> QED
      BY <2>1, <2>2, ComponentSteps, JudgmentsStepInv, RatingsCompared DEF AllInv
  <1>8. StagingInv'
    <2>1. ASSUME StagingInv, UNCHANGED staging PROVE StagingInv'
      BY <2>1 DEF staging, StagingInv, StagingTyped, SearchKnows, FitToPass, Staging!Busy
    <2> QED
      BY <2>1, ComponentSteps, StagingStepInv DEF AllInv
  <1>9. PageInv'
    <2>1. ASSUME PageInv, UNCHANGED page PROVE PageInv'
      BY <2>1 DEF page, PageInv, PageTyped, PageCoherent, QuestionsOwned, Page!OneUserAtATime
    <2> QED
      BY <2>1, ComponentSteps, PageStepInv DEF AllInv
  <1>10. GuardianInv'
    <2>1. ASSUME GuardianInv, UNCHANGED guardian PROVE GuardianInv'
      <3>1. Grounded'
        BY <2>1 DEF guardian, GuardianInv, Grounded, Earned
      <3>2. ScanBlocks'
        BY <2>1 DEF guardian, GuardianInv, ScanBlocks, Guardian!Gate
      <3> QED
        BY <2>1, <3>1, <3>2 DEF guardian, GuardianInv
    <2> QED
      BY <2>1, ComponentSteps, GuardianStepInv DEF AllInv
  <1>11. AnswersInv'
    BY ComponentSteps, AnswersNextKeeps, AnswersKept DEF AllInv
  <1>12. AdminInv'
    <2>1. ASSUME AdminInv, UNCHANGED admin PROVE AdminInv'
      BY <2>1 DEF admin, AdminInv, AdminTyped, ButtonsOffered, Admin!ButtonsOfWhatIsShown
    <2> QED
      BY <2>1, ComponentSteps, AdminStepInv DEF AllInv
  <1>13. BridgeInv'
    <2>1. ASSUME BridgeInv, UNCHANGED bridge PROVE BridgeInv'
      BY <2>1 DEF bridge, BridgeInv, BridgeTyped, SessionsOpened, LoginsCoherent, Coherent, DialogsHeld, Shown
    <2> QED
      BY <2>1, ComponentSteps, BridgeStepInv DEF AllInv
  <1>14. ToolsInv'
    BY ToolsKept, ComponentSteps, ToolsStepInv DEF AllInv
  <1> QED
    BY <1>1, <1>2, <1>3, <1>4, <1>5, <1>6, <1>7, <1>8, <1>9, <1>10, <1>11, <1>12, <1>13, <1>14 DEF AllInv

(* So it does with the types. *)
LEMMA TypesKept == AllInv /\ AllTypes /\ [AllNext]_everything => AllTypes'
  <1> SUFFICES ASSUME AllInv, AllTypes, [AllNext]_everything PROVE AllTypes'
    OBVIOUS
  <1>1. (Late!TypeOK)'
    <2>1. [Late!Next]_executor
      BY ComponentSteps
    <2> QED
      BY <2>1, LateTypeStep DEF AllTypes
  <1>2. GatewayTypes'
    <2>1. ASSUME GatewayTypes, UNCHANGED gateway PROVE GatewayTypes'
      BY <2>1 DEF gateway, GatewayTypes, Gateway!Presentable
    <2> QED
      BY <2>1, ComponentSteps, GatewayTypesStep DEF AllTypes
  <1>3. GeoTypes'
    <2>1. ASSUME GeoTypes, UNCHANGED tenancy PROVE GeoTypes'
      BY <2>1 DEF tenancy, GeoTypes, Everyone
    <2> QED
      BY <2>1, ComponentSteps, GeoTypesStep DEF AllInv, AllTypes
  <1>4. JudgmentsTypes'
    <2>1. ASSUME JudgmentsTypes, UNCHANGED judging PROVE JudgmentsTypes'
      BY <2>1 DEF judging, JudgmentsTypes
    <2> QED
      BY <2>1, ComponentSteps, JudgmentsTypesKept DEF AllTypes
  <1>5. GuardianTypes'
    <2>1. ASSUME GuardianTypes, UNCHANGED guardian PROVE GuardianTypes'
      <3>1. UNCHANGED <<gates, validated, screen, scan, head, artifact, reply, exit, proof>>
        BY <2>1 DEF guardian
      <3> QED
        BY <2>1, <3>1 DEF GuardianTypes
    <2> QED
      BY <2>1, ComponentSteps, GuardianTypesStep DEF AllTypes
  <1>6. ToolsTypes'
    <2>1. ASSUME ToolsTypes, UNCHANGED tools PROVE ToolsTypes'
      BY <2>1 DEF tools, ToolsTypes
    <2> QED
      BY <2>1, ComponentSteps, ToolsTypesKept DEF AllTypes
  <1> QED
    BY <1>1, <1>2, <1>3, <1>4, <1>5, <1>6 DEF AllTypes

(* The invariant and the types hold throughout. *)
THEOREM AllInvariance == AllSpec => [](AllInv /\ AllTypes)
  BY AllBegin, AllKept, TypesKept, PTL DEF AllSpec

(* The types that TypeOK states of each component follow from them. *)
LEMMA GatewayTyped == GatewayTypes => Gateway!TypeOK
  BY DEF GatewayTypes, Gateway!TypeOK

(* What is staged of a creation is what its request has got to. *)
LEMMA GeoTyped == GeoInv /\ GeoTypes => Geo!TypeOK
  <1> SUFFICES ASSUME GeoInv, GeoTypes PROVE Geo!TypeOK
    OBVIOUS
  <1>1. \A c \in Clients : staged[c] # {} => progress[c] \in {"complete", "commit"}
    BY DEF GeoInv, RequestInv
  <1>2. progress \in [Clients -> {"new", "access", "lookup", "list", "flush", "complete", "commit",
                               "created", "listed", "refused"}]
    BY DEF GeoInv
  <1>3. \A r \in rows : r.kind \in Geo!Kinds \union {"part", "audit"} /\ r.by \in {"amal", "bob"}
    BY DEF GeoTypes, RowTyped
  <1>4. \A m \in members \union former : m.role \in DOMAIN Geo!Permissions
    BY DEF GeoTypes, Everyone
  <1> QED
    BY <1>1, <1>2, <1>3, <1>4 DEF Geo!TypeOK

(* No socket is leaked, and no more are open than there are workers. *)
LEMMA StagingIsTyped == StagingInv => Staging!TypeOK
  <1> SUFFICES ASSUME StagingInv PROVE Staging!TypeOK
    OBVIOUS
  <1>1. socket \in [Staging!Exchanges -> {"none", "raw", "connection", "leaked"}]
    BY DEF StagingInv, StagingTyped
  <1>2. Staging!Cardinality(Staging!Busy) <= Concurrency
    BY DEF StagingInv, Staging!Cardinality, Cardinality
  <1> QED
    BY <1>1, <1>2 DEF StagingInv, StagingTyped, Staging!TypeOK

(* The page, *)
LEMMA PageIsTyped == PageInv => Page!TypeOK
  <1> SUFFICES ASSUME PageInv PROVE Page!TypeOK
    OBVIOUS
  <1>1. login.phase \in {"idle", "posted", "me", "welcome"}
    BY DEF PageInv, PageTyped
  <1> QED
    BY <1>1 DEF PageInv, PageTyped, Page!TypeOK

(* the matrix and what was answered about it, *)
LEMMA GuardianIsTyped == GuardianTypes => Guardian!TypeOK
  BY DEF GuardianTypes, GatesTyped, Guardian!TypeOK

(* the admin page, *)
LEMMA AdminIsTyped == AdminInv => Admin!TypeOK
  <1> SUFFICES ASSUME AdminInv PROVE Admin!TypeOK
    OBVIOUS
  <1>1. selectedPanel.item \in Admin!Statuses \union {Admin!NoItem} /\ selectedPanel.buttons \subseteq Admin!Actions
    BY DEF AdminInv, AdminTyped
  <1> QED
    BY <1>1 DEF AdminInv, AdminTyped, Admin!TypeOK

(* the dialogs of the second factor, *)
LEMMA BridgeIsTyped == BridgeInv => Bridge!TypeOK
  <1> SUFFICES ASSUME BridgeInv PROVE Bridge!TypeOK
    OBVIOUS
  <1>1. \A l \in Logins : fetching[l].by \in 0..LastSessionOpened /\ fetching[l].enrolling \in BOOLEAN
    <2> SUFFICES ASSUME NEW l \in Logins
                 PROVE  fetching[l].by \in 0..LastSessionOpened /\ fetching[l].enrolling \in BOOLEAN
      OBVIOUS
    <2>1. fetching[l] \in Fetches
      BY DEF BridgeInv, BridgeTyped
    <2> QED
      BY <2>1 DEF Fetches
  <1>2. /\ required \subseteq Bridge!People /\ enrolled \subseteq Bridge!People /\ pending \subseteq Bridge!People
        /\ jar \in 0..LastSessionOpened /\ dialogs \in Seq(Logins)
    BY DEF BridgeInv, BridgeTyped
  <1> QED
    BY <1>1, <1>2 DEF Bridge!TypeOK

(* and the tools. *)
LEMMA ToolsAreTyped == ToolsInv /\ ToolsTypes => Tools!TypeOK
  BY DEF ToolsInv, ToolsTypes, Tools!TypeOK

(* Every variable of the component that is active keeps its type: counters     *)
(* within their budgets, sockets, dialogs and workers within their limits, and  *)
(* no phase but those the code has.                                         *)
THEOREM AlwaysTyped == AllSpec => []AllTyped
  <1>1. AllInv /\ AllTypes => AllTyped
    <2> SUFFICES ASSUME AllInv, AllTypes PROVE AllTyped
      OBVIOUS
    <2>1. TypeOK /\ Late!TypeOK /\ Gateway!TypeOK /\ Team!TypeOK
      BY GatewayTyped, TeamTypes DEF AllInv, AllTypes, QuotaInv
    <2>2. Geo!TypeOK /\ Judgments!TypeOK /\ Staging!TypeOK /\ Page!TypeOK
      BY GeoTyped, JudgmentsTyped, StagingIsTyped, PageIsTyped DEF AllInv, AllTypes
    <2>3. Guardian!TypeOK /\ Answers!TypeOK /\ Admin!TypeOK /\ Bridge!TypeOK /\ Tools!TypeOK
      BY GuardianIsTyped, AnswersTypes, AdminIsTyped, BridgeIsTyped, ToolsAreTyped DEF AllInv, AllTypes
    <2>4. active \in Components
      BY DEF AllInv
    <2> QED
      BY <2>1, <2>2, <2>3, <2>4 DEF Components, AllTyped
  <1> QED
    BY <1>1, AllInvariance, PTL

(* A call that needs approval passes only on a grant that the authority        *)
(* signed for this call and had not withdrawn, in time, and no grant overrules *)
(* the policy or the injection check (mcp_gateway.py, approval.py); and a tool *)
(* that has an effect brought a permission, and a key or an approval           *)
(* (tool_policy.py).                                                        *)
THEOREM AlwaysApproved == AllSpec => []ApprovedExactly
  <1>1. AllInv => ApprovedExactly
    BY GatewayApproves, ServicesAssumption DEF AllInv, ToolsInv, ApprovedExactly
  <1> QED
    BY <1>1, AllInvariance, PTL

(* In whatever order matrices, artifacts, scans and checkouts come: GO rests   *)
(* on an artifact that was validated for the matrix, on verified gates, and    *)
(* not on a scan that failed (app.py, readiness_gate.py).                    *)
THEOREM GoAlwaysEarned == AllSpec => []GoIsEarned
  <1>1. AllInv => GoIsEarned
    BY GuardianEarns DEF AllInv, GoIsEarned
  <1> QED
    BY <1>1, AllInvariance, PTL

(* What the assistant page shows belongs to one user, what the admin page's     *)
(* buttons do to the item they were made for, and a login reaches the admin     *)
(* page with its second factor settled, however late the responses come         *)
(* (assistant.js, admin.js, mfa-bridge.js).                                 *)
THEOREM OneUserAlways == AllSpec => []OneUserAtATime
  <1>1. AllInv => OneUserAtATime
    BY BridgeSettles DEF AllInv, PageInv, AdminInv, OneUserAtATime
  <1> QED
    BY <1>1, AllInvariance, PTL

(* However late an effect lands, an operation that is not declared idempotent,  *)
(* whose caller did not opt in to a second dispatch after an observed absence   *)
(* and gave no replan callback, is applied at most once (runtime.py,            *)
(* reliability.py).                                                        *)
THEOREM AtMostOnceAlways == AllSpec => []AtMostOnceUnlessOptedIn
  <1>1. AllInv => AtMostOnceUnlessOptedIn
    BY LateOnce DEF AllInv
  <1> QED
    BY <1>1, AllInvariance, PTL

(* Whatever ids requests combine and however their transactions overlap, a row    *)
(* belongs with its parents to one organization, was written and shown by       *)
(* leave of a membership, slugs are unique, and no creation is left half made    *)
(* (geo/query_routes.py, geo/routes.py, geo/tenant.py, geo/evidence_store.py).   *)
THEOREM TenantsStayApart == AllSpec => []TenantsApart
  <1>1. AllInv => TenantsApart
    BY GeoKeepsApart DEF AllInv, TenantsApart
  <1> QED
    BY <1>1, AllInvariance, PTL

(* The evidence a promotion rests on: final judgments are of two people or      *)
(* more who agree or settled by somebody else, every query has something        *)
(* relevant and agreement was measured (retrieval_judgments.py); a staging      *)
(* report that passes is about public addresses, the expected deployment and a  *)
(* load that was answered in full (staging_probe.py).                       *)
THEOREM EvidenceAlwaysHonest == AllSpec => []EvidenceHonest
  <1>1. AllInv => EvidenceHonest
    BY JudgmentsIndependent, StagingHonest DEF AllInv, EvidenceHonest
  <1> QED
    BY <1>1, AllInvariance, PTL

(* The evidence that is sent is approved, within every budget and lacks only    *)
(* what did not fit, and what is answered is supported by what was sent        *)
(* (generated_answers.py), for any budgets and any number of claims.          *)
THEOREM AnswersAlwaysSupported == AllSpec => []AnswersSupported
  <1>1. AllInv => AnswersSupported
    BY AnswersHold DEF AllInv, AnswersSupported
  <1> QED
    BY <1>1, AllInvariance, PTL

(* Every team is ordered, bounded and complete and every model that is routed   *)
(* to fits (team.py, model_router.py), and kappa measures the agreement of any  *)
(* two rows of ratings (retrieval_judgments.py).                             *)
THEOREM ComputationsAlwaysHold == AllSpec => []ComputationsHold
  <1>1. AllInv => ComputationsHold
    BY TeamHolds, KappaHolds DEF AllInv, ComputationsHold
  <1> QED
    BY <1>1, AllInvariance, PTL

(* GenerationQuota by itself, with requests arriving in any order: the invariant *)
(* is one.                                                                 *)
THEOREM QuotaInvariance == Spec => []QuotaInv
  <1>1. QuotaInv /\ [Next]_vars => QuotaInv'
    BY QuotaStepTypes, QuotaStepKeeps DEF QuotaInv
  <1> QED
    BY QuotaInit, <1>1, PTL DEF Spec

(* A request is counting exactly while it holds its user's row. *)
THEOREM QuotaTyped == Spec => []TypeOK
  BY QuotaInvariance, PTL DEF QuotaInv

(* reserve_generation_quota: no stretch of time as long as the window holds  *)
(* more reservations than the limit, whatever the requests wait for.        *)
THEOREM QuotaHolds == Spec => []QuotaRespected
  BY QuotaInvariance, PTL DEF QuotaInv

(* retry_after_seconds: who waits that long is not turned away, unless a     *)
(* reservation was made meanwhile.                                          *)
THEOREM RetryAfterSuffices == Spec => RetryAfterIsEnough
  <1>1. QuotaInv /\ [Next]_vars =>
          [ \A r \in Requests :
              stage[r] # "limited" /\ stage'[r] = "limited"
                => \A p \in promises : arrived[r] < p ]_vars
    <2> SUFFICES ASSUME QuotaInv, Next, NEW r \in Requests,
                        stage[r] # "limited", stage'[r] = "limited", NEW p \in promises
                 PROVE  arrived[r] < p
      OBVIOUS
    <2>1. Limit(r)
      <3>1. stage \in [Requests -> Stages]
        BY DEF QuotaInv, TypeOK
      <3> QED
        BY <3>1 DEF Next, Tick, Arrive, LockUser, Reserve, Limit, Abort, Leave
    <2> QED
      BY <2>1, NotLimitedAfterPromise
  <1> QED
    BY <1>1, QuotaInvariance, PTL DEF Spec, RetryAfterIsEnough

(* What the requests do among the other components they may do by themselves,   *)
(* so that these theorems hold here too.                                     *)
THEOREM ServicesImplementQuota == AllSpec => Spec
  <1>1. AllInit => Init
    BY DEF AllInit
  <1>2. [AllNext]_everything => [Next]_vars
    BY ComponentSteps
  <1> QED
    BY <1>1, <1>2, PTL DEF AllSpec, Spec

(* In particular the quota holds and Retry-After is long enough.              *)
THEOREM QuotaAmongServices == AllSpec => []QuotaRespected /\ RetryAfterIsEnough
  BY ServicesImplementQuota, QuotaHolds, RetryAfterSuffices, PTL
==============================================================================
