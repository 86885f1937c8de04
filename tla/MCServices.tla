------------------------------- MODULE MCServices -------------------------------
(***************************************************************************)
(* Components that share no state, side by side, as in MCComponents; here    *)
(* the ones whose properties are all about safety.  GenerationQuota is        *)
(* extended, its requests being numbers in the order in which they arrive,   *)
(* and so is Computations, which holds three of the components.             *)
(* RecoveryExecutor is here with effects that may land after their call.     *)
(* The constants of the components are those of this module, of the same     *)
(* names unless two components share one.                                   *)
(***************************************************************************)
EXTENDS GenerationQuota, Computations

CONSTANTS
  MaxAttempts, MaxToolCalls, MaxElapsed,                           \* RecoveryExecutor
  MaxTtl, Skew, LastInstant,                                       \* AgentGateway
  Clients, MaxParts,                                               \* GeoTenancy
  Samples, TotalRequests, Concurrency,                             \* StagingEvidence
  LastSession, LastAsk, LastLogout,                                \* AssistantPage
  ContractNamesRef,                                                \* ReadinessGuardian
  LastRequest, LastLogin,                                          \* AdminPage
  Logins, LastSessionOpened                                        \* SecondFactorDialog

ASSUME ServicesAssumption ==
  /\ MaxAttempts \in Nat \ {0} /\ MaxToolCalls \in Nat \ {0} /\ MaxElapsed \in Nat \ {0}
  /\ MaxTtl \in Nat /\ Skew \in Nat /\ LastInstant \in Nat
  /\ Clients \subseteq {n \in Nat : n > 2} /\ MaxParts \in Nat
  /\ Samples \in 1..3 /\ TotalRequests \in Nat \ {0} /\ Concurrency \in Nat \ {0}
  /\ LastSession \in Nat \ {0} /\ LastAsk \in Nat /\ LastLogout \in Nat
  /\ ContractNamesRef \in BOOLEAN
  /\ LastRequest \in Nat /\ LastLogin \in Nat /\ LastSessionOpened \in Nat

VARIABLES
  active,
  operation, pc, attempts, toolCalls, verificationCalls, elapsed, lastAction, ending, effects,
  inFlight, replanned, failure, unverified, returned,
  instant, paper, standing, gate, call, text, presented, asked, stood,
  members, former, rows, staged, progress, wish, shown,
  probe, load, deployed, usable, failures, socket, attempt, overdue, duration, evidence, served, spoilt,
  alive, holder, cookie, panel, identity, epoch, controller, result, login, asks, logouts,
  gates, validated, screen, scan, head, artifact, reply, exit, proof,
  currentUser, selectedContent, selectedPanel, requests, entering, leaving, boot,
  required, enrolled, pending, session, jar, fetching, dialogs,
  registered, offeredTool, invocation, ruling

executor ==
  <<operation, pc, attempts, toolCalls, verificationCalls, elapsed, lastAction, ending, effects,
    inFlight, replanned, failure, unverified, returned>>
gateway == <<instant, paper, standing, gate, call, text, presented, asked, stood>>
tenancy == <<members, former, rows, staged, progress, wish, shown>>
staging == <<probe, load, deployed, usable, failures, socket, attempt, overdue, duration, evidence, served, spoilt>>
page == <<alive, holder, cookie, panel, identity, epoch, controller, result, login, asks, logouts>>
guardian == <<gates, validated, screen, scan, head, artifact, reply, exit, proof>>
admin == <<currentUser, selectedContent, selectedPanel, requests, entering, leaving, boot>>
bridge == <<required, enrolled, pending, session, jar, fetching, dialogs>>
tools == <<registered, offeredTool, invocation, ruling>>

Late ==
  INSTANCE RecoveryExecutor WITH
    DelayedEffects <- TRUE, call <- operation, outcome <- ending

Gateway == INSTANCE AgentGateway

Geo == INSTANCE GeoTenancy

Staging == INSTANCE StagingEvidence

Page == INSTANCE AssistantPage

Guardian == INSTANCE ReadinessGuardian

Admin == INSTANCE AdminPage WITH screen <- selectedPanel

Bridge == INSTANCE SecondFactorDialog WITH LastSession <- LastSessionOpened

Tools == INSTANCE ToolPolicy

Components ==
  {"quota", "executor", "gateway", "team", "geo", "judgments", "staging", "page", "guardian",
   "answers", "admin", "bridge", "tools"}

(* What is not active begins in one way; nobody opted in to repeating effects. *)
AllInit ==
  /\ active \in Components
  /\ Late!Init /\ ~operation.idempotent /\ ~operation.retry_after_verified_absence
  /\ active # "executor" => ~operation.verifier /\ operation.callbacks = {} /\ ~operation.human_gate
  /\ Gateway!Init /\ (active # "gateway" => paper.environment = "local" /\ paper.expires_at = 2)
  /\ Staging!Init /\ (active # "staging" => load /\ deployed = "expected")
  /\ Page!Init /\ (active # "page" => cookie = 0)
  /\ Bridge!Init /\ (active # "bridge" => required = {})
  /\ Tools!Init /\ (active # "tools" => offeredTool = Tools!LocalRank)
  /\ Init /\ Team!Init /\ Geo!Init /\ Judgments!Init /\ Guardian!Init /\ Answers!Init /\ Admin!Init

rest == <<vars, executor, gateway, planning, tenancy, judging, staging, page, guardian, answering>>
others == <<admin, bridge, tools>>

Only(component) == active = component /\ UNCHANGED active

QuotaStep ==
  /\ Only("quota")
  /\ UNCHANGED <<executor, gateway, planning, tenancy, judging, staging, page, guardian, answering, others>>
  /\ Next
ExecutorStep ==
  /\ Only("executor")
  /\ UNCHANGED <<vars, gateway, planning, tenancy, judging, staging, page, guardian, answering, others>>
  /\ Late!Step \/ Late!Tick
LateEffect ==
  /\ Only("executor")
  /\ UNCHANGED <<vars, gateway, planning, tenancy, judging, staging, page, guardian, answering, others>>
  /\ Late!EffectLands
GatewayStep ==
  /\ Only("gateway")
  /\ UNCHANGED <<vars, executor, planning, tenancy, judging, staging, page, guardian, answering, others>>
  /\ Gateway!Step
TeamStep ==
  /\ Only("team")
  /\ UNCHANGED <<vars, executor, gateway, tenancy, judging, staging, page, guardian, answering, others>>
  /\ Team!Step
GeoStep ==
  /\ Only("geo")
  /\ UNCHANGED <<vars, executor, gateway, planning, judging, staging, page, guardian, answering, others>>
  /\ Geo!Step
JudgmentsStep ==
  /\ Only("judgments")
  /\ UNCHANGED <<vars, executor, gateway, planning, tenancy, staging, page, guardian, answering, others>>
  /\ Judgments!Step
StagingStep ==
  /\ Only("staging")
  /\ UNCHANGED <<vars, executor, gateway, planning, tenancy, judging, page, guardian, answering, others>>
  /\ Staging!Step
PageStep ==
  /\ Only("page")
  /\ UNCHANGED <<vars, executor, gateway, planning, tenancy, judging, staging, guardian, answering, others>>
  /\ Page!Step
GuardianStep ==
  /\ Only("guardian")
  /\ UNCHANGED <<vars, executor, gateway, planning, tenancy, judging, staging, page, answering, others>>
  /\ Guardian!Step
AnswersStep ==
  /\ Only("answers")
  /\ UNCHANGED <<vars, executor, gateway, planning, tenancy, judging, staging, page, guardian, others>>
  /\ Answers!Step

AdminStep == Only("admin") /\ UNCHANGED <<rest, bridge, tools>> /\ Admin!Step
BridgeStep == Only("bridge") /\ UNCHANGED <<rest, admin, tools>> /\ Bridge!Step
ToolsStep == Only("tools") /\ UNCHANGED <<rest, admin, bridge>> /\ Tools!Step

AllNext ==
  \/ QuotaStep \/ ExecutorStep \/ LateEffect \/ GatewayStep \/ TeamStep \/ GeoStep
  \/ JudgmentsStep \/ StagingStep \/ PageStep \/ GuardianStep
  \/ AnswersStep \/ AdminStep \/ BridgeStep \/ ToolsStep

everything ==
  <<active, rest, others>>

AllSpec == AllInit /\ [][AllNext]_everything

-----------------------------------------------------------------------------
(* Bounds of the run, which the theorems do not have: what is past them is    *)
(* like something within them.                                             *)

(* Requests are alike: they arrive in the order of their numbers. *)
InOrder == \A q, r \in Requests : q < r /\ stage'[r] # "new" => stage'[q] # "new"

(* Clients are alike: they are numbered by what they ask for.  Who stages an  *)
(* answer is not asked who they are.  A member who is removed has asked for   *)
(* something.                                                              *)
NumberOf == [project |-> 2, set |-> 3, query |-> 4, run |-> 5, organization |-> 6]
Number(w) == IF w.list THEN 1 ELSE NumberOf[w.kind]
Alike ==
  /\ \A c, d \in {e \in Clients : progress'[e] # "new"} :
       /\ c < d => Number(wish'[c]) <= Number(wish'[d])
       /\ wish'[c].kind = "run" => wish'[c].user = "amal"
  /\ \A m \in former' \ former :
       \E c \in Clients : progress[c] # "new" /\ wish[c].user = m.user /\ wish[c].org = m.org

(* Places in a list are alike: what begins takes the first that is free. *)
FirstFree(last, before, after, free) ==
  \A i \in 2..last : before[i] = free /\ after[i] # free => before[i - 1] # free

(* No more than three of the identification, a login, a logout and requests   *)
(* are under way on the admin page.                                        *)
ThreeUnderWay ==
  Cardinality({l \in 1..LastLogin : entering'[l] # Admin!Nobody})
    + Cardinality({r \in 1..LastRequest : requests'[r] # Admin!Unsent})
    + (IF boot' THEN 1 ELSE 0) + (IF leaving' THEN 1 ELSE 0) <= 3

(* The gate, a process apart, runs from one matrix only.  What is imported    *)
(* says of a check of the site, if anything, that it failed or was passed.    *)
GateFromSeed ==
  /\ exit' # "none" => gates = Guardian!Seed
  /\ \A g \in gates' : g.id = "LIVE-TLS" => g.blocking /\ (g.pass => g.verified)

(* The one claim of the other item matches nothing, or cannot be used.  A     *)
(* draft that is refused changes nothing, however long it is.               *)
ShortAnswers ==
  /\ claims'[4].usable => claims'[4].match = 0
  /\ progressOfAnswer' = "invalid" => Len(draft'.keys) <= 1

Bounded ==
  CASE active = "quota" -> InOrder
    [] active = "geo" -> Alike
    [] active = "page" -> FirstFree(LastAsk, asks, asks', Page!NoAsk)
    [] active = "admin" -> FirstFree(LastRequest, requests, requests', Admin!Unsent) /\ ThreeUnderWay
    [] active = "guardian" -> GateFromSeed
    [] active = "answers" -> ShortAnswers
    [] OTHER -> TRUE

(* AtMostOnceUnlessOptedIn is about calls that do not opt in by a replan. *)
NoReplan == "replan" \notin operation.callbacks

(* What is not active has one value from the beginning on, so a state is known *)
(* by what the active component is, and where it is.                         *)
Seen ==
  CASE active = "quota" -> <<active, vars>>
    [] active = "executor" -> <<active, executor>>
    [] active = "gateway" -> <<active, gateway>>
    [] active = "team" -> <<active, planning>>
    [] active = "geo" -> <<active, tenancy>>
    [] active = "judgments" -> <<active, judging>>
    [] active = "staging" -> <<active, staging>>
    [] active = "page" -> <<active, page>>
    [] active = "guardian" -> <<active, guardian>>
    [] active = "answers" -> <<active, answering>>
    [] active = "admin" -> <<active, admin>>
    [] active = "bridge" -> <<active, bridge>>
    [] active = "tools" -> <<active, tools>>

-----------------------------------------------------------------------------
(* Properties                                                              *)

(* The variables of every component have their types. *)
AllTyped ==
  /\ active = "quota" => TypeOK
  /\ active = "executor" => Late!TypeOK
  /\ active = "gateway" => Gateway!TypeOK
  /\ active = "team" => Team!TypeOK
  /\ active = "geo" => Geo!TypeOK
  /\ active = "judgments" => Judgments!TypeOK
  /\ active = "staging" => Staging!TypeOK
  /\ active = "page" => Page!TypeOK
  /\ active = "guardian" => Guardian!TypeOK
  /\ active = "answers" => Answers!TypeOK
  /\ active = "admin" => Admin!TypeOK
  /\ active = "bridge" => Bridge!TypeOK
  /\ active = "tools" => Tools!TypeOK

(* RecoveryExecutor, when effects may land late: at most one effect of an     *)
(* operation that nobody declared safe to repeat.                           *)
AtMostOnceUnlessOptedIn == Late!AtMostOnceUnlessOptedIn

(* AgentGateway and ToolPolicy: what is let through was approved, in time and  *)
(* unchanged, and an effect has the permission, key or approval it takes.      *)
ApprovedExactly ==
  /\ active = "gateway" => Gateway!ApprovedExactly
  /\ active = "tools" => Tools!EffectsAnswered

(* The computations of TeamPlan and RetrievalJudgments: every team is ordered, *)
(* bounded and complete, models fit, and the measure of agreement is one.     *)
ComputationsHold ==
  /\ active = "team" => Team!PlanWellOrdered /\ Team!ModelFits
  /\ active = "judgments" => Judgments!KappaSound

(* GeoTenancy: organizations stay apart and nothing is left half made.       *)
TenantsApart == active = "geo" => Geo!TenantsApart /\ Geo!NothingPartial

(* RetrievalJudgments and StagingEvidence, the evidence a promotion rests on: *)
(* final judgments are of several people who agree, or settled by another;    *)
(* a report that passes is about what it names.                             *)
EvidenceHonest ==
  /\ active = "judgments" => Judgments!JudgedIndependently
  /\ active = "staging" => Staging!EvidenceHonest

(* The pages: what the assistant page shows belongs to one user, the admin     *)
(* page's buttons to the item it shows, and a login reaches the admin page     *)
(* with its second factor settled.                                         *)
OneUserAtATime ==
  /\ active = "page" => Page!OneUserAtATime
  /\ active = "admin" => Admin!ButtonsOfWhatIsShown
  /\ active = "bridge" => Bridge!FactorSettled

(* ReadinessGuardian: GO takes a validated artifact and verified gates.      *)
GoIsEarned == active = "guardian" => Guardian!GoIsEarned

(* AnswerEvidence: what is sent is approved and within every budget, and what *)
(* is answered is supported by what was sent.                               *)
AnswersSupported ==
  active = "answers" => Answers!EvidenceWithinBudget /\ Answers!AnswerSupported
==============================================================================
