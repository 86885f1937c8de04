-------------------------------- MODULE TeamPlan --------------------------------
(***************************************************************************)
(* TeamPlanner.plan (team.py) over AgentRegistry (agent_registry.py), and     *)
(* ModelRouter.choose (model_router.py), which Orchestrator.plan calls: from  *)
(* a task to a team in waves with handoffs, and to a model.  A task is what   *)
(* the planners see of it: which triggers it matches and how often.          *)
(***************************************************************************)
EXTENDS Lists

CONSTANTS
  MaxSpecialists,       \* bound on max_specialists
  MaxWave               \* bound on wave_size

VARIABLES
  planner,              \* "idle", "planned", "routed" or "refused"
  brief,                \* the task and the registry
  team,                 \* the agents in the order of their assignments
  waves, handoffs,
  tier                  \* of the model

vars == <<planner, brief, team, waves, handoffs, tier>>

(* The registry: one coordinator, one reviewer, specialists and verifiers.   *)
Coordinator == "coordinator"
Reviewer == "reviewer"
Specialists == {"architect", "backend", "devops"}
Verifiers == {"qa", "security"}
Phase ==
  [architect |-> "plan", backend |-> "build", coordinator |-> "plan", devops |-> "release",
   qa |-> "verify", reviewer |-> "verify", security |-> "verify"]
Priority ==
  [architect |-> 2, backend |-> 1, coordinator |-> 3, devops |-> 1, qa |-> 2, reviewer |-> 3, security |-> 2]
ByName == <<"architect", "backend", "coordinator", "devops", "qa", "reviewer", "security">>

Place(names, a) == CHOOSE i \in DOMAIN names : names[i] = a

NamedBefore(a, b) == Place(ByName, a) < Place(ByName, b)

Briefs ==
  [ portfolio : BOOLEAN,                       \* is_portfolio_task
    score : [Specialists -> 0..2],
    securityMatches : BOOLEAN,
    complex : BOOLEAN, risky : BOOLEAN,        \* rank at least "high"
    most : 1..MaxSpecialists, size : 1..MaxWave,
    qa : {{}, {"qa"}, Verifiers},              \* who is capable of what
    security : {{}, {"security"}, {"reviewer"}} ]

(* A specialist with a score is marked portfolio when the task is.           *)
PortfolioAgents(b) == {a \in Specialists : b.score[a] > 0}

Best(agents) ==
  CHOOSE a \in agents : \A b \in agents \ {a} :
    Priority[a] > Priority[b] \/ (Priority[a] = Priority[b] /\ NamedBefore(b, a))

Truncated(names, most) == SubSeq(names, 1, Min({most, Len(names)}))

Unique(names) == FoldLeft(LAMBDA seen, n : IF n \in Range(seen) THEN seen ELSE Append(seen, n), <<>>, names)

(* What the keys of both sorts end in *)
Outranks(a, b) == Priority[a] > Priority[b] \/ (Priority[a] = Priority[b] /\ NamedBefore(a, b))

PhaseRank == [plan |-> 0, build |-> 1, release |-> 2, verify |-> 3]

Earlier(a, b) == PhaseRank[Phase[a]] < PhaseRank[Phase[b]] \/ (Phase[a] = Phase[b] /\ Outranks(a, b))

ByPhase(b) ==
  CHOOSE s \in SetToSeqs(PortfolioAgents(b)) : \A i, j \in DOMAIN s : i < j => Earlier(s[i], s[j])

Likelier(score, a, b) == score[a] > score[b] \/ (score[a] = score[b] /\ Outranks(a, b))

ByScore(b) ==
  CHOOSE s \in SetToSeqs({a \in Specialists : b.score[a] > 0}) :
    \A i, j \in DOMAIN s : i < j => Likelier(b.score, s[i], s[j])

(* route_specialists: all of a portfolio, or the best few that match. *)
Routed(b) == IF b.portfolio THEN ByPhase(b) ELSE Truncated(ByScore(b), b.most)

(* mutant: the architect comes on top of the bound *)
ArchitectOnTop(b, names) == Unique(<<"architect">> \o names)

ArchitectFirst(b, names) == Truncated(Unique(<<"architect">> \o names), b.most)

Chosen(b) == IF b.complex /\ ~b.portfolio THEN ArchitectFirst(b, Routed(b)) ELSE Routed(b)

SecurityRequired(b) == b.portfolio \/ b.risky \/ (b.security # {} /\ b.securityMatches)

Refused(b) == b.qa = {} \/ (SecurityRequired(b) /\ b.security = {})

Ordered(b) ==
  Unique(<<Coordinator>> \o Chosen(b) \o <<Best(b.qa)>>
         \o (IF SecurityRequired(b) THEN <<Best(b.security)>> ELSE <<>>) \o <<Reviewer>>)

Chunks(names, size) ==
  [i \in 1..((Len(names) + size - 1) \div size) |->
     SubSeq(names, (i - 1) * size + 1, Min({i * size, Len(names)}))]

OfPhase(order, phase) ==
  FoldLeft(LAMBDA names, a : IF Phase[a] = phase /\ a # Reviewer THEN Append(names, a) ELSE names, <<>>, order)

(* Verification comes after the release is prepared; the reviewer last, alone.*)
Waves(order, size) ==
  LET wave(phase) == Chunks(OfPhase(order, phase), size) IN
  wave("plan") \o wave("build") \o wave("release") \o wave("verify") \o <<<<Reviewer>>>>

Handoffs(order) ==
  {<<Coordinator, a>> : a \in Range(order) \ {Coordinator}}
  \union {<<a, Reviewer>> : a \in Range(order) \ {Coordinator, Reviewer}}

NoBrief == [portfolio |-> FALSE]

Init == planner = "idle" /\ brief = NoBrief /\ team = <<>> /\ waves = <<>> /\ handoffs = {} /\ tier = "none"

PlanTeam ==
  /\ planner = "idle"
  /\ \E b \in Briefs :
       /\ brief' = b
       /\ IF Refused(b) THEN planner' = "refused" /\ UNCHANGED <<team, waves, handoffs>>
          ELSE /\ planner' = "planned" /\ team' = Ordered(b)
               /\ waves' = Waves(Ordered(b), b.size) /\ handoffs' = Handoffs(Ordered(b))
  /\ UNCHANGED tier

Tiers == <<"economy", "standard", "strong", "critical">>

(* mutant: any configured fallback will do *)
AnyFallback(catalog) == "standard" \in DOMAIN catalog

FallbackFits(catalog) == "standard" \in DOMAIN catalog /\ catalog["standard"]

(* choose: the tier of the higher of the two ranks (0..3), unless it cannot   *)
(* call tools and the task needs them; a catalog says which tiers can.       *)
RouteModel ==
  /\ planner = "idle"
  /\ \E complexity \in 0..3, risk \in 0..3, tools \in BOOLEAN, catalog \in [{"economy", "standard", "strong", "critical"} -> BOOLEAN] :
       LET wanted == Tiers[Max({complexity, risk}) + 1] IN
       /\ brief' = [complexity |-> complexity, risk |-> risk, tools |-> tools, catalog |-> catalog]
       /\ IF ~tools \/ catalog[wanted] THEN planner' = "routed" /\ tier' = wanted
          ELSE IF FallbackFits(catalog) THEN planner' = "routed" /\ tier' = "standard"
          ELSE planner' = "refused" /\ tier' = "none"
  /\ UNCHANGED <<team, waves, handoffs>>

Step == PlanTeam \/ RouteModel

-----------------------------------------------------------------------------
(* Properties                                                              *)

Agents == DOMAIN Phase

TypeOK ==
  /\ planner \in {"idle", "planned", "routed", "refused"}
  /\ team \in Seq(Agents) /\ waves \in Seq(Seq(Agents))
  /\ handoffs \subseteq Agents \X Agents
  /\ tier \in Range(Tiers) \union {"none"}

WaveOf(a) == CHOOSE i \in 1..Len(waves) : a \in Range(waves[i])

(* However a team is put together, each member works in exactly one wave of   *)
(* bounded size, the reviewer alone at the end; no handoff goes to an earlier *)
(* wave, and none to the reviewer comes from the reviewer's; verification     *)
(* follows release work; a narrow task gets no more specialists than asked    *)
(* for, and a risky one somebody capable of security.                       *)
PlanWellOrdered ==
  planner = "planned" =>
    /\ Range(FlattenSeq(waves)) = Range(team) /\ Len(FlattenSeq(waves)) = Cardinality(Range(team))
    /\ \A w \in Range(waves) : Len(w) \in 1..brief.size
    /\ waves[Len(waves)] = <<Reviewer>>
    /\ \A h \in handoffs : WaveOf(h[1]) <= WaveOf(h[2]) /\ (h[2] = Reviewer => WaveOf(h[1]) < WaveOf(Reviewer))
    /\ \A a, b \in Range(team) : Phase[a] = "release" /\ Phase[b] = "verify" => WaveOf(a) < WaveOf(b)
    /\ ~brief.portfolio => Cardinality(Range(team) \cap Specialists) <= brief.most
    /\ brief.risky => Range(team) \cap brief.security # {}

(* A task that needs tools gets a model that has them, of at least its rank   *)
(* unless that tier has none.                                              *)
ModelFits ==
  planner = "routed" =>
    /\ brief.tools => brief.catalog[tier]
    /\ \/ Place(Tiers, tier) = Max({brief.complexity, brief.risk}) + 1
       \/ brief.tools /\ ~brief.catalog[Tiers[Max({brief.complexity, brief.risk}) + 1]]
==============================================================================
