-------------------------------- MODULE ToolPolicy --------------------------------
(***************************************************************************)
(* tool_policy.py: which tools can be registered at all, and what an          *)
(* invocation that a model asks for must bring.  Names and permissions are    *)
(* members of small sets.                                                  *)
(***************************************************************************)
EXTENDS Naturals

VARIABLES
  registered,   \* the capabilities of the registry
  offeredTool,  \* the capability that is registered next
  invocation,   \* what is asked for, and
  ruling        \* what authorize answers: "none" until asked

policyVars == <<registered, offeredTool, invocation, ruling>>

ReplayClasses ==
  {"pure_replay_safe", "read_replay_safe", "idempotent_side_effect", "non_idempotent_side_effect"}
SideEffects == {"idempotent_side_effect", "non_idempotent_side_effect"}
Names == {"search", "publish"}   \* with a third that nobody registers

ToolCapability ==
  [name : Names, required_permissions : SUBSET {"read", "write"}, replay_class : ReplayClasses,
   requires_approval : BOOLEAN, allowed_research_sources : SUBSET {"docs"},
   idempotency_key_required : BOOLEAN]

(* Keys and sources after strip; "bad" is too long or not visible ASCII. *)
ToolInvocationContext ==
  [name : Names \union {"shell"}, granted_permissions : SUBSET {"read", "write"}, approved : BOOLEAN,
   research_source_id : {"none", "", "docs", "invented"}, idempotency_key : {"none", "", "key", "bad"}]

Unasked == [name |-> "none"]

(* __post_init__ *)
Registrable(tool) ==
  /\ tool.replay_class \in SideEffects => tool.required_permissions # {}
  /\ tool.allowed_research_sources # {} => tool.required_permissions # {}
  /\ tool.replay_class = "idempotent_side_effect" => tool.idempotency_key_required
  /\ tool.replay_class = "non_idempotent_side_effect" => tool.requires_approval

Init ==
  /\ registered = {} /\ offeredTool \in ToolCapability
  /\ invocation = Unasked /\ ruling = "none"

(* A tool of every registry, that ranks what it is given *)
LocalRank ==
  [name |-> "search", required_permissions |-> {}, replay_class |-> "pure_replay_safe",
   requires_approval |-> FALSE, allowed_research_sources |-> {}, idempotency_key_required |-> FALSE]

(* A capability that cannot be made, or of a name that is taken, stops the     *)
(* registry's construction.                                                *)
Register ==
  /\ registered = {}
  /\ Registrable(offeredTool) /\ offeredTool.name # LocalRank.name
  /\ registered' = {LocalRank, offeredTool}
  /\ UNCHANGED <<offeredTool, invocation, ruling>>

SourceAllowed(tool, source) ==
  IF source \in {"none", ""} THEN tool.allowed_research_sources = {}
  ELSE source \in tool.allowed_research_sources

KeyGiven(tool, key) ==
  /\ key \notin {"", "bad"}
  /\ tool.idempotency_key_required => key # "none"

Authorized(tool, asked) ==
  /\ tool.required_permissions \subseteq asked.granted_permissions
  /\ tool.requires_approval => asked.approved
  /\ SourceAllowed(tool, asked.research_source_id)
  /\ KeyGiven(tool, asked.idempotency_key)

Authorize ==
  /\ invocation = Unasked /\ registered # {}
  /\ \E asked \in ToolInvocationContext :
       /\ invocation' = asked
       /\ ruling' = IF \E tool \in registered : tool.name = asked.name /\ Authorized(tool, asked)
                    THEN "authorized" ELSE "denied"
  /\ UNCHANGED <<registered, offeredTool>>

Step == Register \/ Authorize

TypeOK ==
  /\ registered \subseteq ToolCapability
  /\ invocation \in ToolInvocationContext \union {Unasked}
  /\ ruling \in {"none", "authorized", "denied"}

(* Whatever tools an application managed to register, what is authorized and  *)
(* has an effect came with a permission, and with a key if it can be repeated *)
(* or an approval if it cannot; nothing reaches a source that is not listed.   *)
EffectsAnswered ==
  ruling = "authorized" =>
    \E tool \in registered :
      /\ tool.name = invocation.name
      /\ tool.replay_class \in SideEffects =>
           /\ invocation.granted_permissions # {}
           /\ invocation.idempotency_key = "key" \/ invocation.approved
      /\ tool.replay_class = "non_idempotent_side_effect" => invocation.approved
      /\ invocation.research_source_id \in {"none", ""} \union tool.allowed_research_sources
==============================================================================
