------------------------------ MODULE AgentGateway ------------------------------
(***************************************************************************)
(* MCPGateway.authorize (mcp_gateway.py) for one tool call after another:    *)
(* the injection check of untrusted text, the policy with the rules of       *)
(* config/policies/default.json, and ApprovalEnforcer.validate, which reads   *)
(* the clock and then asks an authority outside the program about the grant. *)
(* Times are seconds; the authority's clock differs from the gateway's.       *)
(***************************************************************************)
EXTENDS Integers, Sequences, FiniteSetsExt

CONSTANTS
  MaxTtl,               \* max_ttl_seconds
  Skew,                 \* clock_skew_seconds
  LastInstant           \* bound: the clock stops here

VARIABLES
  instant,
  paper,                \* the one grant the authority may have issued
  standing,             \* what the authority says of it
  gate, call, text, presented,
  asked,                \* `current`, read before the authority is asked
  stood                 \* history: standing when the gateway was asked

vars == <<instant, paper, standing, gate, call, text, presented, asked, stood>>

request == <<call, text, presented, asked, stood>>

(* A call in an environment; two deploys differ in their arguments only. *)
Call(action, tool, arguments, environment) ==
  [action |-> action, tool |-> tool, arguments |-> arguments, environment |-> environment]

Deploy == Call("deploy.production", "deploy", "this", "production")

Calls ==
  { Deploy, [Deploy EXCEPT !.arguments = "that"], [Deploy EXCEPT !.environment = "local"],
    Call("db.migrate", "database", "this", "production"),
    Call("secret.read", "vault", "this", "local"), Call("repo.write", "repo", "this", "local") }

(* Rules that none of these calls can match are left out. *)
Rules ==
  << [actions |-> {"secret.read"}, resources |-> {"vault", "repo"}, environments |-> {"local", "production"}, decision |-> "deny"],
     [actions |-> {"deploy.production"}, resources |-> {"deploy"}, environments |-> {"production"}, decision |-> "approval"],
     [actions |-> {"db.migrate"}, resources |-> {"database"}, environments |-> {"production"}, decision |-> "approval"],
     [actions |-> {"repo.write"}, resources |-> {"repo"}, environments |-> {"local"}, decision |-> "allow"] >>

Matching(c) ==
  {i \in 1..Len(Rules) : /\ c.action \in Rules[i].actions
                         /\ c.tool \in Rules[i].resources
                         /\ c.environment \in Rules[i].environments}

(* The first rule that matches decides, and no rule means no. *)
Evaluate(c) == IF Matching(c) = {} THEN "deny" ELSE Rules[Min(Matching(c))].decision

(* What a grant binds: action, resource, environment and the digest of the    *)
(* whole call, which stands for its tool, action and arguments.              *)
Digest(c) == <<c.tool, c.action, c.arguments>>

Grant(c, digested, expires) ==
  [action |-> c.action, resource |-> c.tool, environment |-> c.environment,
   digest |-> Digest(digested), issued_at |-> 2, expires_at |-> expires]

Papers ==
  {Grant(c, d, expires) : c \in {Deploy, [Deploy EXCEPT !.environment = "local"]},
                          d \in {[Deploy EXCEPT !.arguments = "that"]}, expires \in 2..5}

(* Callers also present what the authority never saw: its grant with another  *)
(* end, or for another call.                                                *)
Presentable == {paper, [paper EXCEPT !.expires_at = 4], [paper EXCEPT !.digest = Digest(Deploy)]}

NoGrant == [action |-> "none"]

Init ==
  /\ instant = 0 /\ paper \in Papers /\ standing = "unissued"
  /\ gate = "idle" /\ call = Deploy /\ text = "none" /\ presented = NoGrant
  /\ asked = 0 /\ stood = "unissued"

Tick == instant < LastInstant /\ instant' = instant + 1 /\ UNCHANGED <<paper, standing, gate, request>>

(* The authority signs and withdraws when it likes, also during a call. *)
Authority ==
  /\ \/ standing = "unissued" /\ standing' = "issued"
     \/ standing = "issued" /\ standing' = "withdrawn"
  /\ UNCHANGED <<instant, paper, gate, request>>

(* authorize, up to the authority: untrusted text that looks like an          *)
(* instruction blocks the call before policy and approval are looked at.     *)
Blocked(t) == t = "suspicious"

Preflight(t, c, g) ==
  IF Blocked(t) \/ Evaluate(c) = "deny" THEN "refused"
  ELSE IF Evaluate(c) = "allow" THEN "allowed"
  ELSE IF g = NoGrant THEN "approval_required" ELSE "verifying"

Authorize ==
  /\ gate = "idle"
  /\ \E c \in Calls, t \in {"none", "suspicious", "trusted"}, g \in Presentable \union {NoGrant} :
       LET verdict == Preflight(t, c, g) IN
       /\ gate' = verdict
       /\ call' = c /\ text' = t /\ presented' = g
       /\ asked' = IF verdict = "verifying" THEN instant ELSE 0
       /\ stood' = IF verdict = "verifying" THEN standing ELSE "unissued"
  /\ UNCHANGED <<instant, paper, standing>>

(* mutant: the digest is not compared *)
BoundToAction(g, c) ==
  g.action = c.action /\ g.resource = c.tool /\ g.environment = c.environment

BoundToCall(g, c) ==
  /\ g.action = c.action /\ g.resource = c.tool /\ g.environment = c.environment
  /\ g.digest = Digest(c)

WindowIsValid(g) == g.issued_at < g.expires_at /\ g.expires_at - g.issued_at <= MaxTtl

Current(g) == g.issued_at <= asked + Skew /\ asked - Skew <= g.expires_at

(* ApprovalEnforcer.validate, once the authority answers. *)
Validate ==
  /\ gate = "verifying"
  /\ gate' =
       IF /\ presented = paper /\ standing = "issued"
          /\ WindowIsValid(presented) /\ Current(presented) /\ BoundToCall(presented, call)
       THEN "allowed" ELSE "approval_required"
  /\ UNCHANGED <<instant, paper, standing, request>>

Answered == gate \in {"allowed", "refused", "approval_required"}

NextCall ==
  /\ Answered
  /\ gate' = "idle" /\ call' = Deploy /\ text' = "none" /\ presented' = NoGrant
  /\ asked' = 0 /\ stood' = "unissued"
  /\ UNCHANGED <<instant, paper, standing>>

Step == Tick \/ Authority \/ Authorize \/ Validate \/ NextCall

Spec == Init /\ [][Step]_vars

-----------------------------------------------------------------------------
(* Properties                                                              *)

TypeOK ==
  /\ instant \in 0..LastInstant /\ asked \in 0..instant
  /\ paper \in Papers
  /\ {standing, stood} \subseteq {"unissued", "issued", "withdrawn"}
  /\ gate \in {"idle", "verifying", "allowed", "refused", "approval_required"}
  /\ call \in Calls /\ text \in {"none", "suspicious", "trusted"}
  /\ presented \in Presentable \union {NoGrant}

(* A call that needs approval is let through only for a grant that the        *)
(* authority signed for this very call and had not withdrawn before it was   *)
(* asked for, no longer after the signature than a lifetime and the skew;    *)
(* and no grant lets anything through that the policy or the text forbids.   *)
ApprovedExactly ==
  gate = "allowed" =>
    /\ text # "suspicious" /\ Evaluate(call) # "deny"
    /\ Evaluate(call) = "approval" =>
         /\ presented = paper /\ standing # "unissued" /\ stood # "withdrawn"
         /\ paper.digest = Digest(call) /\ paper.environment = call.environment
         /\ paper.issued_at - Skew <= asked /\ asked <= paper.issued_at + MaxTtl + Skew
==============================================================================
