------------------------------- MODULE GeoTenancy -------------------------------
(***************************************************************************)
(* The organizations of the geo API (geo/routes.py, geo/query_routes.py,      *)
(* geo/tenant.py) and append_provider_result (geo/evidence_store.py), which   *)
(* stages a provider's answer in the transaction of its caller.  Each client  *)
(* makes one request, as a transaction of several statements that read what   *)
(* is committed when they run; a statement that inserts a key another         *)
(* transaction holds uncommitted waits for it.                              *)
(***************************************************************************)
EXTENDS Naturals, FiniteSets

CONSTANTS
  Clients,              \* a client is also the id of what it creates, above 2
  MaxParts              \* bound on the mentions and citations of an answer

VARIABLES
  members, former,      \* memberships; those an operator has removed
  rows,                 \* committed rows
  staged,               \* rows of each open transaction
  progress, wish,       \* how far each client's request is, and what it asks
  shown                 \* what a listing answered

vars == <<members, former, rows, staged, progress, wish, shown>>

Row(kind, id, org, project, parent, key, by) ==
  [kind |-> kind, id |-> id, org |-> org, project |-> project, parent |-> parent, key |-> key, by |-> by]

Member(org, user, role) == [org |-> org, user |-> user, role |-> role]

(* ORG_ROLE_PERMISSIONS, as far as a route asks for one. *)
Permissions == [owner |-> {"read", "write"}, analyst |-> {"read", "write"}, viewer |-> {"read"}]

(* Two organizations, each with a project, a query set and a query; the       *)
(* user "bob" may only look at the first.                                   *)
Tree(n, by) ==
  { Row("organization", n, n, 0, 0, n, by), Row("project", n, n, n, n, n, by),
    Row("set", n, n, n, n, n, by), Row("query", n, n, n, n, 0, by) }

NoWish == [kind |-> "none"]

Init ==
  /\ members = {Member(1, "amal", "owner"), Member(1, "bob", "viewer"), Member(2, "bob", "owner")}
  /\ former = {}
  /\ rows = Tree(1, "amal") \union Tree(2, "bob")
  /\ staged = [c \in Clients |-> {}]
  /\ progress = [c \in Clients |-> "new"]
  /\ wish = [c \in Clients |-> NoWish]
  /\ shown = [c \in Clients |-> {}]

Kinds == {"organization", "project", "set", "query", "run"}

(* A client names any ids it may have heard of, fitting together or not. *)
Ids(kind) == {r.id : r \in {s \in rows : s.kind = kind}}

Begin(c) ==
  /\ progress[c] = "new"
  /\ \E user \in {"amal", "bob"}, list \in BOOLEAN, kind \in Kinds, org \in Ids("organization"), project \in Ids("project") :
     \E parent \in CASE kind = "query" -> Ids("set") [] kind = "run" -> Ids("query") [] OTHER -> {project},
        key \in {1, 9}, parts \in IF kind = "run" THEN 0..MaxParts ELSE {0} :
       /\ list => kind \in {"project", "set", "query"} /\ key = 1
       /\ kind \in {"query", "run"} => key = 1
       /\ kind = "organization" => org = 1 /\ project = 1
       /\ kind = "project" => project = 1
       /\ wish' = [wish EXCEPT ![c] =
            [user |-> user, list |-> list, kind |-> kind, org |-> org, project |-> project,
             parent |-> parent, key |-> key, parts |-> parts]]
       /\ progress' = [progress EXCEPT ![c] =
            CASE kind = "organization" -> "flush" [] kind = "run" -> "lookup" [] OTHER -> "access"]
  /\ UNCHANGED <<members, former, rows, staged, shown>>

(* An answer without a commit rolls back what was staged. *)
Refuse(c) ==
  /\ progress' = [progress EXCEPT ![c] = "refused"]
  /\ staged' = [staged EXCEPT ![c] = {}]

(* require_tenant_access: no membership is 404, a weaker role 403. *)
Access(c) ==
  /\ progress[c] = "access"
  /\ LET needed == IF wish[c].list THEN "read" ELSE "write" IN
     IF \E m \in members : m.org = wish[c].org /\ m.user = wish[c].user /\ needed \in Permissions[m.role]
     THEN progress' = [progress EXCEPT ![c] = "lookup"] /\ UNCHANGED staged
     ELSE Refuse(c)
  /\ UNCHANGED <<members, former, rows, wish, shown>>

(* mutant: an object is looked up by its id only *)
ById(w, kind, id) == \E r \in rows : r.kind = kind /\ r.id = id

(* _project, _query_set and the lookup of append_provider_result. *)
InScope(w, kind, id) ==
  \E r \in rows : r.kind = kind /\ r.id = id /\ r.org = w.org /\ (kind # "project" => r.project = w.project)

Reachable(w) ==
  /\ w.kind \in {"set", "query"} => InScope(w, "project", w.project)
  /\ w.kind = "query" => InScope(w, "set", w.parent)
  /\ w.kind = "run" => InScope(w, "query", w.parent)

Lookup(c) ==
  /\ progress[c] = "lookup"
  /\ IF Reachable(wish[c])
     THEN progress' = [progress EXCEPT ![c] = IF wish[c].list THEN "list" ELSE "flush"] /\ UNCHANGED staged
     ELSE Refuse(c)
  /\ UNCHANGED <<members, former, rows, wish, shown>>

List(c) ==
  /\ progress[c] = "list"
  /\ LET w == wish[c] IN
     shown' = [shown EXCEPT ![c] =
       {r \in rows : /\ r.kind = w.kind /\ r.org = w.org
                     /\ w.kind # "project" => r.project = w.project
                     /\ w.kind = "query" => r.parent = w.parent}]
  /\ progress' = [progress EXCEPT ![c] = "listed"]
  /\ UNCHANGED <<members, former, rows, staged, wish>>

New(c) ==
  LET w == wish[c] IN
  CASE w.kind = "organization" -> Row("organization", c, c, 0, 0, w.key, w.user)
    [] w.kind = "project"      -> Row("project", c, w.org, c, w.org, w.key, w.user)
    [] w.kind = "set"          -> Row("set", c, w.org, w.project, w.project, w.key, w.user)
    [] w.kind = "query"        -> Row("query", c, w.org, w.project, w.parent, 0, w.user)
    [] w.kind = "run"          -> Row("run", c, w.org, w.project, w.parent, 0, w.user)

(* The unique constraints: slugs of organizations, and of projects and sets   *)
(* within their parent.                                                    *)
Clash(r, s) ==
  r.kind = s.kind /\ r.kind \in {"organization", "project", "set"} /\ r.parent = s.parent /\ r.key = s.key

(* mutant: a flush is a commit *)
AtOnce(new) == new

(* A flush alone makes nothing durable. *)
Durable(new) == {}

(* The first flush, once nobody holds the key; another's row makes it a 409. *)
Flush(c) ==
  /\ progress[c] = "flush"
  /\ \A d \in Clients \ {c} : ~\E s \in staged[d] : Clash(New(c), s)
  /\ IF \E s \in rows : Clash(New(c), s)
     THEN Refuse(c) /\ UNCHANGED rows
     ELSE /\ progress' = [progress EXCEPT ![c] = "complete"]
          /\ staged' = [staged EXCEPT ![c] = {New(c)}]
          /\ rows' = rows \union Durable({New(c)})
  /\ UNCHANGED <<members, former, wish, shown>>

(* What belongs to the new row: its audit event, or the mentions and citations*)
(* of an answer; a run is audited by its caller.                            *)
Belongings(c) ==
  LET w == wish[c] new == New(c) IN
  IF w.kind = "run"
  THEN {Row("part", 10 * c + i, w.org, w.project, c, 0, w.user) : i \in 1..w.parts}
  ELSE {Row("audit", 10 * c, new.org, new.project, c, 0, w.user)}

Complete(c) ==
  /\ progress[c] = "complete"
  /\ staged' = [staged EXCEPT ![c] = @ \union Belongings(c)]
  /\ progress' = [progress EXCEPT ![c] = "commit"]
  /\ UNCHANGED <<members, former, rows, wish, shown>>

(* The owner of a new organization is a row like the others. *)
Owner(c) == IF wish[c].kind = "organization" THEN {Member(c, wish[c].user, "owner")} ELSE {}

Commit(c) ==
  /\ progress[c] = "commit"
  /\ rows' = rows \union staged[c]
  /\ members' = members \union Owner(c)
  /\ staged' = [staged EXCEPT ![c] = {}]
  /\ progress' = [progress EXCEPT ![c] = "created"]
  /\ UNCHANGED <<former, wish, shown>>

(* The database fails, a provider's output is malformed, or the caller of     *)
(* append_provider_result, who commits, changes its mind.                   *)
Fail(c) ==
  /\ progress[c] \in {"access", "lookup", "list", "flush", "complete", "commit"}
  /\ Refuse(c)
  /\ UNCHANGED <<members, former, rows, wish, shown>>

(* No route changes memberships; an operator may. *)
RemoveMember ==
  /\ former = {}
  /\ \E m \in members : members' = members \ {m} /\ former' = {m}
  /\ UNCHANGED <<rows, staged, progress, wish, shown>>

ClientStep(c) == Begin(c) \/ Access(c) \/ Lookup(c) \/ List(c) \/ Flush(c) \/ Complete(c) \/ Commit(c) \/ Fail(c)

Step == RemoveMember \/ \E c \in Clients : ClientStep(c)

-----------------------------------------------------------------------------
(* Properties                                                              *)

TypeOK ==
  /\ \A r \in rows : r.kind \in Kinds \union {"part", "audit"} /\ r.by \in {"amal", "bob"}
  /\ \A m \in members \union former : m.role \in DOMAIN Permissions
  /\ progress \in [Clients -> {"new", "access", "lookup", "list", "flush", "complete", "commit", "created", "listed", "refused"}]
  /\ \A c \in Clients : staged[c] # {} => progress[c] \in {"complete", "commit"}

May(user, needed, org) ==
  \E m \in members \union former : m.org = org /\ m.user = user /\ needed \in Permissions[m.role]

Has(kind, id, org) == \E p \in rows : p.kind = kind /\ p.id = id /\ p.org = org

(* Whatever ids requests combine and however they overlap, a row's parents    *)
(* are rows of its own organization and project, who wrote or was shown it    *)
(* was allowed to, and slugs stay unique.                                   *)
TenantsApart ==
  /\ \A r \in rows :
       /\ r.kind \in {"project", "set"} => May(r.by, "write", r.org)
       /\ r.kind = "project" => Has("organization", r.org, r.org)
       /\ r.kind \in {"set", "query", "run"} => Has("project", r.project, r.org)
       /\ r.kind = "query" => \E s \in rows : s.kind = "set" /\ s.id = r.parent /\ s.project = r.project
       /\ r.kind = "run" => \E q \in rows : q.kind = "query" /\ q.id = r.parent /\ q.project = r.project
  /\ \A c \in Clients : \A r \in shown[c] : May(wish[c].user, "read", r.org)
  /\ \A r, s \in rows : Clash(r, s) => r = s

(* Nothing is left half made by a failure or a lost race: an organization has *)
(* its first owner, and an answer all its mentions and citations.            *)
NothingPartial ==
  \A c \in Clients :
    IF progress[c] = "created"
    THEN /\ wish[c].kind = "organization" => Member(c, wish[c].user, "owner") \in members \union former
         /\ wish[c].kind = "run" => Cardinality({r \in rows : r.kind = "part" /\ r.parent = c}) = wish[c].parts
    ELSE \A r \in rows : c # IF r.kind \in {"part", "audit"} THEN r.parent ELSE r.id
==============================================================================
