-------------------------- MODULE EditorialWorkflow --------------------------
(***************************************************************************)
(* The editorial workflow of one content item (routes_admin.py, models.py, *)
(* rbac.py): concurrent requests that read the item, decide, and commit.   *)
(* PostgreSQL holds the row lock from the read to the commit (RowLocks);   *)
(* SQLite ignores FOR UPDATE, and only the revision column stands guard.   *)
(* Items share nothing but source keys, so one item is enough.             *)
(***************************************************************************)
EXTENDS Naturals

CONSTANTS
  Users, RoleOf,         \* the accounts and the role of each
  Workers,               \* requests in progress at a time
  Texts, Sources, Claims,
  RowLocks,              \* does the database honour SELECT ... FOR UPDATE?
  EnforceSoD,            \* settings.enforce_separation_of_duties
  MaxRevision,           \* bound: the item is not saved past this revision
  NoUser, NoWorker

PERMISSIONS == {"content:read", "content:write", "content:review", "content:publish",
                "sources:write", "claims:write", "claims:review", "users:manage"}

(* The permissions of each role that matter to content. *)
ROLE_PERMISSIONS ==
  [owner     |-> PERMISSIONS,
   admin     |-> PERMISSIONS \ {"users:manage"},
   editor    |-> {"content:read", "content:write", "sources:write", "claims:write"},
   reviewer  |-> {"content:read", "content:review", "claims:review"},
   publisher |-> {"content:read", "content:publish"},
   analyst   |-> {"content:read"}]

ASSUME EditorialAssumption ==
  /\ RoleOf \in [Users -> DOMAIN ROLE_PERMISSIONS]
  /\ RowLocks \in BOOLEAN /\ EnforceSoD \in BOOLEAN
  /\ MaxRevision \in Nat
  /\ NoUser \notin Users /\ NoWorker \notin Workers

Permits(u, permission) == permission \in ROLE_PERMISSIONS[RoleOf[u]]

VARIABLES
  item,           \* the content_items row
  sources,        \* keys of the sources attached to it
  claims,         \* its claims rows; "absent" until created
  lock,           \* the request that holds the row, under RowLocks
  req,            \* what each request is doing and the rows it has read
  approved        \* history: what the review in force saw

vars == <<item, sources, claims, lock, req, approved>>

WorkflowStates == {"draft", "reviewed", "published", "archived"}
Verdicts == {"reviewed", "published", "rejected"}
EditableStates == {"draft", "reviewed"}
PublishableClaimStates == {"reviewed", "published"}

Items ==
  [status : WorkflowStates \union {"none"}, indexed : BOOLEAN, dated : BOOLEAN, text : Texts,
   creator : Users \union {NoUser}, modifier : Users \union {NoUser},
   reviewer : Users \union {NoUser}, publisher : Users \union {NoUser}, revision : Nat]

ClaimRows ==
  [status : Verdicts \union {"absent", "draft"},
   creator : Users \union {NoUser}, reviewer : Users \union {NoUser}]
NoClaim == [status |-> "absent", creator |-> NoUser, reviewer |-> NoUser]

Ops ==
  [kind : {"create", "update"}, text : Texts]
  \union [kind : {"transition"}, to : WorkflowStates]
  \union [kind : {"source"}, source : Sources]
  \union [kind : {"claim"}, claim : Claims]
  \union [kind : {"review"}, claim : Claims, verdict : Verdicts]

(* The permission each endpoint, and each target of a transition, asks for. *)
Required(op) ==
  CASE op.kind \in {"create", "update"} -> "content:write"
    [] op.kind = "source" -> "sources:write"
    [] op.kind = "claim" -> "claims:write"
    [] op.kind = "review" -> "claims:review"
    [] op.kind = "transition" ->
         CASE op.to = "draft" -> "content:write"
           [] op.to = "reviewed" -> "content:review"
           [] op.to \in {"published", "archived"} -> "content:publish"

Idle == [busy |-> FALSE]

ReleasedStates == {"reviewed", "published"}
Content(text, keys, rows) == [none |-> FALSE, text |-> text, sources |-> keys, claims |-> rows]
NoApproval == [none |-> TRUE]

-----------------------------------------------------------------------------
FreshItem(status, text, u, revision) ==
  [status |-> status, indexed |-> FALSE, dated |-> FALSE, text |-> text,
   creator |-> u, modifier |-> u, reviewer |-> NoUser, publisher |-> NoUser,
   revision |-> revision]

Init ==
  /\ \E text \in Texts :
       \/ item = FreshItem("none", text, NoUser, 0)
       \/ item = FreshItem("draft", text, NoUser, 1)   \* older than the provenance columns
  /\ sources = {}
  /\ claims = [c \in Claims |-> NoClaim]
  /\ lock = NoWorker
  /\ req = [w \in Workers |-> Idle]
  /\ approved = NoApproval

(* A request is authorised, then reads the item, locking its row. *)
Begin(w, u, op) ==
  /\ ~req[w].busy
  /\ Permits(u, Required(op))
  /\ RowLocks => lock = NoWorker
  /\ lock' = IF RowLocks THEN w ELSE lock
  /\ req' = [req EXCEPT ![w] = [busy |-> TRUE, actor |-> u, op |-> op, item |-> item,
                                sources |-> sources, claims |-> claims]]
  /\ UNCHANGED <<item, sources, claims, approved>>

Finish(w) ==
  /\ req' = [req EXCEPT ![w] = Idle]
  /\ lock' = IF lock = w THEN NoWorker ELSE lock

(* A refusal (403, 404, 409), a stale revision or a lost connection: the   *)
(* transaction rolls back.                                                 *)
RollBack(w) ==
  /\ req[w].busy
  /\ Finish(w)
  /\ UNCHANGED <<item, sources, claims, approved>>

-----------------------------------------------------------------------------
(* Helpers of routes_admin.py                                              *)

Editable(row) == row.status \in EditableStates

(* mutant: an approved item stays approved when it changes *)
KeepReview(row) == row

(* _demote: a change to a reviewed item undoes the review. *)
Demoted(row) ==
  IF row.status = "reviewed"
  THEN [row EXCEPT !.status = "draft", !.indexed = FALSE, !.reviewer = NoUser, !.publisher = NoUser]
  ELSE row

(* mutant: a missing name counts as somebody else *)
SoDAgainstKnown(actor, prior) == EnforceSoD => actor \notin prior

(* _sod: the provenance is complete and the actor is none of it. *)
SoD(actor, prior) == EnforceSoD => NoUser \notin prior /\ actor \notin prior

(* mutant: no version_id_col *)
SaveUnversioned(w, row) ==
  IF row = req[w].item
  THEN UNCHANGED item
  ELSE item.revision < MaxRevision /\ item' = [row EXCEPT !.revision = item.revision + 1]

(* mutant: the revision is only checked *)
SaveSilently(w, row) == item.revision = req[w].item.revision /\ item' = row

(* The flush of the item: no UPDATE when no column changed, and otherwise  *)
(* one that must find the revision that was read.                          *)
Save(w, row) ==
  IF row = req[w].item
  THEN UNCHANGED item
  ELSE /\ item.revision = req[w].item.revision
       /\ item.revision < MaxRevision
       /\ item' = [row EXCEPT !.revision = @ + 1]

Doing(w, kind) == req[w].busy /\ req[w].op.kind = kind

-----------------------------------------------------------------------------
(* The endpoints                                                           *)

CreateContent(w) ==
  LET u == req[w].actor IN
  /\ Doing(w, "create")
  /\ item.status = "none"
  /\ item' = FreshItem("draft", req[w].op.text, u, 1)
  /\ Finish(w)
  /\ UNCHANGED <<sources, claims>>

UpdateContent(w) ==
  LET u == req[w].actor
      row == req[w].item IN
  /\ Doing(w, "update")
  /\ Editable(row)
  /\ Save(w, Demoted([row EXCEPT !.text = req[w].op.text, !.modifier = u]))
  /\ Finish(w)
  /\ UNCHANGED <<sources, claims>>

ApproveContent(w) ==
  LET u == req[w].actor
      row == req[w].item IN
  /\ Doing(w, "transition") /\ req[w].op.to = "reviewed"
  /\ row.status = "draft"
  /\ req[w].sources # {}
  /\ SoD(u, {row.creator, row.modifier})
  /\ Save(w, [row EXCEPT !.status = "reviewed", !.indexed = FALSE,
                         !.reviewer = u, !.publisher = NoUser])
  /\ Finish(w)
  /\ UNCHANGED <<sources, claims>>

(* mutant: publication asks only that some claim is approved *)
SomeClaimApproved(w) ==
  \E c \in Claims : req[w].claims[c].status \in PublishableClaimStates

(* The second read of the claims brings rows inserted meanwhile, but not   *)
(* new values of rows already read.                                        *)
ClaimsApproved(w) ==
  \A c \in Claims :
    LET row == IF req[w].claims[c].status = "absent" THEN claims[c] ELSE req[w].claims[c]
    IN  row.status \in PublishableClaimStates \union {"absent"}

PublishContent(w) ==
  LET u == req[w].actor
      row == req[w].item IN
  /\ Doing(w, "transition") /\ req[w].op.to = "published"
  /\ row.status = "reviewed"
  /\ req[w].sources # {}
  /\ ClaimsApproved(w)
  /\ SoD(u, {row.creator, row.modifier, row.reviewer})
  /\ Save(w, [row EXCEPT !.status = "published", !.indexed = TRUE, !.dated = TRUE,
                         !.publisher = u])
  /\ Finish(w)
  /\ UNCHANGED <<sources, claims>>

(* mutant: archiving leaves the search flag *)
ArchivedStillIndexed(row) == [row EXCEPT !.status = "archived"]

Archived(row) == [row EXCEPT !.status = "archived", !.indexed = FALSE]

ArchiveContent(w) ==
  /\ Doing(w, "transition") /\ req[w].op.to = "archived"
  /\ req[w].item.status = "published"
  /\ Save(w, Archived(req[w].item))
  /\ Finish(w)
  /\ UNCHANGED <<sources, claims>>

ReturnToDraft(w) ==
  /\ Doing(w, "transition") /\ req[w].op.to = "draft"
  /\ req[w].item.status \in {"reviewed", "archived"}
  /\ Save(w, [req[w].item EXCEPT !.status = "draft", !.indexed = FALSE,
                                 !.reviewer = NoUser, !.publisher = NoUser])
  /\ Finish(w)
  /\ UNCHANGED <<sources, claims>>

AddSource(w) ==
  LET u == req[w].actor
      row == req[w].item
      key == req[w].op.source IN
  /\ Doing(w, "source")
  /\ Editable(row)
  /\ key \notin req[w].sources \union sources
  /\ Save(w, Demoted([row EXCEPT !.modifier = u]))
  /\ sources' = sources \union {key}
  /\ Finish(w)
  /\ UNCHANGED claims

AddClaim(w) ==
  LET u == req[w].actor
      row == req[w].item
      c == req[w].op.claim IN
  /\ Doing(w, "claim")
  /\ Editable(row)
  /\ claims[c].status = "absent"
  /\ Save(w, Demoted([row EXCEPT !.modifier = u]))
  /\ claims' = [claims EXCEPT ![c] = [status |-> "draft", creator |-> u, reviewer |-> NoUser]]
  /\ Finish(w)
  /\ UNCHANGED sources

ReviewClaim(w) ==
  LET u == req[w].actor
      c == req[w].op.claim
      seen == req[w].claims[c] IN
  /\ Doing(w, "review")
  /\ seen.status # "absent"
  /\ Editable(req[w].item)
  /\ SoD(u, {seen.creator})
  /\ Save(w, Demoted(req[w].item))
  /\ claims' = [claims EXCEPT ![c] = [@ EXCEPT !.status = req[w].op.verdict, !.reviewer = u]]
  /\ Finish(w)
  /\ UNCHANGED sources

(* History: a review is in force from its approval until the item leaves    *)
(* the reviewed and published states.                                      *)
ReviewInForce(w) ==
  CASE item'.status \notin ReleasedStates -> NoApproval
    [] item.status \notin ReleasedStates /\ item'.status \in ReleasedStates ->
         Content(req[w].item.text, req[w].sources, req[w].claims)
    [] OTHER -> approved

Commit(w) ==
  /\ \/ CreateContent(w) \/ UpdateContent(w)
     \/ ApproveContent(w) \/ PublishContent(w) \/ ArchiveContent(w) \/ ReturnToDraft(w)
     \/ AddSource(w) \/ AddClaim(w) \/ ReviewClaim(w)
  /\ approved' = ReviewInForce(w)

Next ==
  \E w \in Workers :
    \/ \E u \in Users, op \in Ops : Begin(w, u, op)
    \/ Commit(w)
    \/ RollBack(w)

Spec == Init /\ [][Next]_vars

-----------------------------------------------------------------------------
(* Properties                                                              *)

Requests ==
  {Idle} \union [busy : {TRUE}, actor : Users, op : Ops, item : Items,
                 sources : SUBSET Sources, claims : [Claims -> ClaimRows]]

TypeOK ==
  /\ item \in Items
  /\ sources \in SUBSET Sources
  /\ claims \in [Claims -> ClaimRows]
  /\ lock \in Workers \union {NoWorker}
  /\ req \in [Workers -> Requests]
  /\ approved \in {NoApproval} \union
       [none : {FALSE}, text : Texts, sources : SUBSET Sources, claims : [Claims -> ClaimRows]]

Released == item.status \in ReleasedStates

(* PERFECT-MASTER-2026.md, section 1: no race publishes content whose review *)
(* was invalidated.  What is reviewed or published, text, sources and       *)
(* claims with their verdicts, is exactly what its reviewer approved.       *)
ReviewStands ==
  Released => approved = Content(item.text, sources, claims)

(* A published item carries sources and no claim that is unreviewed or       *)
(* rejected, for as long as it is published.                                *)
PublishedEvidence ==
  item.status = "published" =>
    /\ sources # {}
    /\ \A c \in Claims : claims[c].status \in PublishableClaimStates \union {"absent"}

(* Creator and latest modifier, reviewer, and publisher are known and are    *)
(* three people, whatever interleaves.                                      *)
DistinctDuties ==
  EnforceSoD =>
    /\ Released => /\ NoUser \notin {item.creator, item.modifier, item.reviewer}
                   /\ item.reviewer \notin {item.creator, item.modifier}
    /\ item.status = "published" =>
         item.publisher \notin {item.creator, item.modifier, item.reviewer, NoUser}

(* Search sees an item exactly while it is published.                       *)
IndexedIffPublished == item.indexed <=> item.status = "published"

(* A public item leaves the public only through the archive, and the public *)
(* only ever receives a reviewed one, also when requests overlap.           *)
WorkflowOrder ==
  [][ item'.status # item.status =>
        <<item.status, item'.status>> \in
          {<<"none", "draft">>, <<"draft", "reviewed">>, <<"reviewed", "draft">>,
           <<"reviewed", "published">>, <<"published", "archived">>, <<"archived", "draft">>} ]_vars

(* What the readers of an item rely on: public it does not change, it is     *)
(* public with approved claims only, and whatever made it private and public *)
(* again shows in the revision.                                              *)
Public == INSTANCE VersionedContent WITH
  Verdicts <- Verdicts \union {"absent", "draft"},
  Approved <- PublishableClaimStates,
  Absent <- "absent",
  row <- [public   |-> item.status = "published" /\ item.indexed,
          revision |-> item.revision,
          verdicts |-> [c \in Claims |-> claims[c].status]]
PublicContract == Public!Spec

(* PERFECT-MASTER-2026.md, section 1: whoever "authors or materially edits"  *)
(* the item is its creator, and one identity does not perform consecutive   *)
(* duties, so nobody approves an item that contains a claim of their own.   *)
NoAuthorApproves ==
  EnforceSoD /\ Released => item.reviewer \notin {claims[c].creator : c \in Claims}
==============================================================================
