----------------------- MODULE EditorialWorkflowProofs -----------------------
(***************************************************************************)
(* What TLAPS proves of EditorialWorkflow, for any number of accounts,     *)
(* concurrent requests, sources and claims.  From the revision column      *)
(* alone: types, distinct duties, the search flag and the order of states.  *)
(* With the row lock: published items keep the evidence and the review     *)
(* they were published with.                                               *)
(***************************************************************************)
EXTENDS EditorialWorkflow, TLAPS

-----------------------------------------------------------------------------
(* Types                                                                   *)

(* A request that is busy has an actor, an operation and a snapshot. *)
LEMMA BusyFacts ==
  ASSUME TypeOK, NEW w \in Workers, req[w].busy
  PROVE  /\ req[w].actor \in Users /\ req[w].op \in Ops /\ req[w].item \in Items
         /\ req[w].sources \in SUBSET Sources /\ req[w].claims \in [Claims -> ClaimRows]
<1>1. req[w] \in Requests
  BY DEF TypeOK
<1>2. req[w] # Idle
  BY DEF Idle
<1>3. req[w] \in [busy : {TRUE}, actor : Users, op : Ops, item : Items,
                 sources : SUBSET Sources, claims : [Claims -> ClaimRows]]
  BY <1>1, <1>2 DEF Requests
<1> QED
  BY <1>3

(* Finishing keeps the requests and the lock well typed. *)
LEMMA FinishType ==
  ASSUME TypeOK, NEW w \in Workers, Finish(w)
  PROVE  req' \in [Workers -> Requests] /\ lock' \in Workers \union {NoWorker}
  BY DEF TypeOK, Finish, Requests

(* Undoing a review gives a row with the same revision. *)
LEMMA DemotedFacts ==
  ASSUME NEW row \in Items
  PROVE  /\ Demoted(row) \in Items /\ Demoted(row).revision = row.revision
         /\ row.status # "reviewed" => Demoted(row) = row
         /\ row.status = "reviewed" =>
              Demoted(row) = [row EXCEPT !.status = "draft", !.indexed = FALSE,
                                         !.reviewer = NoUser, !.publisher = NoUser]
  BY DEF Demoted, Items, WorkflowStates

(* Saving a row keeps the item well typed. *)
LEMMA SaveType ==
  ASSUME TypeOK, NEW w \in Workers, NEW row \in Items, Save(w, row)
  PROVE  item' \in Items
  BY DEF TypeOK, Save, Items

(* Every endpoint keeps the rows well typed. *)
LEMMA EndpointType ==
  ASSUME TypeOK, NEW w \in Workers, Commit(w)
  PROVE  item' \in Items /\ sources' \in SUBSET Sources /\ claims' \in [Claims -> ClaimRows]
<1>0. req[w].busy
  BY DEF Commit, CreateContent, UpdateContent, ApproveContent, PublishContent, ArchiveContent,
     ReturnToDraft, AddSource, AddClaim, ReviewClaim, Doing
<1> DEFINE u == req[w].actor
           row == req[w].item
<1>1. /\ u \in Users /\ row \in Items /\ req[w].op \in Ops
      /\ item \in Items /\ sources \in SUBSET Sources /\ claims \in [Claims -> ClaimRows]
  BY <1>0, BusyFacts DEF TypeOK
<1>2. CASE CreateContent(w)
  BY <1>1, <1>2 DEF CreateContent, Doing, Ops, FreshItem, Items, WorkflowStates
<1>3. CASE UpdateContent(w)
  <2>1. [row EXCEPT !.text = req[w].op.text, !.modifier = u] \in Items
    BY <1>1, <1>3 DEF UpdateContent, Doing, Ops, Items
  <2> QED
    BY <1>1, <1>3, <2>1, DemotedFacts, SaveType DEF UpdateContent
<1>4. CASE ApproveContent(w)
  <2>1. [row EXCEPT !.status = "reviewed", !.indexed = FALSE, !.reviewer = u, !.publisher = NoUser]
          \in Items
    BY <1>1 DEF Items, WorkflowStates
  <2> QED
    BY <1>1, <1>4, <2>1, SaveType DEF ApproveContent
<1>5. CASE PublishContent(w)
  <2>1. [row EXCEPT !.status = "published", !.indexed = TRUE, !.dated = TRUE, !.publisher = u]
          \in Items
    BY <1>1 DEF Items, WorkflowStates
  <2> QED
    BY <1>1, <1>5, <2>1, SaveType DEF PublishContent
<1>6. CASE ArchiveContent(w)
  <2>1. Archived(row) \in Items
    BY <1>1 DEF Archived, Items, WorkflowStates
  <2> QED
    BY <1>1, <1>6, <2>1, SaveType DEF ArchiveContent
<1>7. CASE ReturnToDraft(w)
  <2>1. [row EXCEPT !.status = "draft", !.indexed = FALSE, !.reviewer = NoUser,
                    !.publisher = NoUser] \in Items
    BY <1>1 DEF Items, WorkflowStates
  <2> QED
    BY <1>1, <1>7, <2>1, SaveType DEF ReturnToDraft
<1>8. CASE AddSource(w)
  <2>1. [row EXCEPT !.modifier = u] \in Items
    BY <1>1 DEF Items
  <2>2. req[w].op.source \in Sources
    BY <1>1, <1>8 DEF AddSource, Doing, Ops
  <2> QED
    BY <1>1, <1>8, <2>1, <2>2, DemotedFacts, SaveType DEF AddSource
<1>9. CASE AddClaim(w)
  <2>1. [row EXCEPT !.modifier = u] \in Items
    BY <1>1 DEF Items
  <2>2. claims' \in [Claims -> ClaimRows]
    BY <1>1, <1>9 DEF AddClaim, ClaimRows
  <2> QED
    BY <1>1, <1>9, <2>1, <2>2, DemotedFacts, SaveType DEF AddClaim
<1>10. CASE ReviewClaim(w)
  <2>1. req[w].op.verdict \in Verdicts
    BY <1>1, <1>10 DEF ReviewClaim, Doing, Ops
  <2>2. claims' \in [Claims -> ClaimRows]
    BY <1>1, <1>10, <2>1 DEF ReviewClaim, ClaimRows
  <2> QED
    BY <1>1, <1>10, <2>2, DemotedFacts, SaveType DEF ReviewClaim
<1> QED
  BY <1>2, <1>3, <1>4, <1>5, <1>6, <1>7, <1>8, <1>9, <1>10 DEF Commit

(* Only a busy request commits, and committing finishes it. *)
LEMMA CommitFacts ==
  ASSUME NEW w \in Workers, Commit(w)
  PROVE  req[w].busy /\ Finish(w)
  BY DEF Commit, CreateContent, UpdateContent, ApproveContent, PublishContent, ArchiveContent,
     ReturnToDraft, AddSource, AddClaim, ReviewClaim, Doing

(* Every step keeps every variable in its type. *)
LEMMA TypeStep == TypeOK /\ [Next]_vars => TypeOK'
<1> SUFFICES ASSUME TypeOK, [Next]_vars PROVE TypeOK'
  OBVIOUS
<1>1. ASSUME NEW w \in Workers, NEW u \in Users, NEW op \in Ops, Begin(w, u, op)
      PROVE  TypeOK'
  <2>1. [busy |-> TRUE, actor |-> u, op |-> op, item |-> item, sources |-> sources,
         claims |-> claims] \in Requests
    BY DEF TypeOK, Requests
  <2> QED
    BY <1>1, <2>1 DEF Begin, TypeOK
<1>2. ASSUME NEW w \in Workers, Commit(w) PROVE TypeOK'
  <2>1. req' \in [Workers -> Requests] /\ lock' \in Workers \union {NoWorker}
    BY <1>2, CommitFacts, FinishType
  <2>2. approved' \in {NoApproval} \union
          [none : {FALSE}, text : Texts, sources : SUBSET Sources, claims : [Claims -> ClaimRows]]
    <3>1. req[w].item.text \in Texts /\ req[w].sources \in SUBSET Sources
          /\ req[w].claims \in [Claims -> ClaimRows]
      BY <1>2, CommitFacts, BusyFacts DEF Items
    <3>2. approved' = ReviewInForce(w)
      BY <1>2 DEF Commit
    <3> QED
      BY <3>1, <3>2 DEF ReviewInForce, Content, TypeOK
  <2> QED
    BY <1>2, <2>1, <2>2, EndpointType DEF TypeOK
<1>3. ASSUME NEW w \in Workers, RollBack(w) PROVE TypeOK'
  BY <1>3, FinishType DEF RollBack, TypeOK
<1>4. CASE UNCHANGED vars
  BY <1>4 DEF vars, TypeOK
<1> QED
  BY <1>1, <1>2, <1>3, <1>4 DEF Next

(* The item exists or not, and nothing is going on. *)
LEMMA TypeInit == Init => TypeOK
<1> SUFFICES ASSUME Init PROVE TypeOK
  OBVIOUS
<1>1. item \in Items
  <2>1. PICK text \in Texts : \/ item = FreshItem("none", text, NoUser, 0)
                             \/ item = FreshItem("draft", text, NoUser, 1)
    BY DEF Init
  <2>2. /\ FreshItem("none", text, NoUser, 0) \in Items
        /\ FreshItem("draft", text, NoUser, 1) \in Items
    BY DEF FreshItem, Items, WorkflowStates
  <2> QED
    BY <2>1, <2>2
<1>2. claims \in [Claims -> ClaimRows]
  BY DEF Init, NoClaim, ClaimRows
<1>3. req \in [Workers -> Requests]
  BY DEF Init, Requests
<1> QED
  BY <1>1, <1>2, <1>3 DEF Init, TypeOK

(* Every variable keeps its type; so do the CHECK constraints of the tables. *)
THEOREM TypeCorrect == Spec => []TypeOK
  BY TypeInit, TypeStep, PTL DEF Spec

-----------------------------------------------------------------------------
(* What the revision column guarantees                                     *)

(* A row that was read is the current one, unless the revision moved on; an *)
(* item that does not exist yet has no revision.                            *)
Snapshots ==
  /\ item.status = "none" => item.revision = 0
  /\ \A w \in Workers : req[w].busy =>
       /\ req[w].item.revision <= item.revision
       /\ req[w].item.revision = item.revision => req[w].item = item

(* DistinctDuties and IndexedIffPublished, of a row. *)
Kept(row) ==
  /\ EnforceSoD =>
       /\ row.status \in ReleasedStates =>
            /\ NoUser \notin {row.creator, row.modifier, row.reviewer}
            /\ row.reviewer \notin {row.creator, row.modifier}
       /\ row.status = "published" =>
            row.publisher \notin {row.creator, row.modifier, row.reviewer, NoUser}
  /\ row.indexed <=> row.status = "published"

Order ==
  {<<"none", "draft">>, <<"draft", "reviewed">>, <<"reviewed", "draft">>,
   <<"reviewed", "published">>, <<"published", "archived">>, <<"archived", "draft">>}

(* What a save may write over a row. *)
Follows(old, new) ==
  /\ new \in Items /\ new.revision = old.revision /\ new.status # "none"
  /\ new.status = old.status \/ <<old.status, new.status>> \in Order
  /\ Kept(old) => Kept(new)

(* A commit leaves the item alone, creates it, or writes a row that may     *)
(* follow the current one: the revision makes the row read the current row. *)
Succeeds ==
  \/ item' = item
  \/ /\ item.status = "none"
     /\ item'.revision = 1 /\ item'.status = "draft" /\ ~item'.indexed
  \/ \E row \in Items : Follows(item, row) /\ item' = [row EXCEPT !.revision = @ + 1]

(* So a save either changes nothing or replaces exactly the row it read.    *)
LEMMA SaveSucceeds ==
  ASSUME Snapshots, NEW w \in Workers, req[w].busy,
         NEW row \in Items, Follows(req[w].item, row), Save(w, row)
  PROVE  Succeeds
  BY DEF Snapshots, Save, Succeeds, Follows

(* An editable row may be followed by a changed one, its review undone. *)
LEMMA DemotedFollows ==
  ASSUME NEW row \in Items, NEW r \in Items, r.revision = row.revision, r.status = row.status,
         r.indexed = row.indexed, row.status \in EditableStates
  PROVE  Follows(row, Demoted(r))
<1> DEFINE d == Demoted(r)
<1>1. d \in Items /\ d.revision = row.revision
  BY DemotedFacts
<1>2. d.status = "draft"
  BY DEF Demoted, EditableStates, Items
<1>3. d.indexed => row.indexed /\ row.status = "draft"
  BY DEF Demoted, EditableStates, Items
<1> HIDE DEF d
<1>4. Kept(row) => Kept(d)
  BY <1>1, <1>2, <1>3 DEF Kept, ReleasedStates, Items
<1> QED
  BY <1>1, <1>2, <1>4 DEF Follows, Order, EditableStates, d

(* Every endpoint writes a row that may follow the one it read. *)
LEMMA CommitSucceeds ==
  ASSUME TypeOK, Snapshots, NEW w \in Workers, Commit(w)
  PROVE  Succeeds
<1> DEFINE u == req[w].actor
           row == req[w].item
<1>0. req[w].busy /\ row \in Items /\ u \in Users /\ u # NoUser /\ req[w].op \in Ops
  BY CommitFacts, BusyFacts, EditorialAssumption
<1>1. CASE CreateContent(w)
  <2>1. item.status = "none" /\ item' = FreshItem("draft", req[w].op.text, u, 1)
    BY <1>1 DEF CreateContent
  <2>2. item'.revision = 1 /\ item'.status = "draft" /\ item'.indexed = FALSE
    BY <2>1 DEF FreshItem
  <2> QED
    BY <2>1, <2>2 DEF Succeeds
<1>2. ASSUME NEW r \in Items, r.revision = row.revision, r.status = row.status,
             r.indexed = row.indexed, row.status \in EditableStates
      PROVE  Follows(row, Demoted(r))
  BY <1>0, <1>2, DemotedFollows
<1>3. CASE UpdateContent(w)
  <2> DEFINE r == [row EXCEPT !.text = req[w].op.text, !.modifier = u]
  <2>1. r \in Items
    BY <1>0, <1>3 DEF UpdateContent, Doing, Ops, Items
  <2>2. Follows(row, Demoted(r))
    BY <1>0, <1>2, <1>3, <2>1 DEF UpdateContent, Editable, Items
  <2> QED
    BY <1>0, <1>3, <2>1, <2>2, DemotedFacts, SaveSucceeds DEF UpdateContent
<1>4. CASE ApproveContent(w)
  <2> DEFINE r == [row EXCEPT !.status = "reviewed", !.indexed = FALSE, !.reviewer = u,
                              !.publisher = NoUser]
  <2>1. r \in Items
    BY <1>0 DEF Items, WorkflowStates
  <2>2. Follows(row, r)
    BY <1>0, <1>4, <2>1 DEF ApproveContent, Follows, Kept, Order, SoD, Items
  <2> QED
    BY <1>0, <1>4, <2>1, <2>2, SaveSucceeds DEF ApproveContent
<1>5. CASE PublishContent(w)
  <2> DEFINE r == [row EXCEPT !.status = "published", !.indexed = TRUE, !.dated = TRUE,
                              !.publisher = u]
  <2>1. r \in Items
    BY <1>0 DEF Items, WorkflowStates
  <2>2. Follows(row, r)
    BY <1>0, <1>5, <2>1 DEF PublishContent, Follows, Kept, Order, SoD, Items, ReleasedStates
  <2> QED
    BY <1>0, <1>5, <2>1, <2>2, SaveSucceeds DEF PublishContent
<1>6. CASE ArchiveContent(w)
  <2>1. Archived(row) \in Items
    BY <1>0 DEF Archived, Items, WorkflowStates
  <2>2. Follows(row, Archived(row))
    BY <1>0, <1>6, <2>1 DEF ArchiveContent, Archived, Follows, Kept, Order, Items, ReleasedStates
  <2> QED
    BY <1>0, <1>6, <2>1, <2>2, SaveSucceeds DEF ArchiveContent
<1>7. CASE ReturnToDraft(w)
  <2> DEFINE r == [row EXCEPT !.status = "draft", !.indexed = FALSE, !.reviewer = NoUser,
                              !.publisher = NoUser]
  <2>1. r \in Items
    BY <1>0 DEF Items, WorkflowStates
  <2>2. Follows(row, r)
    BY <1>0, <1>7, <2>1 DEF ReturnToDraft, Follows, Kept, Order, Items, ReleasedStates
  <2> QED
    BY <1>0, <1>7, <2>1, <2>2, SaveSucceeds DEF ReturnToDraft
<1>8. CASE AddSource(w) \/ AddClaim(w)
  <2> DEFINE r == [row EXCEPT !.modifier = u]
  <2>1. r \in Items
    BY <1>0 DEF Items
  <2>2. Follows(row, Demoted(r))
    BY <1>0, <1>2, <1>8, <2>1 DEF AddSource, AddClaim, Editable, Items
  <2> QED
    BY <1>0, <1>8, <2>1, <2>2, DemotedFacts, SaveSucceeds DEF AddSource, AddClaim
<1>9. CASE ReviewClaim(w)
  <2>1. Follows(row, Demoted(row))
    BY <1>0, <1>2, <1>9 DEF ReviewClaim, Editable
  <2> QED
    BY <1>0, <1>9, <2>1, DemotedFacts, SaveSucceeds DEF ReviewClaim
<1> QED
  BY <1>1, <1>3, <1>4, <1>5, <1>6, <1>7, <1>8, <1>9 DEF Commit

(* A commit leaves the item as it is or gives it a revision nobody has read. *)
LEMMA RevisionMoves ==
  ASSUME TypeOK, Snapshots, Succeeds
  PROVE  /\ item' = item \/ item'.revision > item.revision
         /\ item'.status = "none" => item'.revision = 0
<1>0. item \in Items
  BY DEF TypeOK
<1>1. CASE item' = item
  BY <1>1 DEF Snapshots
<1>2. CASE item.status = "none" /\ item'.revision = 1 /\ item'.status = "draft"
  BY <1>2 DEF Snapshots
<1>3. ASSUME NEW row \in Items, Follows(item, row), item' = [row EXCEPT !.revision = @ + 1]
      PROVE  item'.revision > item.revision /\ item'.status # "none"
  BY <1>0, <1>3 DEF Follows, Items
<1> QED
  BY <1>1, <1>2, <1>3 DEF Succeeds

(* The snapshots stay current or outdated, never ahead. *)
LEMMA SnapshotsStep == TypeOK /\ Snapshots /\ [Next]_vars => Snapshots'
<1> SUFFICES ASSUME TypeOK, Snapshots, [Next]_vars PROVE Snapshots'
  OBVIOUS
<1>1. ASSUME NEW w \in Workers, NEW u \in Users, NEW op \in Ops, Begin(w, u, op)
      PROVE  Snapshots'
  BY <1>1 DEF Begin, Snapshots, TypeOK, Items
<1>2. ASSUME NEW w \in Workers, Finish(w), item' = item \/ item'.revision > item.revision,
             item'.status = "none" => item'.revision = 0
      PROVE  Snapshots'
  <2>1. item'.revision \in Nat /\ item.revision \in Nat
    BY TypeStep DEF TypeOK, Items
  <2>2. ASSUME NEW v \in Workers, req'[v].busy
        PROVE  req'[v] = req[v] /\ req[v].busy /\ req[v].item.revision \in Nat
    <3>1. req'[v] = req[v] /\ req[v].busy
      BY <1>2, <2>2 DEF Finish, TypeOK, Idle
    <3> QED
      BY <3>1, BusyFacts DEF Items
  <2> QED
    BY <1>2, <2>1, <2>2 DEF Snapshots
<1>3. ASSUME NEW w \in Workers, Commit(w) PROVE Snapshots'
  BY <1>2, <1>3, CommitFacts, CommitSucceeds, RevisionMoves
<1>4. ASSUME NEW w \in Workers, RollBack(w) PROVE Snapshots'
  BY <1>4, <1>2 DEF RollBack, Snapshots
<1>5. CASE UNCHANGED vars
  BY <1>5 DEF vars, Snapshots
<1> QED
  BY <1>1, <1>3, <1>4, <1>5 DEF Next

(* No step but a commit touches the item. *)
LEMMA ItemStep ==
  ASSUME TypeOK, Snapshots, [Next]_vars
  PROVE  Succeeds
  BY CommitSucceeds DEF Next, Begin, RollBack, vars, Succeeds

(* The item keeps its duties and its search flag from row to row. *)
LEMMA KeptStep ==
  ASSUME TypeOK, Snapshots, Kept(item), Succeeds
  PROVE  Kept(item')
<1>1. ASSUME NEW row \in Items, Follows(item, row), item' = [row EXCEPT !.revision = @ + 1]
      PROVE  Kept(item')
  BY <1>1 DEF Follows, Kept, Items
<1>2. CASE item'.status = "draft" /\ ~item'.indexed
  BY <1>2 DEF Kept, ReleasedStates
<1> QED
  BY <1>1, <1>2 DEF Succeeds

(* The states follow their order. *)
LEMMA OrderStep ==
  ASSUME TypeOK, Succeeds
  PROVE  item'.status # item.status => <<item.status, item'.status>> \in Order
<1>1. ASSUME NEW row \in Items, Follows(item, row), item' = [row EXCEPT !.revision = @ + 1]
      PROVE  item'.status # item.status => <<item.status, item'.status>> \in Order
  BY <1>1 DEF Follows, Items
<1> QED
  BY <1>1 DEF Succeeds, Order

Versioned == TypeOK /\ Snapshots /\ Kept(item)

(* Together these facts are an invariant. *)
LEMMA AlwaysVersioned == Spec => []Versioned
<1>1. Init => Versioned
  <2> SUFFICES ASSUME Init PROVE Snapshots /\ Kept(item)
    BY TypeInit DEF Versioned
  <2>1. PICK text \in Texts : \/ item = FreshItem("none", text, NoUser, 0)
                             \/ item = FreshItem("draft", text, NoUser, 1)
    BY DEF Init
  <2>2. item.status \in {"none", "draft"} /\ ~item.indexed
        /\ (item.status = "none" => item.revision = 0)
    BY <2>1 DEF FreshItem
  <2> QED
    BY <2>2 DEF Init, Idle, Snapshots, Kept, ReleasedStates
<1>2. Versioned /\ [Next]_vars => Versioned'
  <2> SUFFICES ASSUME TypeOK, Snapshots, Kept(item), [Next]_vars
               PROVE  TypeOK' /\ Snapshots' /\ Kept(item')
    BY DEF Versioned
  <2> QED
    BY TypeStep, SnapshotsStep, ItemStep, KeptStep
<1> QED
  BY <1>1, <1>2, PTL DEF Spec

(* Whatever requests overlap, and with no row lock at all, creator and      *)
(* latest modifier, reviewer and publisher are three known people.          *)
THEOREM DutiesStayDistinct == Spec => []DistinctDuties
<1>1. Versioned => DistinctDuties
  BY DEF Versioned, Kept, DistinctDuties, Released
<1> QED
  BY <1>1, AlwaysVersioned, PTL

(* Nor does search ever see an item that is not published.                  *)
THEOREM SearchSeesPublished == Spec => []IndexedIffPublished
<1>1. Versioned => IndexedIffPublished
  BY DEF Versioned, Kept, IndexedIffPublished
<1> QED
  BY <1>1, AlwaysVersioned, PTL

(* Nor does the item skip a state of the workflow.                          *)
THEOREM StatesInOrder == Spec => WorkflowOrder
<1>1. Versioned /\ [Next]_vars =>
        [item'.status # item.status =>
           <<item.status, item'.status>> \in
             {<<"none", "draft">>, <<"draft", "reviewed">>, <<"reviewed", "draft">>,
              <<"reviewed", "published">>, <<"published", "archived">>,
              <<"archived", "draft">>}]_vars
  BY ItemStep, OrderStep DEF Versioned, Order
<1> QED
  BY <1>1, AlwaysVersioned, PTL DEF Spec, WorkflowOrder

-----------------------------------------------------------------------------
(* What the row lock adds                                                  *)

(* A busy request holds the row, and what it has read is what is there.     *)
Held ==
  \A w \in Workers : req[w].busy =>
    /\ lock = w
    /\ req[w].item = item /\ req[w].sources = sources /\ req[w].claims = claims

(* Two requests are never busy together. *)
LEMMA HeldStep ==
  ASSUME RowLocks, TypeOK, Held, [Next]_vars
  PROVE  Held'
<1>1. ASSUME NEW w \in Workers, Finish(w), req[w].busy PROVE Held'
  <2>1. ASSUME NEW v \in Workers, req'[v].busy PROVE FALSE
    <3>1. v # w /\ req[v].busy
      BY <1>1, <2>1 DEF Finish, TypeOK, Idle
    <3> QED
      BY <1>1, <3>1 DEF Held
  <2> QED
    BY <2>1 DEF Held
<1>2. ASSUME NEW w \in Workers, NEW u \in Users, NEW op \in Ops, Begin(w, u, op)
      PROVE  Held'
  <2>1. lock = NoWorker
    BY <1>2 DEF Begin
  <2>2. ASSUME NEW v \in Workers, v # w PROVE req'[v] = req[v] /\ ~req[v].busy
    BY <1>2, <2>1, <2>2, EditorialAssumption DEF Begin, Held, TypeOK
  <2>3. /\ lock' = w /\ item' = item /\ sources' = sources /\ claims' = claims
        /\ req'[w] = [busy |-> TRUE, actor |-> u, op |-> op, item |-> item,
                     sources |-> sources, claims |-> claims]
    BY <1>2 DEF Begin, TypeOK
  <2> QED
    BY <2>2, <2>3 DEF Held
<1>3. CASE UNCHANGED vars
  BY <1>3 DEF vars, Held
<1> QED
  BY <1>1, <1>2, <1>3, CommitFacts DEF Next, RollBack

(* A commit that edits leaves a draft; every other leaves sources and claims *)
(* alone, and the text with them.                                           *)
LEMMA LockedCommit ==
  ASSUME TypeOK, Held, NEW w \in Workers, Commit(w), item'.status \in ReleasedStates
  PROVE  /\ sources' = sources /\ claims' = claims /\ item'.text = item.text
         /\ item'.status = "published" /\ item.status # "published" =>
              item.status = "reviewed" /\ sources # {} /\ ClaimsApproved(w)
<1> DEFINE row == req[w].item
<1>0. row = item /\ row \in Items /\ item \in Items
  BY CommitFacts, BusyFacts DEF Held, TypeOK
<1>1. ASSUME NEW r \in Items, r.status = row.status, Editable(row), Save(w, Demoted(r)) PROVE FALSE
  <2>1. Demoted(r).status = "draft" /\ Demoted(r) \in Items
    BY <1>1, DemotedFacts DEF Editable, EditableStates, Items, Demoted
  <2>2. item'.status = "draft"
    BY <1>0, <1>1, <2>1 DEF Save, Items
  <2> QED
    BY <2>2 DEF ReleasedStates
<1>2. CASE CreateContent(w)
  BY <1>2 DEF CreateContent, FreshItem, ReleasedStates
<1>3. CASE UpdateContent(w)
  <2>1. [row EXCEPT !.text = req[w].op.text, !.modifier = req[w].actor] \in Items
    BY <1>0, <1>3, CommitFacts, BusyFacts DEF UpdateContent, Doing, Ops, Items
  <2> QED
    BY <1>0, <1>1, <1>3, <2>1 DEF UpdateContent, Items
<1>4. CASE AddSource(w) \/ AddClaim(w)
  <2>1. [row EXCEPT !.modifier = req[w].actor] \in Items
    BY <1>0, CommitFacts, BusyFacts DEF Items
  <2> QED
    BY <1>0, <1>1, <1>4, <2>1 DEF AddSource, AddClaim, Items
<1>5. CASE ReviewClaim(w)
  BY <1>0, <1>1, <1>5 DEF ReviewClaim
<1>6. CASE ApproveContent(w)
  BY <1>0, <1>6 DEF ApproveContent, Save, Items
<1>7. CASE PublishContent(w)
  <2>1. req[w].sources = sources
    BY CommitFacts DEF Held
  <2> QED
    BY <1>0, <1>7, <2>1 DEF PublishContent, Save, Items
<1>8. CASE ArchiveContent(w)
  BY <1>0, <1>8 DEF ArchiveContent, Archived, Save, Items, ReleasedStates
<1>9. CASE ReturnToDraft(w)
  BY <1>0, <1>9 DEF ReturnToDraft, Save, Items, ReleasedStates
<1> QED
  BY <1>2, <1>3, <1>4, <1>5, <1>6, <1>7, <1>8, <1>9 DEF Commit

Locked == TypeOK /\ Held /\ ReviewStands /\ PublishedEvidence

(* A released item keeps its review and its evidence. *)
LEMMA LockedStep ==
  ASSUME RowLocks, Locked, [Next]_vars
  PROVE  Locked'
<1>0. TypeOK' /\ Held'
  BY TypeStep, HeldStep DEF Locked
<1> SUFFICES ReviewStands' /\ PublishedEvidence'
  BY <1>0 DEF Locked
<1>1. CASE UNCHANGED <<item, sources, claims, approved>>
  BY <1>1 DEF Locked, ReviewStands, PublishedEvidence, Released
<1>2. ASSUME NEW w \in Workers, Commit(w), item'.status \in ReleasedStates
      PROVE  ReviewStands' /\ PublishedEvidence'
  <2>1. /\ sources' = sources /\ claims' = claims /\ item'.text = item.text
        /\ item'.status = "published" /\ item.status # "published" =>
             item.status = "reviewed" /\ sources # {} /\ ClaimsApproved(w)
    BY <1>2, LockedCommit DEF Locked
  <2>2. req[w].item = item /\ req[w].sources = sources /\ req[w].claims = claims
    BY <1>2, CommitFacts DEF Locked, Held
  <2>3. approved' = IF item.status \in ReleasedStates THEN approved
                   ELSE Content(item.text, sources, claims)
    BY <1>2, <2>2 DEF Commit, ReviewInForce
  <2>4. ClaimsApproved(w) =>
          \A c \in Claims : claims[c].status \in PublishableClaimStates \union {"absent"}
    BY <2>2 DEF ClaimsApproved
  <2> QED
    BY <2>1, <2>3, <2>4 DEF Locked, ReviewStands, PublishedEvidence, Released
<1>3. ASSUME item'.status \notin ReleasedStates PROVE ReviewStands' /\ PublishedEvidence'
  BY <1>3 DEF ReviewStands, PublishedEvidence, Released, ReleasedStates
<1> QED
  BY <1>1, <1>2, <1>3 DEF Next, Begin, RollBack, vars

(* With row locks, together these facts are an invariant. *)
LEMMA AlwaysLocked ==
  ASSUME RowLocks
  PROVE  Spec => []Locked
<1>1. Init => Locked
  <2> SUFFICES ASSUME Init PROVE Held /\ ReviewStands /\ PublishedEvidence
    BY TypeInit DEF Locked
  <2>1. item.status \in {"none", "draft"}
    BY DEF Init, FreshItem
  <2> QED
    BY <2>1 DEF Init, Idle, Held, ReviewStands, PublishedEvidence, Released, ReleasedStates
<1>2. Locked /\ [Next]_vars => Locked'
  BY LockedStep
<1> QED
  BY <1>1, <1>2, PTL DEF Spec

(* On a database with row locks, what is reviewed or published is exactly   *)
(* what its reviewer approved.                                              *)
THEOREM ReviewAlwaysStands ==
  ASSUME RowLocks
  PROVE  Spec => []ReviewStands
<1>1. Locked => ReviewStands
  BY DEF Locked
<1> QED
  BY <1>1, AlwaysLocked, PTL

(* And what is published has a source and no unapproved claim.              *)
THEOREM PublishedWithEvidence ==
  ASSUME RowLocks
  PROVE  Spec => []PublishedEvidence
<1>1. Locked => PublishedEvidence
  BY DEF Locked
<1> QED
  BY <1>1, AlwaysLocked, PTL

-----------------------------------------------------------------------------
(* What the readers of the item rely on                                    *)

(* Under the lock a published item can only be archived. *)
LEMMA PublishedFrozen ==
  ASSUME TypeOK, Held, NEW w \in Workers, Commit(w), item.status = "published"
  PROVE  claims' = claims /\ (item' = item \/ item'.status = "archived")
<1> DEFINE row == req[w].item
<1>0. row = item /\ row \in Items /\ row.status = "published"
  BY CommitFacts, BusyFacts DEF Held
<1>1. ~Editable(row) /\ ~CreateContent(w)
  BY <1>0 DEF Editable, EditableStates, CreateContent
<1>2. ArchiveContent(w)
  BY <1>0, <1>1 DEF Commit, UpdateContent, ApproveContent, PublishContent, ReturnToDraft,
                    AddSource, AddClaim, ReviewClaim
<1> QED
  BY <1>0, <1>2 DEF ArchiveContent, Archived, Save, Items

(* A saved item has the next revision. *)
LEMMA NextRevision ==
  ASSUME TypeOK, Snapshots, Succeeds
  PROVE  item' = item \/ item'.revision = item.revision + 1
<1>1. ASSUME NEW row \in Items, Follows(item, row), item' = [row EXCEPT !.revision = @ + 1]
      PROVE  item'.revision = item.revision + 1
  BY <1>1 DEF Follows, Items
<1>2. CASE item.status = "none" /\ item'.revision = 1
  BY <1>2 DEF Snapshots
<1> QED
  BY <1>1, <1>2 DEF Succeeds

Seen == item.status = "published" /\ item.indexed
SeenVerdicts == [c \in Claims |-> claims[c].status]
SeenRow == [public |-> Seen, revision |-> item.revision, verdicts |-> SeenVerdicts]

LEMMA SeenTypes ==
  ASSUME TypeOK
  PROVE  /\ Seen \in BOOLEAN /\ item.revision \in Nat
         /\ SeenVerdicts \in [Claims -> Verdicts \union {"absent", "draft"}]
<1>1. item \in Items /\ claims \in [Claims -> ClaimRows]
  BY DEF TypeOK
<1>2. \A c \in Claims : claims[c].status \in Verdicts \union {"absent", "draft"}
  BY <1>1 DEF ClaimRows
<1> QED
  BY <1>1, <1>2 DEF Seen, SeenVerdicts, Items

(* Each commit is a withdrawal, a publication or a private change. *)
LEMMA CommitSeen ==
  ASSUME Versioned, Locked, Versioned', NEW w \in Workers, Commit(w)
  PROVE  SeenRow' \in Public!Successors(SeenRow) \/ SeenRow' = SeenRow
<1>0. /\ TypeOK /\ TypeOK' /\ Snapshots /\ Held
      /\ Seen <=> item.status = "published"
      /\ Seen' <=> item'.status = "published"
  BY DEF Versioned, Locked, Kept, Seen
<1>1. item' = item \/ item'.revision = item.revision + 1
  BY <1>0, CommitSucceeds, NextRevision
<1>2. SeenRow.public = Seen /\ SeenRow.revision = item.revision /\ SeenRow.verdicts = SeenVerdicts
  BY DEF SeenRow
<1>3. CASE Seen
  <2>1. claims' = claims /\ (item' = item \/ item'.status = "archived")
    BY <1>0, <1>3, PublishedFrozen
  <2>2. CASE item' = item
    BY <2>1, <2>2 DEF SeenRow, Seen, SeenVerdicts
  <2>3. CASE item' # item
    <3>1. Seen' = FALSE /\ item'.revision = item.revision + 1 /\ SeenVerdicts' = SeenVerdicts
      BY <1>0, <1>1, <2>1, <2>3 DEF SeenVerdicts
    <3>2. SeenRow' = Public!Row(FALSE, SeenRow.revision + 1, SeenRow.verdicts)
      BY <1>2, <3>1 DEF SeenRow, Public!Row
    <3>3. SeenRow' \in Public!Withdrawals(SeenRow)
      BY <1>2, <1>3, <3>2 DEF Public!Withdrawals
    <3> QED
      BY <3>3 DEF Public!Successors
  <2> QED
    BY <2>2, <2>3
<1>4. CASE ~Seen /\ Seen'
  <2>1. /\ claims' = claims /\ ClaimsApproved(w) /\ req[w].claims = claims
        /\ item'.revision = item.revision + 1
    BY <1>0, <1>1, <1>4, LockedCommit, CommitFacts DEF ReleasedStates, Held
  <2>2. \A c \in Claims : SeenVerdicts[c] \in PublishableClaimStates \union {"absent"}
    BY <2>1 DEF ClaimsApproved, SeenVerdicts
  <2>3. Public!AllApproved(SeenRow.verdicts)
    BY <1>2, <2>2 DEF Public!AllApproved
  <2>4. SeenRow' = Public!Row(TRUE, SeenRow.revision + 1, SeenRow.verdicts)
    <3>1. Seen' = TRUE /\ SeenVerdicts' = SeenVerdicts
      BY <1>0, <1>4, <2>1 DEF SeenVerdicts, Seen
    <3> QED
      BY <1>2, <2>1, <3>1 DEF SeenRow, Public!Row
  <2>5. SeenRow' \in Public!Publications(SeenRow)
    BY <1>2, <1>4, <2>3, <2>4 DEF Public!Publications
  <2> QED
    BY <2>5 DEF Public!Successors
<1>5. CASE ~Seen /\ ~Seen'
  <2>1. /\ Seen' = FALSE /\ item'.revision \in {item.revision, item.revision + 1}
        /\ SeenVerdicts' \in [Claims -> Verdicts \union {"absent", "draft"}]
    <3>1. Seen' \in BOOLEAN
      BY DEF Seen
    <3>2. (SeenVerdicts \in [Claims -> Verdicts \union {"absent", "draft"}])'
      BY <1>0, SeenTypes, PTL
    <3> QED
      BY <1>1, <1>5, <3>1, <3>2
  <2>2. SeenRow' \in [public : {FALSE}, revision : {item.revision, item.revision + 1},
                      verdicts : [Claims -> Verdicts \union {"absent", "draft"}]]
    BY <2>1 DEF SeenRow
  <2>3. SeenRow' \in Public!PrivateChanges(SeenRow)
    BY <1>2, <1>5, <2>2 DEF Public!PrivateChanges
  <2> QED
    BY <2>3 DEF Public!Successors
<1> QED
  BY <1>3, <1>4, <1>5

(* On a database with row locks the workflow keeps the contract its readers  *)
(* rely on, step by step.                                                   *)
THEOREM KeepsPublicContract ==
  ASSUME RowLocks
  PROVE  Spec => PublicContract
<1>1. Init => Public!Init
  <2> SUFFICES ASSUME Init PROVE Public!Init
    OBVIOUS
  <2>1. ~Seen
    BY DEF Init, FreshItem, Seen
  <2>2. SeenRow \in [public : BOOLEAN, revision : Nat,
                     verdicts : [Claims -> Verdicts \union {"absent", "draft"}]]
    BY TypeInit, SeenTypes DEF SeenRow
  <2> QED
    BY <2>1, <2>2 DEF Public!Init, Public!Rows, SeenRow, Seen, SeenVerdicts
<1>2. Versioned /\ Versioned' /\ Locked /\ [Next]_vars =>
        SeenRow' \in Public!Successors(SeenRow) \/ SeenRow' = SeenRow
  BY CommitSeen DEF Next, Begin, RollBack, vars, SeenRow, Seen, SeenVerdicts
<1>3. Versioned /\ Versioned' /\ Locked /\ [Next]_vars =>
        [Public!Next]_[public   |-> item.status = "published" /\ item.indexed,
                       revision |-> item.revision,
                       verdicts |-> [c \in Claims |-> claims[c].status]]
  BY <1>2 DEF Public!Next, SeenRow, Seen, SeenVerdicts
<1> QED
  BY <1>1, <1>3, AlwaysVersioned, AlwaysLocked, PTL DEF Spec, PublicContract, Public!Spec
==============================================================================
