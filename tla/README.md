# Verification of AI Search Arab: models, checks and proofs

The repository holds a static site, an admin and search API (FastAPI over
PostgreSQL, `platform/apps/api`), a runtime for agents (`agent-os`) and release
tooling. The TLA+ modules in this directory model the parts of it whose
correctness depends on order: on two requests that overlap, on an operation
that fails after it did something, on a provider that takes its time. TLC checks
them on small instances, and TLAPS proves the most important statements for
every value of the constants.

Paths below are relative to the repository; `api/` abbreviates
`platform/apps/api/src/aisearcharab_api/` and `agent_os/` abbreviates
`agent-os/src/agent_os/`.

## 1. Inventory

| Component | State it keeps | Operations | Hard behaviour | What makes it correct |
|---|---|---|---|---|
| Recovery executor and policy (`agent_os/runtime.py`, `reliability.py`) | counters and the action list of one call | `execute`, `decide` | the operation fails after its effect; the effect lands late; callbacks, classifier and trace sink raise | no second effect, no blind retry, it ends, the verdict agrees with the world |
| Editorial workflow (`api/routes_admin.py`, `models.py`, `rbac.py`) | `content_items`, `sources`, `claims` | create, update, transition, add source, add claim, review claim | overlapping transactions, with row locks (PostgreSQL) or without (SQLite) | what is released is what was reviewed; duties are distinct; search sees published items only |
| Sessions and step-up (`api/auth.py`, `routes_auth.py`, `security.py`) | `users`, `admin_sessions` | login, step-up, logout, expiry | a request authenticates before it locks; revocation overlaps a login | a live session belongs to the account as it is now; revocation is final |
| Second factor (`api/routes_mfa.py`, `mfa.py`) | secret, last counter, pending enrolment, recovery codes | start, confirm, verify, regenerate, disable, cancel | the same code in two requests; time passes between the steps | a code is accepted once; codes and factor go together |
| User administration (`api/routes_admin.py`) | `users` | create, `update_user` | two owners demoted together; crossed row locks | an active owner is left; sessions are revoked |
| Login throttle (`api/login_throttle.py`) | `login_throttles` | enforce, record, clear | rows created twice, row deleted meanwhile | no more failures than allowed in a window |
| Grounded answers (`api/routes_generated_answers.py`, `grounded_workflow.py`, `generated_answers.py`) | the request; `audit_events` | retrieve, release, reserve, generate, validate, revalidate, record | evidence changes while the provider answers; the provider never answers; the database fails | only standing evidence is quoted; the provider call holds nothing; the log is truthful |
| Generation quota (`api/generation_quota.py`) | reservation rows of `audit_events` | reserve | the clock is read before a wait; window ends | the quota holds in every window; Retry-After suffices |
| Orchestration patterns (`api/orchestration.py`) | results of workers | chain, route, parallel, workers, evaluator loop | one worker of several fails | bounded rounds, no lost failure, nothing left running |
| Tool policy (`api/tool_policy.py`) | registered capabilities | register, authorize | rules of registration and rules of use add up | no effect without permission and key or approval |
| Approvals, policy, MCP gateway (`agent_os/policy.py`, `approval.py`, `mcp_gateway.py`) | grants and their windows | authorize | clock skew, a grant used again, withdrawn or for other arguments | what is let through was approved, for this call and in time |
| Agent registry, team planner, router (`agent_os/agent_registry.py`, `team.py`, `orchestrator.py`, `model_router.py`) | the registry, waves, handoffs | plan, choose | limits against mandatory members | a wave starts after what it depends on; nobody mandatory is dropped |
| Tracing, memory, evaluation, CLI (`agent_os/...`) | files | write, score | none that interleaves | not modelled |
| Research fetcher (`api/research_fetcher.py`, `research_policy.py`) | the chain of hops | fetch | redirects | each hop is vetted, hops are bounded |
| Geo intelligence (`api/geo/`) | organizations, memberships, projects, query sets, queries, provider results | create, list, append a result | ids of one tenant in requests of another; caller-owned transactions; races for a slug | no row crosses tenants; nothing is left half made |
| Retrieval judgments (`api/retrieval_judgments.py`) | a dataset | parse, finalize, gate | missing judges, zero denominators | final judgments are independent; promotion is earned |
| Search (`api/search.py`, `repository.py`) | none | rank | none that interleaves | not modelled |
| Middleware (`api/middleware.py`) | the buffered body | receive, replay | chunks and disconnects | the application sees the body once, or 413 |
| Service worker (`static/sw.js`) | two caches | install, activate, fetch, trim | concurrent fetches | the cache is brought back to its bound |
| Staging probes (`api/staging_probe.py`, `staging_load_probe.py`) | sockets, deadlines, measurements | probe, load, judge | addresses and revisions that change, late answers, failures that leave connections | a report that passes is about what it names |
| Readiness guardian, release evidence (`engineering/readiness_guardian/`, `platform/apps/api/scripts/release_evidence.py`) | gates, the validated artifact, the screen | import, restore, upload, scan, decide | evidence of another matrix or commit; a scan awaited meanwhile | GO is earned |
| Assistant page (`api/assistant_static/assistant.js`) | user, epoch, the running question, the answer shown | log in, ask, log out | late and lost responses; one cookie for all of them | what is shown belongs to one user |
| Admin page (`api/admin_static/admin.js`, `mfa-bridge.js`) | user, selected item, buttons, dialogs | log in with a second factor, open, change, step up, log out | late responses under other buttons; overlapping logins | requests are about what is shown; the factor is settled first |
| Templates, migrations, CI scripts | files | | | not modelled |

How they interact: every API request authenticates through *sessions*, works in
one SQLAlchemy session, and commits or rolls back as a whole (`api/database.py`,
`get_db`). *Editorial workflow* writes the rows that *search* and *grounded
answers* read; the revision column of an item is the only thing that passes
between them. *Grounded answers* calls *quota*, then the provider over the
network, outside any transaction. *User administration* reaches into *sessions*
by revoking them. `agent-os` is a library of its own: the *recovery executor*
runs whatever operation, classifier, verifier and callbacks it is given.

The hazards of this code, each at its line with the property that would catch
it, are listed in `PROJECT.json`; a hazard without a property, or with a side that no
property covers, says why.

## 2. Modules

| Module | Models | Extends or instantiates |
|---|---|---|
| `OutcomeContract` | what a caller of `execute` may rely on (abstract) | |
| `RecoveryExecutor` | `execute` under `RecoveryPolicy` | implements `OutcomeContract` |
| `ContentRows` | how one item may change, as its readers see it | |
| `VersionedContent` | the editorial contract as a specification (abstract) | extends `ContentRows` |
| `EditorialWorkflow` | the editorial endpoints on one item | implements `VersionedContent` |
| `AccountSessions` | one account, its sessions and its factor | |
| `UserAdministration` | the accounts, the owners among them, and their row locks | |
| `LoginThrottle` | `login` under one throttle key, with a clock | |
| `GenerationQuota` | `reserve_generation_quota` with a clock | |
| `GroundedAnswer` | `POST /answers/grounded` against editors and database | extends `ContentRows` |
| `WorkerPool` | `run_orchestrator_workers` and `run_parallel` | |
| `EvaluatorLoop` | `run_evaluator_loop` | |
| `ResearchFetch` | `ResearchFetcher.fetch` under its source policy | |
| `RequestBodyLimit` | the buffering middleware | |
| `RuntimeCache` | the service worker's runtime cache | |
| `AgentGateway` | `MCPGateway.authorize` with policy, injection check and approvals | |
| `ToolPolicy` | registration and authorization of tools | |
| `TeamPlan` | `TeamPlanner.plan`, `ModelRouter.choose` | |
| `GeoTenancy` | the geo API's transactions and `append_provider_result` | |
| `RetrievalJudgments` | finalizing and promoting human judgments | |
| `AnswerEvidence` | evidence packs and the answers checked against them | |
| `StagingEvidence` | the probe and the load probe of a staging deployment | |
| `ReadinessGuardian` | the readiness page and gate | |
| `AssistantPage` | the readers' page | |
| `AdminPage`, `SecondFactorDialog` | the editors' page, and what stands between it and the network | |
| `Computations` | the components that compute more than they keep, with their constants | instantiates `TeamPlan`, `RetrievalJudgments`, `AnswerEvidence` |
| `Lists` | the operators on sequences that the computations need, under the names of the community module `SequencesExt` | |
| `MCComponents` | components that share nothing, one active at a time | extends `LoginThrottle`, instantiates the five before `AgentGateway` |
| `MCServices` | the same for quota, executor with late effects, and the modules from `AgentGateway` on | extends `GenerationQuota` and `Computations`, instantiates the others |
| `MC...` | model values, symmetry sets and small functions for TLC | |
| `...Proofs` | theorems and proofs | extend their module and `TLAPS`; those of the components in `MCComponents` and `MCServices` are in one module each, but for `ComputationProofs`, which `MCServicesProofs` extends |

The composition of writers and readers goes through `ContentRows`:
`EditorialWorkflow` is shown to change an item only as `ContentRows!Successors`
allows (property and theorem `PublicContract`), and `GroundedAnswer` lets its
editors do anything that `Successors` allows. So what is proved of a grounded
answer does not depend on how many editors there are, or on what they do.

### RecoveryExecutor

One call of `RecoveryExecutor.execute`. `pc` says where the loop is: at its
`head`, in `operation()` (`running`), in the verifier, in a callback, or ended by
returning or raising. `attempts`, `toolCalls`, `elapsed`, `lastAction` are the
fields of the same names; `outcome` is the `ExecutionResult`. `effects` and
`inFlight` belong to the world: how often the external effect was applied, and
how many applications a failed call left behind that have yet to land.
`failure`, `unverified`, `returned` are history for the properties.

`decide` is `RecoveryPolicy.decide` with its branches in the order of the code:
budget and denial, then a touched outside world, then the class of the failure.
`EffectiveSignal` is the rule that a classifier may lower, never raise, the
idempotence of the operation. Every exit runs through the tracer; a sink that
raises replaces the result (`End`, `Continue`).

Assumptions on the environment: the verifier reports what is there at the time;
a failure classified as malformed arguments or stale context, with no uncertain
side effect, happened before the tool ran, and `postcondition_verified` is
reported only if the effect is there (`Honest`); after a replan the operation
continues from the state it observes (`NewEffects`). With `DelayedEffects = FALSE` an effect is visible by the time the
call has failed.

### EditorialWorkflow

One content item with its sources and claims; items share only source keys. A
request `Begin`s (authorisation and the read of the item and its relations,
under the row lock if the database has one), then either commits one endpoint's
whole effect or rolls back. `req[w]` holds the rows it has read: what it decides
on. `Save` is the flush of the item: no UPDATE if no column changed, otherwise
one guarded by the revision that was read (`version_id_col`) that increments it.
`approved` is history: text, sources and verdicts as the review in force saw
them.

The permission check is merged with the read, because roles are constant here.
Step-up is a matter of `AccountSessions`. Of a claim's row the model keeps the
review status; `review_claim` writes the confidence in the same statement, so a
claim's verdict stands for both. With `RowLocks = FALSE` (SQLite, development
only; `api/config.py:229` requires PostgreSQL for secure deployments) the
revision alone protects the item. `PublishedEvidence` does not hold there: the
review of a claim of a *draft* item leaves the item's row alone, so the revision
does not see it.

### AccountSessions

One account on PostgreSQL. A request authenticates without locks (`Begin`),
locks the user row and then the session row, reading each anew (`LockUser`,
`LockSession`), and commits. `login` and `update_user` lock the user row only;
`logout` and `cancel` the session row only. `update_user`'s actor belongs to
another account. `epoch` counts security changes and so names the password, role
and activation a session was opened under. Time counts TOTP periods; a code is a
pair of a secret and a counter, and distinct counters give distinct codes.
`last_seen_at` is not tracked: any session may be found idle at any time. A
login with a wrong password changes only the throttle and is left out; so are
cookies, CSRF tokens and password hashing. The bulk UPDATE of
`_revoke_sessions` waits for live rows that are locked, and `logout`'s audit row
waits for the user's row, to which its foreign key refers.

### UserAdministration

Several accounts, each with a role and an activation, and the requests that
compete for their rows. `account`, `userLock` and `sessionLock` are the tables;
`stage`, `job`, `row`, `todo`, `want` and `counted` are the progress of a
request. `update_user` locks its target (`LockTarget`), takes the snapshot of
the active owners (`SelectOwners`), locks them one by one in whatever order the
plan of the query gives and counts those that still qualify (`LockOwner`), then
decides, revokes the target's sessions and commits. The actor's row was read by
authentication, and the ORM does not refresh an object it has: who updates
themselves is judged by that older row (`row`). A request holds its locks until
its transaction ends. The audit row's foreign key makes every commit wait for
the actor's row.

Nothing orders these locks: two updates can each hold a row the other wants, and
a logout can hold its session and wait for its user while an update holds the
user and waits for the session. PostgreSQL breaks such a ring by aborting a
member (`DetectDeadlock`); without it TLC finds requests that never end. The
roles other than the owner's are alike here, sessions are one row per user, and
`Abort` lets any request fail at any time. Logins, which take the same user row
and nothing else, add nothing and are left out.

### LoginThrottle

Overlapping logins of one source at one account. `throttle` is the row of
`login_throttles`; `seen[w]` is the object a request holds, with the reset of
the window that `enforce_login_throttle` leaves pending; `now[w]` is the time at
which `record_login_failure` counts. A request that finds a row keeps it locked
to its end. Requests that find none are kept apart only by the account's row, if
there is an account, and by the unique index when they insert: `Insert` waits for the
transaction that inserted first (`inserter`), then counts on its row, or fails
with a 500 if the row is gone again (`Fail`), which takes an account that was
created between the two requests (`CreateAccount`). `entered` and `misses` are
history.

Two orders of locking exist, row then account and account then row, so logins
can deadlock; PostgreSQL aborts one, and its failure is not counted. Because
`now` is read before the wait for the row, a late failure may set
`blocked_until` to an earlier time than it had, or find the window over and lift
a block that is longer than the window; both take a wait as long as the
configured times (30 s and more) or several logins that found no row, and
nothing in the repository promises otherwise.

### GenerationQuota

The requests of one user. `Arrive` reads the clock, `LockUser` waits for the
user's row, `Reserve` or `Limit` commits. `reservations` are the audit rows with
their `created_at`, which is *later* than the `now` of the request that made
them. One clock serves all replicas. `Limit` records the time its Retry-After
names as a promise, unless a reservation was committed while the request waited
for the lock: then `now` is stale, the oldest row may lie after it, and the wait
named is longer than needed or refers to a room that is gone already. Under
READ COMMITTED the count, which follows the lock, sees every committed row.

### GroundedAnswer

A request goes through the stages of `execute_grounded_workflow`: `items` and
`claims` (two statements of one transaction), `quota` and `counting`, `generate`
(the provider), `recheck` and `recheck_claims`, `record`, `ended`. `found`,
`revision`, `evidence` are the frozen copies, `refs` the provider's selection.
`holder` and `inTransaction` say who holds a user's row and whose session has a
transaction open. A verdict stands for review status and confidence together
(`Confidence`), as a claim's text and type never change.

Abstractions: ranking and the limits on claims, sources and characters are the
free choice of a set of matching items (and of the provider's selection among
their claims); the final read of the claims is merged with the decision on it; a
connection that cannot be had is a `DatabaseError`; a result built by the server
always satisfies `validate_grounded_contract`, as `AnswerEvidence` checks, so its
failure is not a case here; authentication and the feature flag come before `Arrive`. Whether the
quota admits the request is left open, as `GenerationQuota` decides it.

### WorkerPool, EvaluatorLoop

One call of each pattern of `orchestration.py` that has an order to get wrong. In
`WorkerPool` the pool's threads take names from `queue` while the caller awaits
the futures in the order of the plan; `Await` stops at the first that raised, and
`Shutdown` is the end of the `with` block, which waits for every worker, those
not begun included. `completed` and `culprit` are what the caller learns. In
`EvaluatorLoop` candidates are numbers in order of creation, so a verdict can be
held against the candidate it is returned with. The callables may raise
anywhere. `run_sequential` and `run_routed` call one function after the other.

### ResearchFetch

`fetch` says where the call is, `host` and `addresses` are the preflight in
force, `tried` the addresses `_request_once` has been through. The name service
gives any set of addresses each time (`Enter`), so a name may resolve differently
on every hop; a connection may end up at any peer, which `Vetted` compares with
the preflight. An attempt has the three endings of the code: what `_request_once`
catches (`OSError`, `SSLError`, `HTTPException`, `ResearchTargetDenied`) closes the
connection and leads to `NextAddress`; what is raised before there is a socket ends the
call with nothing open (`NotConnected`); and a request that http.client cannot encode
ends it with the connection open (`Abandon`). Which requests those are is a constant:
`Unwritable` holds the hosts of such URLs, as spelled. The allowlist compares IDNA
names, the `Host` header is the name as it was given, and a name beyond Latin-1 cannot
be written to it. Redirects lead to no such host, since a `Location` is read as
Latin-1. Exceptions that stop the process are left out. A response that is no redirect has a framing, a declared length, a
type and a size (`Responses`), which `Judge` goes through in the order of the code:
what is declared is judged before the body is read, and one byte more than the
source allows is asked for. Status errors and malformed URLs are the free `Refuse`.
`PolicyIsValid` is what a source policy is held to when it is made, and is assumed
of the constants. The order of the addresses (sorted in the code) is left open.
`requests` and `dns` are history.

### RequestBodyLimit

Messages are chunk lengths with a flag, or a disconnect. `Buffer` reads until the
body is complete, too large or broken off; `Replay` and `PassThrough` are
`replay_receive`, before and after the buffer is used up. What a Content-Length
says is left open: it may refuse a request, and it never admits one.

### RuntimeCache

Every `await` of `sw.js` is a step: the network's answer and the put (`Put`), the
reading of the keys (`Survey`), each deletion (`Delete`). `keys` keeps the order
that the Cache API gives them. The browser may stop the worker when every page has
its response (`Stop`), which drops the revalidation that `void networkPromise`
leaves running. `debt` is history: what a trim that never came has left behind.
Two trims may delete the same keys or an entry that was put again since, so the
cache may end up below its bound; nothing promises otherwise.

### AgentGateway, ToolPolicy

One tool call after another reaches the gateway: untrusted text is checked for
injection, the rules of `config/policies/default.json` are evaluated in their
order, and a call that needs approval takes a grant. `paper` is the one grant the
authority may have issued, with the digest of its call, its window and its
environment; `standing` is what the authority says of it, which may change between
the gateway's reading of its clock (`asked`) and the answer. Clocks differ by the
skew. A grant may be presented again, after it was withdrawn, altered, or for a
call with other arguments. What an injection pattern matches is a flag of the text.

`ToolPolicy` takes every capability of a small universe through registration and
every invocation through `authorize`; its property composes the two.

### TeamPlan

A brief is what planners see of a task: which triggers it matches and how often,
whether it is risky, how many specialists and how large a wave are asked for.
`team`, `waves` and `handoffs` are computed as the code does, ties by name, and
the reference is a statement about any plan (`PlanWellOrdered`): everyone in one
wave of bounded size, verification after release work, the reviewer alone at the
end, no handoff backwards. The coordinator is in the first *phase* but may share
its waves: `agent-os/docs/MULTI_AGENT_TEAM.md` has it begin, and priorities
put it first among those who plan.

### GeoTenancy

Each client makes one request, a transaction of statements that each read what is
committed then: membership (`Access`), the rows named by the request (`Lookup`),
the insert (`Flush`), the rest (`Complete`), the commit. A statement whose unique
key another open transaction holds waits for it. Ids in requests are combined at
will, so a project of one organization is named under another. An operator may
remove a membership at any time (no endpoint does); it is checked once, so a
request under way still writes, and `May` counts those who were members. A
provider result is staged in its caller's transaction and may fail at any row.

### RetrievalJudgments, AnswerEvidence

Both are sequential; the runs go through every bounded input and compare what the
code computes with a statement of what it should mean. `RetrievalJudgments` takes a
file of ratings and adjudications to a final dataset and a decision to promote;
kappa is rounded to ten-thousandths and compared for every pair of short rating
lists: it is symmetric, between -1 and 1, and 1 for equal lists (`KappaSound`). That it is 1
for equal lists *only* is stated up to 6666 ratings: beyond, a single difference may be lost
in the rounding.
`AnswerEvidence` takes ranked candidates to the pack that is sent (budgets of
characters, claims, sources and URLs) and the provider's selection to an answer;
texts are sizes. `ContractHolds` is the workflow's own judgment of the result, which
asks for less than the property and so never refuses one. `GroundedAnswer` has the
request around it.

### StagingEvidence

The requests of a probe, one after the other, and of a load, a few at a time, with
the socket each holds, the address it tries and its deadline. Addresses are
resolved once; the deployment may change its revision at any time (`deployed`),
and any answer may be bad (`spoilt`). The evidence is about the revision of the
deployment check: a deploy between the preflight and the load is not seen by the
scripts, and the property does not claim it.

### ReadinessGuardian

The page's `gates` and `validated` flag, the decision last shown (`screen`), and a
scan that is awaited while anything else happens. Artifacts and matrices are small
sets that differ in one respect each. `ContractNamesRef` says whether
`ReleaseEvidence` has the field the validator reads: it has not (section 6), which
makes GO unreachable, so `MCServices` checks the rules with `TRUE`, as the README of
the guardian describes the contract, and `readiness_contract` runs the code as it is.
After a rejected upload the screen keeps its decision until something refreshes it,
while the state behind it is NO-GO; an export reads the state.

### AssistantPage, AdminPage, SecondFactorDialog

Requests of a page overlap, and each response arrives whenever it likes or is lost.
In `AssistantPage` the server's part of a request and the page's are two steps, as
the cookie may change between them; `epoch` and `controller` are what the page
compares. `AdminPage` keeps the selected item by its status, with the buttons made
for it; a click sends what the button says about the item that is selected *then*,
which the login panel clears, though it leaves the hidden buttons. A step-up dialog
is modal and blocks every click. `SecondFactorDialog` is the `fetch` wrapper of
`mfa-bridge.js` with its stack of dialogs; two submitted logins share one cookie, and
every request of either, the status that follows a login included, goes with the
cookie of its moment, so that a login may be settled by another's session.
One tab is modelled: other tabs of the browser share the cookie, and the server
checks it on every request. Lists, labels and forms' contents are left out, and
the responses are delivered whatever the cookie was, which allows more than the
server does.

## 3. Runs

| Run | Instance | Question |
|---|---|---|
| `recovery_executor` | 3 attempts, 3 tool calls, clock to the limit, effects visible at once (`OnTime`); late effects are in `services`; every call, failure, classification | at most once, no blind retry, termination, implements the contract |
| `recovery_unknown`, `recovery_trace` | 2 attempts | violations, see section 6 |
| `editorial_locked` | 3 administrators, 2 overlapping requests, 2 texts, 1 source, 2 claims, revisions to 5, row locks | the review stands, published evidence, the contract with readers |
| `editorial_versioned` | 3 administrators, 2 requests, revisions to 6, no claims, no row locks | distinct duties, search flag, order of states |
| `editorial_four_eyes` | an editor and an administrator | violation, see section 6 |
| `account_sessions` | 2 requests, 2 sessions, 2 secrets, 2 batches of one recovery code, 2 periods, 1 change of the account, 2 wrong factors | each code once, factor and codes coherent, sessions follow the account, misses count, revocation is final, mandatory factors stay |
| `user_administration` | 2 accounts, 2 requests, every role, activation and payload | an active owner is left, every request ends |
| `grounded_answer` | 2 requests of one user, 2 items, 3 verdicts, revisions to 4 | quotes stood, nothing held during the provider call, truthful log, others proceed |
| `components` | login: 2 requests, 2 failures allowed, window 3, block 2, clock to 3; pool: 3 workers, 2 threads, plans of 3 names; loop: 3 rounds; fetch: 3 hosts, 2 of them allowed, of which one unwritable, 3 addresses, 2 redirects, 2 attempts; body: limit 2, chunks to 2, 4 messages; cache: 3 events, 3 URLs, bound 1 | failures counted once each, blocks respected; order of the plan, nothing left running; verdict on the value; hops, peers and connections; body in order and within the limit; cache bounded; every login and every call ends |
| `services` | quota: 4 requests, quota 2, window of two ticks, clock to 5; executor: as above with late effects, for calls that did not opt into repeating; gateway: lifetime 2, skew 1, clock to 6, 6 calls; team: 2 specialists, waves of 2; geo: 2 clients in 2 organizations; judgments: 3 documents, 3 annotators; staging: 3 samples, 3 requests, 2 at a time; assistant: 3 sessions, 2 questions, 2 logouts; guardian: 3 gates, 10 artifacts; evidence: 4 claims of 2 items; admin: 2 requests, 1 login besides the first identification; bridge: 2 logins, 2 sessions; tools: every capability over 2 permissions | quota and Retry-After; at most once; approved calls; ordered teams; tenants apart; honest evidence; one user at a time; GO is earned; answers supported |
| `readiness_contract` | the guardian with the contract as it is | violation, see section 6 |

Bounds. Three attempts are enough for a failure, an action on it and a second
failure whose action sees the first. Two overlapping requests are what every
lock and revision check of this code is about; a third waits for one of them.
The revision bounds allow create, source, approval, publication and archiving
(or a demotion and a second approval). Two items let one be withdrawn and one
stand; revisions to 4 let an item be published, withdrawn and published again
while the provider is away. `MCAccountSessions` keeps the run finite with a
constraint: a behaviour either goes through two enrolments and batches of codes
and up to the third code accepted, or, with one enrolment, up to the third in all of
periods, changes, misses and codes accepted. In `MCGroundedAnswer` either one request is on its way while both items
go through their revisions, or two are while one item is published. Both are
stated in those modules. Two
failures and a window longer than the block let a block be set, run out and be
followed by a new window. Three workers on two threads leave one queued when
another fails; three fetch events with a bound of one entry put the cache two
entries over. Four requests fill a quota of two, are denied and
come back, and the clock passes the window twice over. Two clients are a race for
a slug, and a member next to a stranger; three sessions let a person log out, another log
in and the first come back while a response of each is under way; a clock of six lets a
grant be issued, used, run out and used again.

`services` has 13 components side by side, and what would only repeat itself is left
out by bounds that `MCServices` states (`Bounded`, `NoReplan`) and the `.cfg` asks for;
the specification, and with it the theorems, does not have them. Requests of the quota
arrive in the order of their numbers, as they are alike; so are the clients of the geo
API, who are numbered by what they ask for, and the places of questions and of the admin
page's requests, of which the first that is free is taken. A geo client who stages an
answer is not asked who they are, so that one user does it; the operator removes a
member who asked for something, since only that member's request can tell. No more than
three of the identification, a login, a logout and two requests are under way on the
admin page. The command-line gate runs from the guardian's first matrix only, as it
shares nothing but the checkout with the page, and a check of the site is imported as
failed or passed or not at all. Of the evidence, the one claim of the second item
matches nothing or cannot be used, and as a refused answer changes nothing, only the
short ones are followed. `AtMostOnceUnlessOptedIn` says nothing of calls that replan.
TLC tells states apart by the active component's variables (`Seen`), as the others keep
their one initial value.

A run whose system may stop says `CHECK_DEADLOCK FALSE`: a call of `execute`
ends, finitely many requests are answered, and of the components only some go on. The editorial and account models
go on for ever, as does user administration, and TLC checks that they cannot get stuck.

Fairness. `RecoveryExecutor`: `WF(Step)`, that is, each callable given to
`execute` returns or raises in the end; the loop itself is sequential code.
`GroundedAnswer`: `WF(ServerStep(r))` for each request, since a worker thread
runs its request to the end and PostgreSQL queues those who wait for a row; weak
fairness is enough because only finitely many requests compete. `UserAdministration` and `LoginThrottle`:
`SF(Proceed(w))`, as a row that is given up goes to those who wait for it in
turn though others come back for it, and `WF(DetectDeadlock(w))`. Pool, loop
and fetch: weak fairness of their steps, since the callables return or raise and
every socket has a timeout; one of the three is active, so one condition serves all. Nothing obliges the
provider to answer, the editors to edit or the database to fail. The other
models state safety only and assume no fairness.

A property of `components` or `services` gathers what one component promises, as defined in its
module; the properties `OneUserAtATime`, `EvidenceHonest` and `ApprovedExactly` gather those of
several, `FailuresCounted` those of a login and `PatternsHold` those of pool and loop, and
`ComputationsHold` is about what is computed in one step: teams, their models, and the measure of
agreement. `AllTyped` has the type invariant of the component that is active; those of the modules with a
proof module of their own are proved instead of run. The constants of all components are constants of these two
modules (and of `Computations`), with values in the `.cfg` and assumptions (`ComponentsAssumption`,
`ServicesAssumption`, `ComputationsAssumption`) that the proofs use. Each property has
a mutant in `PROJECT.json`: an operator next to the one it replaces, with a comment saying what is wrong with it, under which TLC finds the
property violated.

## 4. Proofs

All proofs are for arbitrary constants under the assumptions named in the
modules (`BudgetAssumption`, `EditorialAssumption`, `AccountAssumption`, `AdministrationAssumption`,
`QuotaAssumption`, `VerdictAssumption`, `GroundedAssumption`, `ThrottleAssumption`,
`ComponentsAssumption`, `ServicesAssumption`, `ComputationsAssumption`).

* `RecoveryExecutorProofs`. `TypeCorrect` bounds the counters by the budget.
  `NeverBlind` needs the invariant that a loop head has nothing unexamined
  behind it. `AppliedAtMostOnce` and `Implements`
  assume `~DelayedEffects`; their invariant is that wherever the loop may
  dispatch again the effect is absent, or the plan was changed to continue from
  it, together with the verdict matching what caused it. One lemma, on the
  failure step, uses the classifier's contract.
* `EditorialWorkflowProofs`. Without row locks: a request whose revision
  still matches read the row as it is, because every change increments the
  revision (`Versioned`); duties, search flag and order follow from it. With row
  locks: the holder of the lock has read everything as it is (`Locked`), from
  which `ReviewAlwaysStands`, `PublishedWithEvidence` and the refinement
  `KeepsPublicContract` follow.
* `AccountSessionsProofs`. The invariant says that what a request read under a
  lock is what the rows still hold. `RevokedStaysRevoked`, `SessionsFollowTheAccount`,
  `MandatoryFactorStays`, `FactorStaysCoherent` and `NoMissIsLost` (a wrong factor is
  counted on the row as it is, under its lock) follow; `NoCodeTwice` adds that accepted codes
  are spent: one-time codes lie at or below the last counter of their secret, or
  belong to a secret that is gone, and recovery codes are no longer in the table.
* `UserAdministrationProofs`. `OwnerLeft`: an update that would remove an owner
  holds the target's row, and every account it counted is locked by it and still
  an active owner, as only the holder of a row writes it. It passed with
  the target read as an active owner and two counted, so one of them is another
  account (by cardinality) and is left when it commits. An actor's own row may
  be older than the lock, but nobody demotes or disables themselves.
* `GroundedAnswerProofs`. The invariant is local to a request: an item that was
  found and then disturbed has a revision above the one recorded, and the others
  stand as recorded (`Followed`); what was selected is evidence (`Selected`);
  outcome, audit rows, transactions and locks go with the stage (`Ledger`,
  `Hands`). Revisions grow and public rows are frozen, by `ContentRows` alone.
* `MCComponentsProofs`, of the components side by side: each has an invariant of its
  own, which holds of its variables whichever component is active, so a theorem is the
  step of one component and the stutter of the others (`ComponentSteps`).
  `FailuresAlwaysCounted`: a request that has read the row holds its lock, so what it
  holds is the table's row as it read it, its window begun anew or not (`RequestKnows`);
  the row is right about the failures since the last success: none lies past its window,
  it counts at least those since its start and at most all (`RightAbout`). Failures are
  kept as a set of numbered records, so that their number is a cardinality.
  `PolicyAlwaysKept`: the addresses in force are the last answer for the host in force,
  requests are at most the addresses tried on this hop and all of each hop before, and a
  body is read within the limit by what was asked for; nothing is open before a response
  is there, and what is open when the call is over belongs to an unwritable host.
  `PatternsAlwaysHold`: a worker is
  in the queue, in a thread or done, each once and in the order of the plan, and the
  pool's `with` block ends only when none is left; the loop's verdict is on its last
  candidate. `BodyAlwaysReplayed`: what was delivered and what is left of the buffer make
  up the wire. `CacheAlwaysBounded`: keys beyond the bound are those a trim holds to
  delete or a debt that the next trim pays. `AlwaysTyped` are their type invariants.
* `MCServicesProofs`, in the same way: `AllInv` has an invariant for each component,
  `AllTypes` what these leave open of the types, and `AllInvariance` shows both at once;
  each property then follows from its part, `AlwaysTyped` from all. `AlwaysApproved`, for any natural lifetime and
  skew: between the reading of the clock and the verdict the call is one the rules send
  to approval and its text is clean, and the authority never takes back a withdrawal, so
  a grant withdrawn when it was asked for cannot be found valid; the bound on its age
  follows from the checks of its window and of its ends together. `GoAlwaysEarned`: the
  flag and what the screen says rest on an artifact validated for the matrix shown
  (`Earned`), every import and restore takes the flag back, and a scan that failed leaves
  a gate that blocks until a new scan or matrix replaces it. `OneUserAlways`: a response
  carries the epoch of the person it was asked by, the buttons shown were offered for the
  selected item, and a login that is ready has a verified session or one whose user owes
  no factor; each page has its own invariant. `AtMostOnceAlways`: once an effect is
  applied or under way, the executor is past every dispatch it may make (`SpentOnce`),
  unless its caller opted into repeating. `TenantsStayApart`: a request knows what its
  last statement found, and only adds rows, so what was there is there at its commit;
  unique keys are held by whoever staged them. `EvidenceAlwaysHonest`: a dataset that is
  not refused has, by its cases, a second judge on every item and a pair that shares
  one; a failed check and a spoilt answer come together, the load begins with neither,
  and at most `Concurrency` of its searches are under way.
  The quota is shown for `GenerationQuota` by itself, with requests in any order.
  `QuotaHolds`: no row lies in the future, so when a request reserves, every row in the
  window that ends at its own row was counted, since the count has no upper end.
  `RetryAfterSuffices` carries the promise as an invariant: at a promised time fewer than
  the quota will count. `ServicesImplementQuota`: what requests do among the other
  components is a behaviour of `GenerationQuota`, so both hold there (`QuotaAmongServices`).
* `ComputationProofs`, for `AnswersAlwaysSupported` and `ComputationsAlwaysHold` in
  `MCServicesProofs`, about lists of any length. The operators fold, sort and sum, that is,
  they are recursive functions and choices, and what they return is shown by induction:
  - induction over numbers and finite sets comes from the fact that a set of naturals has a
    least element, with *sets* in the place of predicates (`NatSetInduction`,
    `FiniteSetInduction`); `RecursionOnSubsets` and `FoldExists` give the recursive functions
    their equations;
  - a fold is read as the run of the code's loop: there is a list of the intermediate
    values that begins with the base and goes a step at a time (`RunsOf`, `FoldRuns`). What
    the loop keeps is then an invariant along that list: `BoundedRun` for the characters of
    the claims (`ClaimsBounded`), `RetrieveRun` for the evidence (`EvidenceSelected`),
    `UniqueRun` and `OfPhaseRun` for a team;
  - a list sorted by a key exists (`ListingExists`) and holds each element once, if the
    key tells all elements apart (`RelevanceOrders`, `RanksOrder`, `TeamOrders`).

  With these, `AnswersKept` and `TeamNextKeeps` are invariants of the two components: what was
  sent is usable, of its own item and within each budget, and what is missing did not fit
  (`SelectionOf`, `EvidenceSelected`); an accepted answer cites only what was sent (`AcceptedIsSupported`); the waves
  of a plan are a partition of its team in the order of their phases, with verification after
  what it verifies (`WavesSettled`, `PlanHolds`). `KappaIsSound` is arithmetic: observed and
  expected disagreement are sums over the grades that ratings reach, compared grade by grade
  (`OfOneGrade`), and the ratio is bounded before it is rounded.

The other proofs need no induction over data: history is kept in sets, and sums are bounded
by existence (`SizeWithin`).

Only model-checked are the statements of liveness, `Termination`, `OthersProceed`,
`EveryRequestEnds` and `EveryCallEnds`: fairness is stated over ENABLED, which is out of the
prover's reach. The four properties that do not hold (section 6) have no theorem either.

## 5. Not modelled, and the plan

Sequential file processing, formatting, HTML and wire formats, arithmetic over a
single response, and wiring are left out, and `PROJECT.json` says so component by
component: tracing, memory, benchmarks and scoring of `agent_os`, the geo providers'
network adapters and their scoring, the ranking of search, settings and logging,
migrations and the site's scripts. `fault_benchmark.py` replays fixed cases through
the policy that `RecoveryExecutor` goes through entirely. `list_organizations`,
the installation of the service worker and `run_sequential` and `run_routed`
are single statements or straight-line code.

What could come next:

1. The composition of quota and grounded answers as one refinement.
2. The composition of the two pages with `AccountSessions` as their server.

## 6. Findings

Five statements of the documentation disagree with the code. Four have a run
that TLC ends with a counterexample.

* `recovery_unknown`: `agent-os/docs/RELIABILITY_RECOVERY.md` promises an
  unknown failure one bounded replan; the policy grants it at zero attempts only,
  and the executor counts the attempt before it asks.
* `recovery_trace`: the same document says that known success is never
  reclassified. A trace sink that raises after the operation returned replaces
  the result by an exception.
* `editorial_four_eyes`: `docs/PERFECT-MASTER-2026.md` defines the creator as
  whoever authors or materially edits the item. Approval compares the reviewer
  with the item's creator and last modifier, not with the authors of its claims:
  an administrator who added a claim may approve once an editor has modified the
  item after them.
* `readiness_contract`: the guardian's `README.md` tells operators to upload the
  artifact that `release_evidence.py` generates and says that its `source_ref` must
  match. The contract of that script has no such field, and the validator reads it: an artifact
  with the field is rejected, one without it ends in an `AttributeError` that nothing
  catches. No generated artifact is accepted, so GO cannot be reached.

The fifth has no run of its own; a property that holds states what the code does
instead.

* `RESEARCH-TOOL-SECURITY.md:33` says that the fetcher closes the response and the
  connection for every hop. `research_fetcher.py:298` closes the connection of a failed
  attempt for four kinds of exception. For an allowed host whose name is beyond Latin-1
  (or a URL whose path cannot be encoded) writing the request raises
  `UnicodeEncodeError`: the call ends, the other addresses are not tried, and the
  connection is left to the garbage collector. `ClosedUnlessUnwritable`, a part of
  `FetchKeepsThePolicy`, says that this is the only case.
