# PULSYR in TLA+

Models, model-checking runs and machine-checked proofs for PULSYR, a backlog
manager for people and agents: a FastAPI application over PostgreSQL, with a web
UI, a REST API, an MCP server, webhooks from Sentry, GitHub and Paddle, and a
background worker that calls a language model. Everything here is about the code
under `src/app`; paths below are relative to `src/`.

    tlc -workers 2 -config MCJobQueue.cfg MCJobQueue.tla     # a run
    tlapm JobQueueProofs.tla                                 # the proofs of a module

`PROJECT.json` lists the runs, the source lines each definition models, the
hazards, the findings and the theorems.

## 1. How the program is built, and what that means for a model

* **One session per request.** `app/database.py:41` gives each request an
  `AsyncSession`; services flush, the edge (router, MCP dispatch, webhook, worker
  slot) commits, an exception rolls back. PostgreSQL runs at READ COMMITTED: a
  statement sees what was committed before it started and what its own session
  wrote.
* **Plain reads, partial writes.** Rows are read without a lock unless the code
  says `with_for_update`. SQLAlchemy's UPDATE holds only the attributes whose value
  the session changed, and takes the row lock when it is flushed. So a session may
  decide on an old row, and the UPDATEs of two sessions may compose to a row that
  neither of them wrote. The models of database rows here keep, for each session,
  the row as it was read and what the session changes of it.
* **An action is one statement**, or a run of statements no other session can tell
  apart. Each `await` between a read and the write that depends on it is a boundary
  between actions.
* **Autoflush.** A SELECT flushes what is pending, so a lock can be taken earlier
  than the service's own `flush()` (see `Resolve` in `Incidents`).

## 2. Inventory

| Component | State | Operations | What is hard | What makes it correct |
|---|---|---|---|---|
| **Job queue and worker** `jobs/worker.py`, `jobs/models.py` | `agent_runs`: status, lease, result | enqueue (single, batch, in the caller's transaction), claim, finish, fail, cancel, reclaim | several slots and replicas, crashes, shutdown, leases, a full queue | capacity, no duplicate active reference, one executor per run, effects once, every accepted run ends |
| **Handlers** `jobs/handlers.py` | what they write of items and incidents | `enrich`, `triage-sentry` | a slow model call between read and write; swallowed database errors | never undo a decision taken meanwhile |
| **Items** `items/*.py` | `items`, `item_events`, `item_comments` | create, edit, move, close, reopen, comment, prioritise | stale validation, lost updates of JSON columns, retries of creation | only legal moves; an item is dated exactly when it is closed |
| **Relationships and graph** `items/graph.py`, `relationships.py` | `item_relationships` | add and remove arcs, what a closing unblocks, order of work | several closings in one transaction, concurrent closings, cycles | nothing unblocked goes unreported; the order loses no item |
| **Incidents** `webhooks/service.py` | `sentry_issues`, their events, the linked item | ingest, triage, promote, ignore, restore, resolve, backfill | bursts of webhooks, triage racing the owner | one item per incident, counts, no incident hidden or left behind by mistake |
| **GitHub push** `webhooks/service.py:420` | closes items, stamps scopes | `process_github_push` | many rows in one transaction | idempotent, reports correct |
| **Subscriptions and capacity** `accounts/plans.py` | `account_subscriptions` | Paddle events, capacity checks before inserts | out-of-order, duplicated events; count-then-insert | newest event wins, limits never exceeded |
| **Accounts, members** `accounts/service.py`, `members.py` | accounts, users, grants | create, deactivate, grant | unique keys raced | one owner account per e-mail, tenant isolation |
| **Billing** `billing/*.py` | none of its own | preview, change, cancel, resume at Paddle | outage between Paddle and the webhook | the screen follows the mirrored row |
| **Projects, scopes, modules** `projects/*.py`, `scopes/*.py` | projects, module switches and their audit | create, archive, toggle, preset | preset and toggle at once | audit explains the state |
| **Access** `projects/access.py`, `auth/deps.py` | roles, grants, token scopes | resolve the project and role of a request | three kinds of caller | no request reaches another project |
| **Management documents** `management/service.py` | compartments, deliverables, versions | upload, dedup, rollback, metadata | version numbers by concurrent uploads, storage limit | versions 1..n, current is the last, content never lost |
| **Plan tasks** `management/service.py:550` | task tree | upsert, reparent, remove | concurrent reparenting, subtree height | a forest of bounded depth |
| **Threads** `threads/service.py` | stage, artifacts, linked items | advance, set back, finish | items reopened behind a finished thread | a finished thread has no open item |
| **Auth, OAuth, tokens** `auth/*.py` | users, identities, API tokens | login, signup callback, create and revoke tokens | double callbacks | one tenant per identity, no half-made tenant |
| **Rate limiter** `auth/rate_limit.py`, `maintenance.py` | buckets | consume, prune | replicas, pruning | at most the limit per window |
| **MCP server** `mcp/server.py`, `tools.py` | none of its own | dispatch, tools, prompts, resources | rollback on every error path | a failed tool changes nothing |
| **Web UI** `ui/*.py` | the session cookie | guards, forms | guards ask about the current project, rows have one of their own | its guards are in `Workspace`, its writes in the module of each service |
| **AI client, boundary, templates, i18n, site, infra** | none, or outside the program | | | not modelled, see section 8 |

Interactions: webhooks and the UI enqueue jobs inside their own transaction
(`commit=False`); the worker's handlers write the rows the owners edit; a promotion
inserts an item, a resolution and a push close items; capacity checks lock the
subscription row in the session that inserts the project, member, token or version.

## 3. Modules

| Module | Models | Role |
|---|---|---|
| `JobLedger` | what the queue promises its callers | abstract specification |
| `JobQueue` | `jobs/worker.py` | detailed specification, implements `JobLedger` |
| `ItemLifecycle` | `items/lifecycle.py`, `service.py`, `graph.py`, pushes | specification |
| `Incidents` | `webhooks/service.py`, triage in `jobs/handlers.py` | specification |
| `NewestEvent` | what the mirror of a subscription promises about Paddle's events | abstract specification |
| `Subscription` | `accounts/plans.py`, `billing/router.py`, the Paddle webhook | detailed specification, implements `NewestEvent` |
| `Null`, `Transactions` | the empty value, a table's rows, the transaction of a session | what the next modules share |
| `Documents` | `management/service.py` to line 400, storage capacity | specification |
| `Ranking` | the sorts of both, by the place of each member | pure function |
| `Gantt` | `management/gantt.py` | pure functions |
| `PlanTree` | plan tasks and pendings of `management/service.py` | specification, composed with `Gantt` |
| `WorkOrder` | `topological_order` of `items/graph.py` | pure functions |
| `Backlog` | creation and editing of items, relations, threads | specification, composed with `WorkOrder` |
| `Workspace` | access, modules, tokens, grants, Sentry routing | specification |
| `RateLimit` | `auth/rate_limit.py`, `auth/maintenance.py` | specification |
| `SignIn` | OAuth callbacks, setup, members, logins, onboarding | specification, composed with `RateLimit` |
| `Dispatch` | `mcp/server.py`, `mcp/tools.py` | specification |
| `ProjectProofs` | | theorems about `Documents`, `PlanTree`, `Gantt`, `WorkOrder` and `Backlog` |
| other `*Proofs` | | theorems about the module of that name |
| `MC*` | | instances for TLC, with their symmetry and bounds |

### JobQueue

`status` and `lease` are the `agent_runs` table. A row is named by the transaction
that inserts it, its project and its reference, so `created_at` order is the order
of transactions. `caller` is the enqueue transaction of a request: advisory lock
(`LockQueue`), deduplication (`Dedup`), count (`Count`), insert and commit
(`CommitEnqueue`); the three reads are separate statements, between which runs may
finish. `slot` is the place of a worker slot in `process_one`: the row selected with
SKIP LOCKED, the claim that commits, the handler, and the ways it ends: result
(`Finish`), exception (`Fail`), a commit that fails (`CommitFails`), cancellation
(`Cancel`, `Requeue`), a process that dies (`Crash`, `Restart`). `applied` observes how
often a handler's writes were committed. Time is relative: `Tick` lets a unit pass for
leases, busy slots and the reclaimer; `MaxRun` bounds how long a handler takes.

`JobLedger` knows only open and ended runs: accept a batch, end a run. `ImplementsLedger`
is the refinement, with `PhaseOf` as the mapping: claims, requeues and reclaims stutter.

### ItemLifecycle

`status`, `dated` (closed_at IS NOT NULL) and `blocks` are the tables; `sess` is the
transaction of each session: what it loaded (`Load`), what it flushed of each row
(`wrote`), what its closing reports (`ReportUnblocked`). `ApplyTransition`, `ReopenItem`
and `CloseItem` validate what was loaded and flush; the flush waits for the row lock,
`Commit` composes what was written with the row of that moment. A push loads and
closes further items in the same transaction (`SkipReference`).

### Incidents

`row` is `sentry_issues` (the triage verdict is reduced to noise or not), `job` the
triage job, `itemAt` what the backlog makes of each promoted item: whether it can be
closed as done, and whether it is. `sess` holds for each webhook, owner and worker
session the row it read (`seen`), the row it wants (`new`), and the item it closes.
`Merged` is the partial UPDATE. `promote`, `ignore` and `unignore` go through
`LockIssue`; ingestion, triage and `resolve_issue` do not. The first occurrence of an
issue counts one (the payload may report more); a webhook session handles one issue,
so a backfill is a sequence of sessions. The job of an issue is not deduplicated
again here: that is JobQueue's.

### Subscription

`mirror` is the account's row of `account_subscriptions`, `used` the rows of each
metered kind, `paddle` the contracts as Paddle has them; `sent` and `acked` are the events
it sent and those that were answered 2xx. Paddle may deliver any event it sent, any number
of times and in any order (`Deliver`); the handler reads the row under `FOR UPDATE` if there is
one (`CanRead`) and applies the event unless it is stale (`ApplyPaddleSubscription`, `Stale`,
`Applied`). A row that does not exist cannot be locked: two first events both insert, and the
unique key fails one, which Paddle sends again. A request that adds a project, a member or a token
reads the plan under the same lock (`EnsureCapacity`), counts (`Count`) and inserts (`Insert`);
the lock lasts to the commit. The super-admin's form (`UpdateSubscription`) writes the row like a webhook
does; the billing screen (`OpenBilling`, `Checkout`, `BillingChange`, ...) writes only at Paddle. The payload's
`occurred_at` is the event's number. `NewestEvent` is what the events promise: the shown event only gives
way to a newer one.

### Documents

`comps`, `docs`, `versions` are the tables; a session that puts or rolls back keeps the document as
it read it (`seen`), because the number of the new version comes from there (`NewNumber`) although it then waits
for the subscription's lock (`EnsureStorageCapacity`). `CommitWrite` is the flush with its unique
constraints; where one of them does not hold, only `Fail` can end the session. Names carry
case (`Fold`), since some lookups fold it and the constraints do not.

### Gantt and PlanTree

`Gantt` is arithmetic over days (day 0 is a Monday): the axis of weeks and then months, the bar of a task, the dates
a phase takes from its children, the depth-first rows. `PlanTree` is the task table and the pendings,
edited by sessions that check (`UpsertPlanTask`) and flush (`FlushPlanTask`) in two
steps; removal cascades. The chart is checked in every plan that sessions can make, so the plans
`Gantt` is checked on are those the program can show it. `slipped` observes which of the two known gaps in
the checks (two moves at once, a subtree moved along) a plan has met.

### WorkOrder and Backlog

`WorkOrder` is Kahn's algorithm as the code runs it, with its tie-break, and reachability as its
reference. `Backlog` is what sessions do to items besides closing them: create them (with or without
the search for an open duplicate), edit fields with a receipt, relate them, and move threads through their funnel
with artifacts. Each operation reads and decides in one step and commits in another. `excused` observes the
windows between the two that nothing locks, so that a property says precisely when it
may fail.

### Workspace

The configuration of accounts that every request reads: projects (`home`, in the order of `born`), grants, modules
with the audit `trail` as the state its events add up to, tokens, the project chosen in a cookie, the Sentry slug of a
project and the project of an issue. A request is a record that goes through the stages of its
operation, one per statement that another request can come before. `ever` is a history variable: the facts about the request's
target that were true at some moment of it; properties about a write compare it with `ever`, since
under READ COMMITTED no request can promise more.

### RateLimit and SignIn

`RateLimit` counts in the row of a key and a window by one statement that is committed at once; `Prune` deletes old rows.
`SignIn` composes it with the requests that create users and sessions. `users`, `links` and `accounts` are
committed rows; what a request has staged is in its record, seen by nobody, and its unique keys make
another insertion of the same key wait (`MailHeld`, `LinkHeld`). The four queries of a callback are four actions.
`SubscriptionHeld` is the lock of the capacity check that members and onboarding go through.

### Dispatch

A request is a batch of messages over one database session and one token row, of a project in `TokensOf`. A call passes the gates (`Gate`), its handler reads
or stages changes (one action per tool, alike tools as one), and the dispatcher commits or rolls back (`Commit`,
`Refuse`); a rollback expires the token object (`loaded`), which `TokenExpired` then meets. Staging is one step: the handlers of
one call run their statements in a row, and how two of them interleave is in the module of the service. `Stage` waits
for rows another session has flushed. The columns that the services change are in those modules; here a row is its project and
its one reference to another table; ids are never used again.

## 4. Runs

| Run | Instance | Properties | Shows |
|---|---|---|---|
| `queue` | 2 callers, 2 slots, 2 references, capacity 2, 1 fault, 1 poisoned reference | `QueueIsSound`, `ExclusiveExecution`, `AppliedOnce`, `ImplementsLedger`, `AcceptedRunsEnd` | capacity, no duplicates, one executor per run, effects once, outcomes final, the refinement, and that every accepted run ends |
| `items` | 1 session, 3 items, 2 arcs | `ItemsAreSound`, `ClosuresAreDated`, `NoMissedUnblock`, `NoFalseUnblock` | no open item is dated, no closing undated, exact unblocking reports, also within a push |
| `incidents` | 1 webhook, 2 owners, 1 worker, 1 incident, 2 items | `IncidentsAreSound`, `EventsCounted`, `StatusesAreOwned` | promotion idempotent, restored only from hidden, owners hide only the inbox, every occurrence counted |
| `subscription` | 2 webhook sessions, 2 requests, 2 contracts, 2 events | `MirrorIsSound`, `GrowthWithinLimit`, `ShowsNewestEvent`, `MirrorConverges` | newest event wins, no dead contract left, limits never exceeded, the mirror converges |
| `documents` | 2 sessions, 2 documents, 2 compartments, names that differ in case | `VersionsAreSound`, `StorageWithinLimit`, `AppendOnly` | versions 1..n with the current one last, append-only, storage within the plan |
| `plan` | 2 sessions, 3 tasks, 1 pending, depth 2, weeks and months | `ForestUnlessOverlap`, `DepthUnlessMoved`, `ChartIsExact`, `PendingsAreSound` | forest, depth, exact chart, pendings dated |
| `backlog` | 2 sessions, up to 3 items, 1 thread, 3 relations | `ThreadsAreSound`, `OneOpenPerTitle`, `ReceiptsAreTrue`, `RelationsAreSound`, `OrderIsTopological` | what unlocked checks promise outside of their windows, and the order of work |
| `workspace` | 3 requests, 2 users, 2 accounts, 3 projects | `WorkWasAdmitted`, `TrailExplains`, `AccountsAreIslands`, `SavedGrantsHeld`, `IssuesFollowTheirSlug` | every outcome covered by something true meanwhile |
| `signin` | 3 requests, 2 addresses, 2 identities of one provider | `NoHalfTenant`, `IdentityIsOneUser`, `LimitsHold`, `RequestsEnd` | tenants whole, identities unique, limits hold, nobody waits for ever |
| `signin_callback` | 2 requests | `NoCallbackFails` | violation: the loser of a double callback fails |
| `dispatch` | a batch of 2 and a single message, 2 projects, every table | `WithinProject`, `AllOrNothing`, `CommitsAreCovered` | a failed call changes nothing, answers and references stay in a project |
| `dispatch_batch` | the same | `NeverA500` | violation: the message after a failed call ends the request |

**Bounds.** Two of each competing session are enough for the races listed: each hazard
is between two transactions on one row, and a third only repeats one of the two roles; where a
third role takes part (`workspace`, `signin`) there are three requests. Some cases need more, and have it:

* `queue`: two references and capacity two make the queue full, make duplicates, and leave room for a
  run behind another; the fault may come at any step of either slot, and the reference that is poisoned may share the queue with one that is not.
* `items`: three items and two arcs are the smallest graph in which one item has two blockers and
  one blocker has two targets.
* `incidents`: a second incident shares no row, lock or job with the first, so one is enough; a second item
  is what makes a double promotion visible. `MaxCount` is an occurrence, an overlapping pair and no more.
* `subscription`: two contracts make one supersede the other; two events come out of order; a second plan, which is not metered, comes with one contract
  and two sessions at a time (`MCSubscription!Small`). `MaxUsed` bounds what is not metered.
* `documents`: two versions let a rollback collide with an upload of the same number, and a limit of two large files is filled by either.
* `plan`: with three tasks, two levels allowed, a subtree can be moved too deep and two moves can close a cycle; the dates lie at the start, in the
  gap between weeks and months, and after it. `MCPlanTree!Small` keeps dates apart from pendings and from two moves at once, which do not read them.
* `backlog`: threads, edits and relations meet only in the items, so `MCBacklog!Small` explores each with the items and without the
  other two: one item with threads, two with edits, three with relations.
* `workspace`: `MCWorkspace!Small` runs any two requests together, or three that all concern the grant matrix or all concern
  the Sentry routing, the matters where a third request can undo what the second did.
* `signin`: one token and one member are the limits, so that two requests compete for the last place; three requests meet a limit of two in each of three windows, the first of which is
  pruned. Time passes between requests (`MCSignIn!BoundedSpec`): a request asks the limiter in its first step, and nothing after it in the
  request reads the time.
* `dispatch`: one or two rows of each table, one module switched while calls run.

Deadlock is checked in every run but those of `Workspace` and `SignIn`, where every request ends and nothing is left to do.

**Fairness.** `JobQueue!FairSpec`: time passes; a slot's loop never stops on its own
(`worker.py:210`, an exception is logged and the loop goes on), so each of its steps is
weakly fair, and a handler ends one way or another within `MaxRun`; the supervisor (the
container's restart policy) starts a dead process again. Requests, crashes and shutdowns have no
fairness, and faults are finite: a process that dies for ever finishes nothing. `AcceptedRunsEnd` leaves out queues with an active
poisoned run (section 6).

`Subscription!FairSpec`: Paddle delivers an event until it is answered 2xx (`webhooks/router.py:113`), and
PostgreSQL grants a row lock in the order of arrival, hence strong fairness of a delivery and of its answer per event;
a session ends, by its commit or its time-out. Nobody is obliged to pay or to press a button.

`SignIn!FairSpec`: a request that was started is run on, so its next statement is weakly fair; that it ends is then a
statement about the unique keys and locks it waits on. The other modules state safety only: nothing obliges a user to act.

## 5. What is proved

A theorem is about `Spec`, without the symmetry, the fairness and the bounds of the runs (`BoundedSpec` only takes steps
away), for every number of sessions, requests, rows, slots, projects and references and every value of the other constants that
satisfies the module's `ASSUME`s. Every safety property of the runs that are expected to pass is proved. Each argument is an
inductive invariant, `IInv` in most modules, and what it adds to the properties is this.

* **JobQueue**, assuming that the lease outlives the longest run (`LeaseOutlivesRun`): `QueueIsSound`,
  `ExclusiveExecution`, `AppliedOnce`, that outcomes are final, and the refinement of `JobLedger`. A transaction past
  its lock holds it and its stamp is fresh (`LockInv`, `FreshInv`); what it decided to insert is not
  a duplicate and fits (`WantInv`), which other sessions cannot break, because without the lock they
  only end runs; a busy slot owns its run, whose lease outlasts the slot (`SlotInv`).
  Capacity is a fact about cardinalities, proved from the finite-set theorems.
* **ItemLifecycle**: types and `ClosuresAreDated` for any number of interleaving sessions, since every
  flushed change that closes also dates (`ChangeIsWhole`). For one request at a time (`OneAtATime`): `ItemsAreSound`,
  legal moves, `NoMissedUnblock` and `NoFalseUnblock`,
  with an invariant that ties what the session loaded and wrote to the committed row. Section 6 says what two sessions can do.
* **Incidents**: `IncidentsAreSound` for any number of interleaving sessions: two sessions never hold one row, a session
  that locked its row knows the row as it is, and a session about to link an item found the incident without one and
  alone inserts that item. `StatusesAreOwned`: a session that restores or hides has locked the row and moves it from the status it
  still has (`OwnedInv`). `EventsCounted` when webhooks come one at a time (`OneHook`): the count is then what that session read, as
  triage and owners do not write it (`CountInv`).
* **Subscription**: `MirrorIsSound`, `GrowthWithinLimit` and `ShowsNewestEvent`. A session knows the row that it has locked as it is, and
  one that found none saw that there was none (`Fits`); events have times of their own, answered ones are not newer than
  the row (`MirrorInv`), and the cancellation of the contract that is shown is yet to come or was overtaken (`Awaited`).
* **Documents**: `VersionsAreSound`, `AppendOnly` and `StorageWithinLimit`. A session's document may be older than the row but never newer (`Saw`), and only
  the session that makes a document knows its id (`Alone`); the unique number of a version refuses the rest. What is stored is a sum over
  the versions (`Total`), which one more version raises by its size; only the session that holds the subscription has staged one, it fits
  on top of the sum, and the versions the sum is about are finitely many (`StorageInv`).
* **PlanTree**: `ForestUnlessOverlap`, `DepthUnlessMoved` and `PendingsAreSound`, for any tasks and any depth. `ChainUp`, a recursion, is shown
  to be the smallest set that holds a task and is closed under parents. A plan without a loop is one in which every set of tasks has a member with its
  parent outside (`NoLoop`), which a move keeps when the chain above the new parent does not hold the task; and what a session
  found out about its parent holds until it flushes, unless another move came between, which `slipped` says (`PlanInv`).
* **Gantt**: `ChartIsExact`, in every plan that sessions can make together, one with a cycle included. It rests on one invariant, that
  the dates of tasks are those that were sent (`DatesInCalendar`), and on what the functions return. Depth first: the rows under some siblings are
  the tasks whose chain leads through one of them, each once, and each right below its parent as far as levels go (`Preorder`); that is kept by
  joining the rows of two sets of siblings (`PreorderJoin`) and by putting a parent in front (`PreorderNode`), and goes by induction over the siblings and over the levels.
  Dates: after as many rounds as there are tasks nothing changes at a level that has been reached from below (`EffectiveIs`). Axis: weeks and months follow each other
  (`InTime`), so that a bar from the first column that ends late enough to the last that begins early enough is what the dates meet, and no day is in two columns (`ColumnFacts`). `PlanTreeAssumption`
  says what a calendar has that the code takes from `datetime`: it goes on after the last date that is sent.
* **WorkOrder**: `OrderIsTopological` for every finite list of items and every set of relations. Each round of Kahn's algorithm
  keeps an order that has no node twice and none before those that must come first (`InOrder`), and after as many rounds as there are nodes
  nothing is ready. What is then left over is closed under "comes after", and following the relations backwards in it must meet
  a cycle, since each step back leaves fewer nodes to come from (`LeftOverIs`). `After` is shown to be the smallest set closed under the relations, and `Sorted`
  to be a permutation, since no two nodes have equally many before them.
* **Backlog**: `ThreadsAreSound`, `OneOpenPerTitle`, `ReceiptsAreTrue`, `RelationsAreSound`. What a session found out before its commit still holds
  then, or `excused` says what came between (`Informed`): the next stage follows the one the thread is in, the thread that is being finished has
  no open item, the title that is being created is not taken. An artifact is from a stage strictly behind the thread's (`Rising`), and a symmetric relation is stored
  from the lower item to the higher (`ArcFine`), which is what makes one deletion enough.
* **Workspace**: all five properties. What a request found out in a stage stays true, or stays in `ever`
  (`Local`), because no step changes the account of a project or the identity of a token (`Kept`); two requests never hold one
  cell of the grant matrix or the module rows of one project (`Held`, `Apart`); the audit trail adds up since a holder has read the rows it will change
  after it locked them. `StartsAssumption` is about the states a database can be in when the requests begin.
* **SignIn**, with RateLimit: `NoHalfTenant`, `IdentityIsOneUser`, `LimitsHold`. What a callback found
  missing can be created meanwhile, but then its own insertion fails; the unique keys and the lock on the subscription keep apart what
  two requests have staged (`Facts`, `Compatible`). The row of a window that is not pruned covers what it let in (`RateInv`).
* **Dispatch**: `WithinProject`, `AllOrNothing`, `CommitsAreCovered`. Stored references lead within a project and only along the
  foreign keys there are (`RowsInv`); staged changes keep that (`Proper`), and row locks and foreign keys keep the changes of two requests
  apart, so that one commit cannot take away what the other refers to (`Apart`). A row never leaves its project, so what was shown remains its project's.

Recursive functions (`ChainUp`, `After`, the rounds of Kahn's algorithm, sums over sets) come with two lemmas: that a function satisfying the recursion exists, and
what its last value is. Both follow from `NatSetInduction`, a set of numbers that holds 0 and every successor, which is derived from the well-foundedness of the
numbers and needs no operator as a parameter.

Only model-checked: the liveness properties `AcceptedRunsEnd`, `MirrorConverges` and `RequestsEnd` (liveness under
fairness and ENABLED are outside the prover's reach).

## 6. Findings

Two disagree with what a comment says of the code; each has a run whose counterexample shows it, and quotes the line it
contradicts (`PROJECT.json`, "findings").

1. `signin_callback`: both callbacks of a new signup find no user and go on to `create_account`
   (`auth/router.py:292`); the loser's error is raised before the `try` whose comment (`:316`) promises to resolve the winner
   "instead of leaking a 500".
2. `dispatch_batch`: after a failed call the rollback has expired the token object; the next message of the batch reads
   `token.project_id` (`mcp/server.py:628`) outside of the `try` that is to "never let /mcp return HTTP 500" (`:716`). What earlier calls
   of the batch committed stays, their answers are lost.

Seen in the models, without a run of their own. Where a property of section 4 excepts one of these, it names it.

* A lease can be configured shorter than a handler's run, nothing renews or fences it, and
  two slots then run the same job (`LeaseOutlivesRun` of `JobQueueProofs` rules it out).
* `handlers.py:56` swallows a database error, which leaves the transaction aborted: the run cannot be
  recorded as ended, its lease expires, and it is claimed again for ever (`Poison`).
* With two sessions, a move that was loaded before the other's closing leaves an open item with a
  closing date (`items/service.py:52`), and two sessions that close the two blockers of an item report nothing (`:94`); `items` has one session.
* `events_count += 1` loses an occurrence when two webhooks overlap (`webhooks/service.py:271`); `incidents` has one webhook.
* The triage hides an incident that was promoted while the model was thinking (`handlers.py:92`), and
  `resolve_issue` leaves open the item of a promotion it did not see (`webhooks/service.py:395`).
* Two reparentings that overlap can make a cycle, and a reparented subtree can pass the depth allowed (`management/service.py:569-573`):
  `slipped` in `PlanTree`.
* A thread can be finished while an item is linked to it or reopened in it (`threads/service.py:82`); two agents can create one title twice
  (`mcp/tools.py:416`): `excused` in `Backlog`.
* `POST /items` accepts a terminal status (`items/router.py:42`), which makes a closed item without a date or a reason.
* A screen that writes to a row asks the module gate about the current project, not about the row's (`ui/router.py:1048`);
  the role is asked about the row's own. `GatedByOwnProject` excepts rows.
* Two compartments or documents whose names differ in case only can come to exist by a rename (`management/service.py:73`), after which
  `scalar_one_or_none` raises for both (`PutDeliverable`, whose guard no such state satisfies).
* A cancellation that an event of another contract overtook is dropped as stale, although the row still names the contract that
  ended (`plans.py:148-170`); `NoDeadContract` excepts it. It takes four events, the
  start and the end of two contracts: the end of the second, delivered before the end of the first, leaves the pointer and moves the row's time.
* The mirror of an account without a row cannot be locked, so a request that found none has no limit (`plans.py:229`): `GrowthWithinLimit`
  is about accounts whose row came with them.

## 7. Plan

What is left, in order:

1. Two sessions in `ItemLifecycle` together with `Backlog`'s edits, as one specification of the row of an item.
2. A backfill of several incidents in one transaction, and the incident's event log.
3. Search, import and the neighbourhood queries as functions, if they ever grow a rule that can be stated.

## 8. Not modelled

* Templates, translations, static assets, the marketing site, infrastructure, migrations and
  scripts: no runtime state of their own.
* The screens of the web UI that only render, filters, flash messages; its guards and writes are in the models.
* The model provider, Sentry's, GitHub's, Google's and Paddle's APIs: choices of the actions that call them. Time-outs of HTTP
  clients are one more way a call fails.
* The request boundary (headers, body limits, CSRF, request ids, metrics, logging): each request on its own.
* Parsing, signatures, hashing, formatting and money: opaque values. Configuration values are constants.
* Comments, names, colours, scopes, statuses of documents and other columns that no rule reads.
* Pool sizes and statement time-outs, which only turn a wait into a failure; every model has the failure.
