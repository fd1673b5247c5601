----------------------------- MODULE Dispatch -----------------------------
(***************************************************************************)
(* The MCP endpoint (mcp/server.py) and the tools it calls (mcp/tools.py). *)
(* A request carries a batch of messages, all dispatched with one session  *)
(* of the database and with the token row that its first statement loads.  *)
(* A call passes the gates of modules and of the token's scope, its        *)
(* handler stages changes, and the dispatcher commits them or rolls back.  *)
(*                                                                         *)
(* Rows stand for items, threads, incidents, documents, pendings and plan  *)
(* tasks, with the one reference that crosses tables; what the services do *)
(* to the other columns is in the modules of those services.               *)
(***************************************************************************)
EXTENDS Naturals, Sequences

CONSTANTS
    Requests, Projects,
    Rows,        \* ids
    KindOf,      \* the table of an id
    Present,     \* the rows there are at first, each with its project
    TokensOf,    \* the projects of the tokens that a request may come with
    Switches,    \* <<project, module>> that are turned off and on
    BatchSize,   \* bound: messages in the batch of each request
    None

Optional == {"threads", "incidents", "management"}
Kinds == {"item", "thread", "issue", "document", "pending", "task"}

VARIABLES
    rows,   \* a function whose domain is the rows
    on,     \* the optional modules of each project that are enabled
    req     \* what each request is doing

vars == <<rows, on, req>>

(* up: the thread of an item, the item of an incident, the task of a pending. *)
Row == [home : Projects \cup {None}, up : Rows \cup {None}]

ASSUME DispatchAssumption ==
    /\ KindOf \in [Rows -> Kinds] /\ TokensOf \in [Requests -> SUBSET Projects]
    /\ DOMAIN Present \subseteq Rows
    /\ \A id \in DOMAIN Present :
          Present[id] \in Projects \/ (Present[id] = None /\ KindOf[id] = "issue")
    /\ Switches \subseteq Projects \X Optional
    /\ BatchSize \in [Requests -> Nat] /\ None \notin Rows \cup Projects \cup Row

(***************************************************************************)
(* The tools of each module, alike ones as one.                            *)
(***************************************************************************)

CoreTools == [read |-> {"context", "items", "item_get", "views"},
              write |-> {"create", "move", "link", "edit", "unlink"}]

ThreadTools == [read |-> {"thread_list", "thread"},
                write |-> {"thread_create", "thread_advance", "thread_link", "thread_write"}]

IncidentTools == [read |-> {"incidents", "incident"},
                  write |-> {"resolve", "promote", "ignore", "backfill"}]

ManagementTools == [read |-> {"docs", "pending_list", "gantt_get"},
                    write |-> {"doc_write", "pending_upsert", "pending_complete",
                               "pending_delete", "task_upsert", "task_remove"}]

(* What resources/read and prompts/get serve, which never commit. *)
Resources == [core |-> {"area", "decision"}, threads |-> {"thread resource"},
              incidents |-> {"open incidents"}, management |-> {"status"}]

ToolsOf == [core |-> CoreTools, threads |-> ThreadTools,
            incidents |-> IncidentTools, management |-> ManagementTools]

Tools == UNION {ToolsOf[m].read \cup ToolsOf[m].write : m \in DOMAIN ToolsOf}
Module(t) == CHOOSE m \in DOMAIN ToolsOf : t \in ToolsOf[m].read \cup ToolsOf[m].write \cup Resources[m]
Writes(t) == \E m \in DOMAIN ToolsOf : t \in ToolsOf[m].write

Enabled(p, m) == m = "core" \/ m \in on[p]

(***************************************************************************)
(* Requests.  at: "idle", "next" (between messages), "handle" (a call is   *)
(* past the gates), "commit" (its handler has returned), "done", "dead"    *)
(* (answered with a 500) or "killed".                                      *)
(***************************************************************************)

Request == [
    at : {"idle", "next", "handle", "commit", "done", "dead", "killed"},
    project : Projects \cup {None}, scope : {"read", "write"},   \* of the token
    loaded : BOOLEAN,            \* the token's attributes are in memory
    tool : Tools \cup {None},
    lit : BOOLEAN,               \* observation: the tool's module was enabled
    staged : UNION {[ids -> [row : Row \cup {None}, by : Nat]] : ids \in SUBSET Rows},
    shown : SUBSET Rows,         \* rows in the answer
    answers : Seq({"ok", "error", "none"}),
    did : SUBSET Nat,            \* the messages that staged rows
    wrote : SUBSET Nat]          \* those that rows were committed of

(* Functions of few rows, and one over another. *)
Nothing == [id \in {} |-> None]
Only(id, row) == [x \in {id} |-> row]
Over(f, g) == [id \in DOMAIN f \cup DOMAIN g |-> IF id \in DOMAIN f THEN f[id] ELSE g[id]]

Fresh == [at |-> "idle", project |-> None, scope |-> "read", loaded |-> FALSE, tool |-> None, lit |-> FALSE,
          staged |-> Nothing, shown |-> {}, answers |-> <<>>, did |-> {}, wrote |-> {}]

Init ==
    /\ rows = [id \in DOMAIN Present |-> [home |-> Present[id], up |-> None]]
    /\ on = [p \in Projects |-> Optional]
    /\ req = [r \in Requests |-> Fresh]

Mine(r) == req[r].project
Position(r) == Len(req[r].answers) + 1

Answered(q, answer) ==
    [q EXCEPT !.at = "next", !.answers = Append(@, answer), !.tool = None, !.shown = {}]

(* Let in: below the rate limit, with a live token. *)
Open(r) ==
    /\ req[r].at = "idle"
    /\ \E p \in TokensOf[r], s \in {"read", "write"} :
          req' = [req EXCEPT ![r].at = "next", ![r].project = p, ![r].scope = s, ![r].loaded = TRUE]
    /\ UNCHANGED <<rows, on>>

HasMore(r) == req[r].at = "next" /\ Position(r) <= BatchSize[r]

(* A message without an id is dropped before the token is looked at. *)
Notification(r) ==
    /\ HasMore(r)
    /\ req' = [req EXCEPT ![r] = Answered(@, "none")]
    /\ UNCHANGED <<rows, on>>

(* A rollback has expired the token: reading its project outside of the    *)
(* handler's try raises, and the answers given so far go with the request. *)
TokenExpired(r) ==
    /\ HasMore(r) /\ ~req[r].loaded
    /\ req' = [req EXCEPT ![r].at = "dead"]
    /\ UNCHANGED <<rows, on>>

(* initialize, ping, the lists of tools, prompts and resources. *)
Describe(r) ==
    /\ HasMore(r) /\ req[r].loaded
    /\ req' = [req EXCEPT ![r] = Answered(@, "ok")]
    /\ UNCHANGED <<rows, on>>

ModuleAdmits(r, t) == Enabled(Mine(r), Module(t))

ScopeAdmits(r, t) == Writes(t) => req[r].scope = "write"

Gate(r, t) ==
    /\ HasMore(r) /\ req[r].loaded
    /\ IF ModuleAdmits(r, t) /\ ScopeAdmits(r, t)
       THEN req' = [req EXCEPT ![r].at = "handle", ![r].tool = t,
                               ![r].lit = Enabled(Mine(r), Module(t))]
       ELSE req' = [req EXCEPT ![r] = Answered(@, "error")]
    /\ UNCHANGED <<rows, on>>

(***************************************************************************)
(* Handlers.                                                               *)
(***************************************************************************)

Table(kind) == {id \in DOMAIN rows : KindOf[id] = kind}

(* What a reference given by a client may stand for. *)
Own(r, kind) == {id \in Table(kind) : rows[id].home = Mine(r)}

(* An id is never used again. *)
Unused(kind) ==
    {id \in Rows \ DOMAIN rows : KindOf[id] = kind /\ \A o \in Requests : id \notin req[o].shown}

Calling(r, t) == req[r].at = "handle" /\ req[r].tool = t

Show(r, ids) ==
    /\ req' = [req EXCEPT ![r].at = "commit", ![r].shown = ids]
    /\ UNCHANGED <<rows, on>>

Deleted(changes) == {id \in DOMAIN changes : changes[id] = None}
Referred(changes) == {changes[id].up : id \in DOMAIN changes \ Deleted(changes)} \ {None}
Flushed(o) == [id \in DOMAIN req[o].staged |-> req[o].staged[id].row]

(* A flush waits for the rows that another session has flushed, and a      *)
(* foreign key for the deletion of its row, as the deletion waits for it.  *)
Stage(r, changes) ==
    /\ \A o \in Requests \ {r} :
          /\ DOMAIN changes \cap DOMAIN Flushed(o) = {}
          /\ Deleted(changes) \cap Referred(Flushed(o)) = {}
          /\ Referred(changes) \cap Deleted(Flushed(o)) = {}
    /\ req' = [req EXCEPT
         ![r].at = "commit",
         ![r].staged = Over([id \in DOMAIN changes |->
                               [row |-> changes[id], by |-> Position(r)]], @),
         ![r].did = IF DOMAIN changes = {} THEN @ ELSE @ \cup {Position(r)}]
    /\ UNCHANGED <<rows, on>>

Touch(ids) == [id \in ids |-> rows[id]]
Point(id, up) == Only(id, [rows[id] EXCEPT !.up = up])
New(r, id, up) == Only(id, [home |-> Mine(r), up |-> up])

(* The sections of modules that are enabled now, which the gate did not ask. *)
Context(r) ==
    /\ Calling(r, "context")
    /\ Show(r, Own(r, "item")
            \cup (IF Enabled(Mine(r), "incidents")
                  THEN {id \in Own(r, "issue") : rows[id].up = None} ELSE {})
            \cup (IF Enabled(Mine(r), "threads") THEN Own(r, "thread") ELSE {}))

(* pulsyr_list and pulsyr_areas *)
ListItems(r) == Calling(r, "items") /\ Show(r, Own(r, "item"))

(* pulsyr_priority_view and pulsyr_archive_list *)
ViewItems(r) == Calling(r, "views") /\ Show(r, Own(r, "item"))

GetItem(r) == Calling(r, "item_get") /\ \E id \in Own(r, "item") : Show(r, {id})

(* An open item with the title and area is returned instead: nothing new. *)
CreateItem(r) ==
    /\ Calling(r, "create")
    /\ \/ \E id \in Unused("item"), t \in Own(r, "thread") \cup {None} : Stage(r, New(r, id, t))
       \/ \E id \in Own(r, "item") : Show(r, {id})

(* advance, complete and move_area; whom a closure unblocks is in ItemLifecycle. *)
MoveItem(r) == Calling(r, "move") /\ \E id \in Own(r, "item") : Stage(r, Touch({id}))

LinkItems(r) ==
    /\ Calling(r, "link")
    /\ \E a, b \in Own(r, "item") : a # b /\ Stage(r, Touch({a}))

(* item_update, discard, reopen and comment_add *)
EditItem(r) == Calling(r, "edit") /\ \E id \in Own(r, "item") : Stage(r, Touch({id}))

(* Removing a relation that is not there is a no-op. *)
UnlinkItems(r) ==
    /\ Calling(r, "unlink")
    /\ \E a, b \in Own(r, "item") : Stage(r, Nothing) \/ (a # b /\ Stage(r, Touch({a})))

CreateThread(r) ==
    /\ Calling(r, "thread_create")
    /\ \E id \in Unused("thread") : Stage(r, New(r, id, None))

AdvanceThread(r) == Calling(r, "thread_advance") /\ \E t \in Own(r, "thread") : Stage(r, Touch({t}))

ListThreads(r) == Calling(r, "thread_list") /\ Show(r, Own(r, "thread"))

Linked(t) == {id \in Table("item") : rows[id].up = t}

(* The items are found by their thread alone. *)
GetThread(r) ==
    /\ Calling(r, "thread")
    /\ \E t \in Own(r, "thread") : Show(r, {t} \cup Linked(t))

(* Mutant of LinkTargets: the thread's project is not compared. *)
AnyThread(r) == Table("thread")

LinkTargets(r) == Own(r, "thread")

LinkThread(r) ==
    /\ Calling(r, "thread_link")
    /\ \E t \in LinkTargets(r), id \in Own(r, "item") : Stage(r, Point(id, t))

(* thread_set_stage and thread_artifact_add *)
WriteThread(r) == Calling(r, "thread_write") /\ \E t \in Own(r, "thread") : Stage(r, Touch({t}))

ListIncidents(r) == Calling(r, "incidents") /\ Show(r, Own(r, "issue"))

GetIncident(r) == Calling(r, "incident") /\ \E s \in Own(r, "issue") : Show(r, {s})

(* Closes the item of the incident too, unless it is closed. *)
ResolveIncident(r) ==
    /\ Calling(r, "resolve")
    /\ \E s \in Own(r, "issue") :
          \/ Stage(r, Touch({s}))
          \/ rows[s].up # None /\ Stage(r, Touch({s, rows[s].up}))

PromoteIncident(r) ==
    /\ Calling(r, "promote")
    /\ \E s \in Own(r, "issue") :
          \/ rows[s].up # None /\ Show(r, {s, rows[s].up})
          \/ /\ rows[s].up = None
             /\ \E id \in Unused("item") : Stage(r, Over(New(r, id, None), Point(s, id)))

(* incident_ignore and incident_unignore, which may find nothing to do *)
IgnoreIncident(r) ==
    /\ Calling(r, "ignore")
    /\ \E s \in Own(r, "issue") : Stage(r, Touch({s})) \/ Stage(r, Nothing)

(* Mutant of Ingested: the latest project to fetch an incident takes it. *)
TakenOver(r, s) == IF s \notin DOMAIN rows THEN New(r, s, None) ELSE Only(s, [rows[s] EXCEPT !.home = Mine(r)])

(* What Sentry returns is looked up by Sentry's id: an incident without a  *)
(* project is attached, and one of another project has its events counted. *)
Ingested(r, s) ==
    IF s \notin DOMAIN rows THEN New(r, s, None)
    ELSE Only(s, [rows[s] EXCEPT !.home = IF @ = None THEN Mine(r) ELSE @])

BackfillIncidents(r) ==
    /\ Calling(r, "backfill")
    /\ \E s \in {id \in Rows : KindOf[id] = "issue"} : Stage(r, Ingested(r, s)) \/ Stage(r, Nothing)

(* doc_list and doc_get *)
ShowDocuments(r) == Calling(r, "docs") /\ Show(r, Own(r, "document"))

(* doc_put, doc_rollback, doc_update and compartment_upsert; a document    *)
(* put again with the same bytes is left as it is.                         *)
WriteDocument(r) ==
    /\ Calling(r, "doc_write")
    /\ \/ \E d \in Unused("document") : Stage(r, New(r, d, None))
       \/ \E d \in Own(r, "document") : Stage(r, Touch({d})) \/ Show(r, {d})

ListPendings(r) == Calling(r, "pending_list") /\ Show(r, Own(r, "pending"))

(* Without a task an update leaves the pending's task as it is. *)
UpsertPending(r) ==
    /\ Calling(r, "pending_upsert")
    /\ \/ \E p \in Unused("pending"), k \in Own(r, "task") \cup {None} : Stage(r, New(r, p, k))
       \/ \E p \in Own(r, "pending") :
             Stage(r, Touch({p})) \/ \E k \in Own(r, "task") : Stage(r, Point(p, k))

CompletePending(r) ==
    Calling(r, "pending_complete") /\ \E p \in Own(r, "pending") : Stage(r, Touch({p}))

DeletePending(r) ==
    /\ Calling(r, "pending_delete")
    /\ Stage(r, Nothing) \/ \E p \in Own(r, "pending") : Stage(r, Only(p, None))

ShowPlan(r) == Calling(r, "gantt_get") /\ Show(r, Own(r, "task"))

UpsertTask(r) ==
    /\ Calling(r, "task_upsert")
    /\ \/ \E k \in Unused("task") : Stage(r, New(r, k, None))
       \/ \E k \in Own(r, "task") : Stage(r, Touch({k}))

(* The foreign key of the pendings sets their task to null. *)
RemoveTask(r) ==
    /\ Calling(r, "task_remove")
    /\ \E k \in Own(r, "task") :
          Stage(r, Over(Only(k, None), [p \in {q \in Table("pending") : rows[q].up = k} |->
                                           [rows[p] EXCEPT !.up = None]]))

(***************************************************************************)
(* Prompts and resources: read, answered, and never committed.             *)
(***************************************************************************)

ReadResource(r, u) ==
    /\ HasMore(r) /\ req[r].loaded
    /\ req' = [req EXCEPT ![r] = Answered(@, IF Enabled(Mine(r), Module(u)) THEN "ok" ELSE "error")]
    /\ UNCHANGED <<rows, on>>

(* The prompts belong to the core: no module to ask. *)
GetPrompt(r) == ReadResource(r, "decision")

(***************************************************************************)
(* The end of a call.                                                      *)
(***************************************************************************)

Applied(staged) ==
    LET after == Over([id \in DOMAIN staged |-> staged[id].row], rows)
    IN [id \in {x \in DOMAIN after : after[x] # None} |-> after[id]]

(* What was staged is kept. *)
Kept(q) == [q EXCEPT !.staged = Nothing,
                     !.wrote = @ \cup {q.staged[id].by : id \in DOMAIN q.staged}]

Commit(r) ==
    /\ req[r].at = "commit"
    /\ rows' = Applied(req[r].staged)
    /\ req' = [req EXCEPT ![r] = Answered(Kept(@), "ok")]
    /\ UNCHANGED on

(* Mutant of RolledBack: the error is answered and the session kept as it is. *)
KeptAsItIs(q) == q

(* A rollback expires every object of the session, the token with them. *)
RolledBack(q) == [q EXCEPT !.staged = Nothing, !.loaded = FALSE]

(* The handler raises before or after its flush, or the commit does. *)
Refuse(r) ==
    /\ req[r].at \in {"handle", "commit"}
    /\ req' = [req EXCEPT ![r] = Answered(RolledBack(@), "error")]
    /\ UNCHANGED <<rows, on>>

Close(r) ==
    /\ req[r].at = "next" /\ Position(r) > BatchSize[r]
    /\ req' = [req EXCEPT ![r].at = "done"]
    /\ UNCHANGED <<rows, on>>

(* The process dies, or the client goes away: the session is rolled back. *)
Kill(r) ==
    /\ req[r].at \in {"next", "handle", "commit"}
    /\ req' = [req EXCEPT ![r] = [RolledBack(@) EXCEPT !.at = "killed", !.tool = None, !.shown = {}]]
    /\ UNCHANGED <<rows, on>>

(* set_module, from a project's settings *)
Toggle(p, m) ==
    /\ on' = [on EXCEPT ![p] = IF m \in @ THEN @ \ {m} ELSE @ \cup {m}]
    /\ UNCHANGED <<rows, req>>

Read(r) ==
    \/ Context(r) \/ ListItems(r) \/ ViewItems(r) \/ GetItem(r) \/ ListThreads(r) \/ GetThread(r)
    \/ ListIncidents(r) \/ GetIncident(r) \/ ShowDocuments(r) \/ ListPendings(r) \/ ShowPlan(r)

Write(r) ==
    \/ CreateItem(r) \/ MoveItem(r) \/ LinkItems(r) \/ EditItem(r) \/ UnlinkItems(r)
    \/ CreateThread(r) \/ AdvanceThread(r) \/ LinkThread(r) \/ WriteThread(r)
    \/ ResolveIncident(r) \/ PromoteIncident(r) \/ IgnoreIncident(r) \/ BackfillIncidents(r)
    \/ WriteDocument(r) \/ UpsertPending(r) \/ CompletePending(r) \/ DeletePending(r)
    \/ UpsertTask(r) \/ RemoveTask(r)

Next ==
    \/ \E r \in Requests :
          \/ Open(r) \/ Notification(r) \/ TokenExpired(r) \/ Describe(r) \/ GetPrompt(r)
          \/ \E t \in Tools : Gate(r, t)
          \/ \E m \in DOMAIN Resources : \E u \in Resources[m] \ {"decision"} : ReadResource(r, u)
          \/ Read(r) \/ Write(r) \/ Commit(r) \/ Refuse(r) \/ Close(r) \/ Kill(r)
    \/ \E s \in Switches : Toggle(s[1], s[2])

Spec == Init /\ [][Next]_vars

-----------------------------------------------------------------------------

TypeOK ==
    /\ DOMAIN rows \subseteq Rows /\ \A id \in DOMAIN rows : rows[id] \in Row
    /\ on \in [Projects -> SUBSET Optional]
    /\ \A r \in Requests : req[r].shown \subseteq Rows

(* Within a project: every reference from row to row, and every answer to a   *)
(* token, stays in one project, although a thread's items are found by their  *)
(* thread alone, incidents are attached later and tasks are removed meanwhile. *)
WithinProject ==
    /\ TypeOK
    /\ \A id \in DOMAIN rows : rows[id].up # None =>
          rows[id].up \in DOMAIN rows /\ rows[rows[id].up].home = rows[id].home
    /\ \A r \in Requests : \A id \in req[r].shown \cap DOMAIN rows : rows[id].home = Mine(r)

(* All or nothing: what a call staged is kept if and only if the call was   *)
(* answered with success, whatever the other messages of its batch came to. *)
AllOrNothing ==
    \A r \in Requests : \A p \in req[r].did :
        p <= Len(req[r].answers) => (req[r].answers[p] = "ok" <=> p \in req[r].wrote)

(* A commit changes only rows of the token's project, on behalf of a token    *)
(* that may write and of a module that was enabled when the call came in.  An *)
(* incident fetched from Sentry is counted where its Sentry id already is.    *)
CommitsAreCovered ==
    [][\A r \in Requests : req'[r].wrote # req[r].wrote =>
         /\ req[r].scope = "write" /\ req[r].lit
         /\ \A id \in DOMAIN req[r].staged :
               \/ id \in DOMAIN rows => rows[id].home \in {Mine(r), None}
               \/ req[r].tool = "backfill" /\ req[r].staged[id].row = rows[id]]_vars

(* Every request that is let in gets its answers: no 500.  (mcp/server.py:716 *)
(* "safety net: never let /mcp return HTTP 500")                              *)
NeverA500 == \A r \in Requests : req[r].at # "dead"
=============================================================================
