------------------------------ MODULE Backlog ------------------------------
(***************************************************************************)
(* What sessions do to a project's backlog besides closing and blocking,   *)
(* which is in ItemLifecycle: creating items, editing their fields,        *)
(* relating them, and moving threads through their stages                  *)
(* (items/service.py, items/relationships.py, threads/service.py and the   *)
(* MCP tools and routes that call them).  A session reads and decides in   *)
(* one step and commits in a second one; nothing locks what it has read.   *)
(***************************************************************************)
EXTENDS Transactions, WorkOrder

CONSTANTS
    Items, Threads,  \* ids
    Titles,          \* titles of items, equal up to case
    Changes,         \* what an edit may ask for: functions from some Fields
    Priorities, Impacts,
    Relations,       \* kinds of relations
    Funnel,          \* the stages of a thread in order, from "idea" to "done"
    MaxArtifacts     \* bound: artifacts of a thread

ASSUME BacklogAssumption ==
    /\ Items \subseteq Int /\ None \notin Items \cup Threads \cup Sessions
    /\ None \in Priorities /\ None \in Impacts /\ Impacts \ {None} \subseteq 1..5
    /\ Funnel \in Seq(STRING) /\ IsInjective(Funnel)
    /\ Len(Funnel) > 1 /\ Funnel[1] = "idea" /\ Last(Funnel) = "done"
    /\ Relations \subseteq {"blocks", "requires", "conflicts", "related"}
    /\ \A ch \in Changes : \A f \in DOMAIN ch :
          \/ f = "title" /\ ch[f] \in Titles
          \/ f = "priority" /\ ch[f] \in Priorities
          \/ f = "impact" /\ ch[f] \in Impacts

VARIABLES
    items,      \* a function whose domain is the rows
    threads,    \* the stage of each thread
    artifacts,  \* for each thread, the stages its artifacts were added at
    rels,       \* item_relationships
    told,       \* for each item, its fields as the latest receipts give them
    excused     \* observation: the checks that a change slipped past

backlogVars == <<items, threads, artifacts, rels, told, sess, excused>>

Fields == {"title", "priority", "impact"}

Stages == Range(Funnel) \cup {"discarded"}

Item == [title : Titles, priority : Priorities, impact : Impacts,
         open : BOOLEAN, thread : Threads \cup {None}]

BacklogTypeOK ==
    /\ DOMAIN items \subseteq Items /\ Range(items) \subseteq Item
    /\ DOMAIN threads \subseteq Threads /\ Range(threads) \subseteq Stages
    /\ DOMAIN artifacts = DOMAIN threads /\ Range(artifacts) \subseteq Seq(Stages)
    /\ \A r \in rels : r.source \in DOMAIN items /\ r.target \in DOMAIN items
                       /\ r.source # r.target /\ r.relation \in Relations
    /\ DOMAIN told = DOMAIN items /\ \A i \in DOMAIN told : DOMAIN told[i] = Fields
    /\ \A s \in Sessions : sess[s].at \in {"idle", "stage", "edit", "create", "relate"}

BacklogInit ==
    /\ items = <<>> /\ threads = <<>> /\ artifacts = <<>> /\ rels = {} /\ told = <<>>
    /\ sess = [s \in Sessions |-> Idle]
    /\ excused = [title |-> FALSE, funnel |-> {}, done |-> {}, receipt |-> {}]

At(state) == {s \in Sessions : sess[s].at = state}

Begin(s, doing) == sess[s] = Idle /\ sess' = [sess EXCEPT ![s] = doing]

(* The columns that differ from what was read are written. *)
WrittenField(new, seen, row) == IF new = seen THEN row ELSE new

(***************************************************************************)
(* Threads.                                                                *)
(***************************************************************************)

CreateThread(t) ==
    /\ t \notin DOMAIN threads
    /\ threads' = With(threads, t, "idea")
    /\ artifacts' = With(artifacts, t, <<>>)
    /\ UNCHANGED <<items, rels, told, sess, excused>>

NextStage(stage) ==
    LET later == {n \in 2..Len(Funnel) : Funnel[n - 1] = stage}
    IN IF later = {} THEN None ELSE Funnel[CHOOSE n \in later : TRUE]

OpenLinked(t) == {i \in DOMAIN items : items[i].thread = t /\ items[i].open}

(* Mutant of StageAllowed: only the last step of the funnel is checked. *)
StageCheckedInReview(t, stage) ==
    stage = "done" /\ NextStage(threads[t]) = "done" => OpenLinked(t) = {}

StageAllowed(t, stage) == stage = "done" => OpenLinked(t) = {}

(* advance_stage up to its commit; art: an artifact comes along. *)
AdvanceStage(s, t, art) ==
    /\ t \in DOMAIN threads /\ NextStage(threads[t]) # None
    /\ StageAllowed(t, NextStage(threads[t]))
    /\ Begin(s, [at |-> "stage", thread |-> t, seen |-> threads[t],
                 new |-> NextStage(threads[t]), art |-> art, set |-> FALSE])
    /\ UNCHANGED <<items, threads, artifacts, rels, told, excused>>

SetStage(s, t, stage) ==
    /\ t \in DOMAIN threads
    /\ StageAllowed(t, stage)
    /\ Begin(s, [at |-> "stage", thread |-> t, seen |-> threads[t],
                 new |-> stage, art |-> FALSE, set |-> TRUE])
    /\ UNCHANGED <<items, threads, artifacts, rels, told, excused>>

(* The stage the thread is in when an artifact comes with its advance. *)
StageOfArtifact(w) == w.seen

CommitStage(s) ==
    LET w == sess[s]
        overlaps == \E o \in At("stage") \ {s} : sess[o].thread = w.thread
    IN
    /\ s \in At("stage")
    /\ threads' = [threads EXCEPT ![w.thread] = WrittenField(w.new, w.seen, @)]
    /\ artifacts' = [artifacts EXCEPT ![w.thread] =
          IF w.art THEN Append(@, StageOfArtifact(w)) ELSE @]
    /\ \A t \in DOMAIN artifacts' : Len(artifacts'[t]) <= MaxArtifacts
    /\ excused' = [excused EXCEPT !.funnel = @ \cup {t \in {w.thread} : w.set \/ overlaps}]
    /\ End(s)
    /\ UNCHANGED <<items, rels, told>>

(* An artifact by itself, for any stage. *)
AddArtifact(t, stage) ==
    /\ t \in DOMAIN threads /\ Len(artifacts[t]) < MaxArtifacts
    /\ artifacts' = [artifacts EXCEPT ![t] = Append(@, stage)]
    /\ excused' = [excused EXCEPT !.funnel = @ \cup {t}]
    /\ UNCHANGED <<items, threads, rels, told, sess>>

(* A thread that is done, or has been found to have nothing open. *)
Finishing(t) ==
    t # None /\ (threads[t] = "done" \/ \E s \in At("stage") : sess[s].thread = t /\ sess[s].new = "done")

(***************************************************************************)
(* Items.                                                                  *)
(***************************************************************************)

Receipt(row) == [f \in Fields |-> row[f]]

OpenTitled(title) == {i \in DOMAIN items : items[i].open /\ items[i].title = title}

(* Somebody else has, or is about to insert, an open item with the title.  *)
Clashes(title, s) ==
    OpenTitled(title) # {} \/ \E o \in At("create") \ {s} : sess[o].row.title = title

(* POST /items and the form: in no thread, any status. *)
CreateItem(i, title, priority, open) ==
    LET row == [title |-> title, priority |-> priority, impact |-> None,
                open |-> open, thread |-> None]
    IN
    /\ i \notin DOMAIN items \cup {sess[o].item : o \in At("create")}   \* uuid4
    /\ items' = With(items, i, row)
    /\ told' = With(told, i, Receipt(row))
    /\ excused' = [excused EXCEPT !.title = @ \/ (open /\ Clashes(title, None))]
    /\ UNCHANGED <<threads, artifacts, rels, sess>>

(* Mutant of AlreadyOpen: the filter on the status is the wrong way round. *)
AlreadyClosed(title) == \E i \in DOMAIN items : ~items[i].open /\ items[i].title = title

AlreadyOpen(title) == OpenTitled(title) # {}

(* pulsyr_create up to its insert. *)
PulsyrCreate(s, i, title, impact, t) ==
    /\ i \notin DOMAIN items \cup {sess[o].item : o \in At("create")}   \* uuid4
    /\ t # None => t \in DOMAIN threads
    /\ ~AlreadyOpen(title)
    /\ Begin(s, [at |-> "create", item |-> i,
                 row |-> [title |-> title, priority |-> None, impact |-> impact,
                          open |-> TRUE, thread |-> t]])
    /\ UNCHANGED <<items, threads, artifacts, rels, told, excused>>

CommitCreate(s) ==
    LET w == sess[s] IN
    /\ s \in At("create")
    /\ items' = With(items, w.item, w.row)
    /\ told' = With(told, w.item, Receipt(w.row))
    /\ excused' = [excused EXCEPT
          !.title = @ \/ \E o \in At("create") \ {s} : sess[o].row.title = w.row.title,
          !.done = @ \cup {t \in {w.row.thread} : Finishing(t)}]
    /\ End(s)
    /\ UNCHANGED <<threads, artifacts, rels>>

(* close_item and reopen_item, whose own races are in ItemLifecycle. *)
CloseItem(i) ==
    /\ i \in DOMAIN items /\ items[i].open
    /\ items' = [items EXCEPT ![i].open = FALSE]
    /\ UNCHANGED <<threads, artifacts, rels, told, sess, excused>>

ReopenItem(i) ==
    /\ i \in DOMAIN items /\ ~items[i].open
    /\ items' = [items EXCEPT ![i].open = TRUE]
    /\ excused' = [excused EXCEPT
          !.title = @ \/ Clashes(items[i].title, None),
          !.done = @ \cup {t \in {items[i].thread} : Finishing(t)}]
    /\ UNCHANGED <<threads, artifacts, rels, told, sess>>

(* Whatever stage the thread is in. *)
PulsyrThreadLink(i, t) ==
    /\ i \in DOMAIN items /\ t \in DOMAIN threads
    /\ items' = [items EXCEPT ![i].thread = t]
    /\ excused' = [excused EXCEPT !.done = @ \cup {u \in {t} : items[i].open /\ Finishing(u)}]
    /\ UNCHANGED <<threads, artifacts, rels, told, sess>>

(* update_item, and the job that estimates an item, read the row. *)
LoadItem(s, i) ==
    /\ i \in DOMAIN items
    /\ Begin(s, [at |-> "edit", item |-> i, seen |-> items[i]])
    /\ UNCHANGED <<items, threads, artifacts, rels, told, excused>>

(* Mutant of Edited: the whole row is written back. *)
EditedWhole(row, seen, ch) ==
    [f \in DOMAIN row |-> IF f \in DOMAIN ch THEN ch[f] ELSE seen[f]]

Edited(row, seen, ch) ==
    [f \in DOMAIN row |-> IF f \in DOMAIN ch THEN WrittenField(ch[f], seen[f], row[f]) ELSE row[f]]

(* With a receipt of what the fields now are, as the session sees them. *)
UpdateItem(s, ch) ==
    LET w == sess[s]
        hidden == {f \in DOMAIN ch : ch[f] = w.seen[f] /\ items[w.item][f] # ch[f]}
    IN
    /\ s \in At("edit") /\ ch # <<>>
    /\ items' = [items EXCEPT ![w.item] = Edited(@, w.seen, ch)]
    /\ told' = [told EXCEPT ![w.item] = [f \in Fields |-> IF f \in DOMAIN ch THEN ch[f] ELSE @[f]]]
    /\ excused' = [excused EXCEPT
          !.receipt = (@ \ ({w.item} \X DOMAIN ch)) \cup ({w.item} \X hidden),
          !.title = @ \/ ("title" \in DOMAIN ch /\ Clashes(ch.title, None))]
    /\ End(s)
    /\ UNCHANGED <<threads, artifacts, rels>>

(* handle_enrich: the estimate is written and recorded, whoever had edited *)
(* the impact while the model was thinking.                                *)
Enrich(s, impact) == UpdateItem(s, [impact |-> impact])

(***************************************************************************)
(* Relations.                                                              *)
(***************************************************************************)

Symmetric == {"conflicts", "related"}

(* Mutant of Normal: symmetric relations are stored as they come. *)
AsGiven(a, b, relation) == Arc(a, b, relation)

Normal(a, b, relation) ==
    IF relation \in Symmetric /\ a > b THEN Arc(b, a, relation) ELSE Arc(a, b, relation)

(* An arc that is there already is returned. *)
CreateRelationship(s, a, b, relation) ==
    /\ {a, b} \subseteq DOMAIN items /\ a # b
    /\ Normal(a, b, relation) \notin rels
    /\ Begin(s, [at |-> "relate", arc |-> Normal(a, b, relation)])
    /\ UNCHANGED <<items, threads, artifacts, rels, told, excused>>

(* The insert fails if the arc has come since: see BacklogFail. *)
CommitRelationship(s) ==
    /\ s \in At("relate") /\ sess[s].arc \notin rels
    /\ rels' = rels \cup {sess[s].arc}
    /\ End(s)
    /\ UNCHANGED <<items, threads, artifacts, told, excused>>

(* Symmetric relations are looked up in both orders. *)
Found(a, b, relation) ==
    IF Arc(a, b, relation) \in rels \/ relation \notin Symmetric
    THEN rels \cap {Arc(a, b, relation)} ELSE rels \cap {Arc(b, a, relation)}

DeleteRelationship(a, b, relation) ==
    /\ {a, b} \subseteq DOMAIN items /\ Found(a, b, relation) # {}
    /\ rels' = rels \ Found(a, b, relation)
    /\ UNCHANGED <<items, threads, artifacts, told, sess, excused>>

(* The request ends without a commit. *)
BacklogFail(s) ==
    /\ sess[s] # Idle
    /\ End(s)
    /\ UNCHANGED <<items, threads, artifacts, rels, told, excused>>

BacklogNext ==
    \/ \E t \in Threads :
          \/ CreateThread(t)
          \/ \E stage \in Stages : AddArtifact(t, stage)
          \/ \E i \in Items : PulsyrThreadLink(i, t)
    \/ \E s \in Sessions :
          \/ \E t \in Threads, art \in BOOLEAN : AdvanceStage(s, t, art)
          \/ \E t \in Threads, stage \in Stages : SetStage(s, t, stage)
          \/ CommitStage(s)
          \/ \E i \in Items, title \in Titles, impact \in Impacts, t \in Threads \cup {None} :
                PulsyrCreate(s, i, title, impact, t)
          \/ CommitCreate(s)
          \/ \E i \in Items : LoadItem(s, i)
          \/ \E ch \in Changes : UpdateItem(s, ch)
          \/ \E impact \in Impacts \ {None} : Enrich(s, impact)
          \/ \E a, b \in Items, r \in Relations : CreateRelationship(s, a, b, r)
          \/ CommitRelationship(s)
          \/ BacklogFail(s)
    \/ \E i \in Items :
          \/ \E title \in Titles, priority \in Priorities, open \in BOOLEAN :
                CreateItem(i, title, priority, open)
          \/ CloseItem(i)
          \/ ReopenItem(i)
    \/ \E a, b \in Items, r \in Relations : DeleteRelationship(a, b, r)

BacklogSpec == BacklogInit /\ [][BacklogNext]_backlogVars

(***************************************************************************)
(* Properties.                                                             *)
(***************************************************************************)

(* A thread that is done has no open item, unless one was linked, created  *)
(* or reopened in it later, or between the count of its open items and the *)
(* commit (threads/service.py:82, 95).                                     *)
DoneUnlessReopened ==
    \A t \in DOMAIN threads :
        threads[t] = "done" => OpenLinked(t) = {} \/ t \in excused.done

(* The artifacts of a thread that only ever advanced, one session at a     *)
(* time, tell its way: each from a later stage than the one before it, and *)
(* from an earlier one than the thread is in (threads/service.py:84-87).   *)
ArtifactsTellTheWay ==
    LET Nth(stage) == CHOOSE n \in DOMAIN Funnel : Funnel[n] = stage IN
    \A t \in DOMAIN threads : t \in excused.funnel \/
        LET way == artifacts[t] \o <<threads[t]>> IN
        \A n \in 2..Len(way) : Nth(way[n - 1]) < Nth(way[n])

(* A thread ends with its items and tells how it got there.                *)
ThreadsAreSound == DoneUnlessReopened /\ ArtifactsTellTheWay

(* Agents that create items do not leave two open ones of one title,       *)
(* unless two did it at once or somebody created, renamed or reopened the  *)
(* other (mcp/tools.py:416-427).                                           *)
OneOpenPerTitle ==
    excused.title \/ \A title \in Titles : Cardinality(OpenTitled(title)) <= 1

(* Every field of an item is what its latest receipt says, even when       *)
(* sessions edit it at once, but for a session that sets a field to what   *)
(* it had read while another one changed it (items/service.py:181-199).    *)
ReceiptsAreTrue ==
    \A i \in DOMAIN items, f \in Fields :
        told[i][f] = items[i][f] \/ <<i, f>> \in excused.receipt

(* One deletion is enough: whichever way round a symmetric relation was    *)
(* created and is named, nothing of it is left (relationships.py:85-116).  *)
OneDeletionIsEnough ==
    \A a, b \in DOMAIN items, r \in Symmetric :
        {Arc(a, b, r), Arc(b, a, r)} \cap (rels \ Found(a, b, r)) = {}

(* The rows are typed, and no relation hides from its deletion.            *)
RelationsAreSound == BacklogTypeOK /\ OneDeletionIsEnough

(* The order has every item once, and one item before another whenever the *)
(* relations say so, except for those on a cycle or after one, which come  *)
(* last (graph.py:197-247).                                                *)
OrderIsTopological ==
    LET nodes == DOMAIN items
        impact == [i \in nodes |-> IF items[i].impact = None THEN 0 ELSE items[i].impact]
        before == Before(rels, nodes)
        result == TopologicalOrder(nodes, rels, impact)
        onCycle == {n \in nodes : n \in After({n}, before, nodes)}
        pos == [n \in nodes |-> CHOOSE k \in DOMAIN result.order : result.order[k] = n]
    IN /\ Range(result.order) = nodes /\ Len(result.order) = Cardinality(nodes)
       /\ result.cycle = onCycle \cup After(onCycle, before, nodes)
       /\ \A r \in rels :
            /\ r.relation = "blocks" /\ r.target \notin result.cycle => pos[r.source] < pos[r.target]
            /\ r.relation = "requires" /\ r.source \notin result.cycle => pos[r.target] < pos[r.source]
       /\ \A n \in result.cycle, m \in nodes \ result.cycle : pos[m] < pos[n]
=============================================================================
