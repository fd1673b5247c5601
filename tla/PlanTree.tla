------------------------------ MODULE PlanTree ------------------------------
(***************************************************************************)
(* The plan of one project, a hierarchy of tasks that agents edit, and the *)
(* pendings that people attach to its tasks (management/service.py), by    *)
(* sessions that read, decide and then write only the columns they change. *)
(* What the screen draws from the plan is in Gantt.                        *)
(***************************************************************************)
EXTENDS Transactions, Gantt

CONSTANTS
    Tasks, Pendings,   \* ids of plan tasks and of pendings
    MaxPlanDepth,      \* MAX_PLAN_DEPTH
    Edits              \* what an agent sends for the dates of a task

ASSUME PlanTreeAssumption ==
    /\ TaskOrder \in Seq(Tasks) /\ IsInjective(TaskOrder) /\ Range(TaskOrder) = Tasks
    /\ None \notin Tasks \cup Int \cup Bar /\ {"overlap", "subtree"} \cap Pendings = {}
    /\ MaxPlanDepth \in Nat \ {0}
    /\ Edits \subseteq [start : Int \cup {None}, end : Int \cup {None},
                        milestone : BOOLEAN \cup {None}]
    \* the calendar goes on after the last date that is sent
    /\ \A e \in Edits : \A day \in {e.start, e.end} \ {None} :
          MonthStart # <<>> /\ day < Last(MonthStart)

VARIABLES
    tasks,      \* plan_tasks, a function whose domain is the rows
    pendings,   \* pendings, likewise
    slipped     \* observation: the checks that a change slipped past

planVars == <<tasks, pendings, sess, slipped>>

Task == [parent : Tasks \cup {None}, start : Int \cup {None}, end : Int \cup {None},
         milestone : BOOLEAN]

(* "doing" and "blocked" are as "open" here. *)
Pending == [status : {"open", "done"}, closed : BOOLEAN, task : Tasks \cup {None}]

PlanTypeOK ==
    /\ DOMAIN tasks \subseteq Tasks /\ Range(tasks) \subseteq Task
    /\ DOMAIN pendings \subseteq Pendings /\ Range(pendings) \subseteq Pending
    /\ \A s \in Sessions : sess[s] = Idle \/
          \/ sess[s].at = "task" /\ sess[s].task \in Tasks /\ sess[s].edit \in Edits
          \/ sess[s].at = "pending" /\ sess[s].pending \in Pendings /\ sess[s].seen \in Pending
    /\ slipped \subseteq {"overlap", "subtree"} \cup Pendings

PlanInit ==
    /\ tasks = <<>> /\ pendings = <<>>
    /\ sess = [s \in Sessions |-> Idle]
    /\ slipped = {}

(* Sessions between their reads and their flush. *)
OnTask == {s \in Sessions : sess[s] # Idle /\ sess[s].at = "task"}
OnPending == {s \in Sessions : sess[s] # Idle /\ sess[s].at = "pending"}

(***************************************************************************)
(* Plan tasks.                                                             *)
(***************************************************************************)

(* The task, its parent, and so on: stops at a root and on a cycle.        *)
ChainUp(t) ==
    LET up[n \in 0..Cardinality(Tasks)] ==
            IF n = 0 THEN {t}
            ELSE LET below == up[n - 1]
                 IN below \cup ({tasks[u].parent : u \in below} \ {None})
    IN up[Cardinality(Tasks)]

(* Mutant of ParentAllowed: a task may go under its own descendants. *)
ParentUnchecked(t, parent) ==
    parent \in DOMAIN tasks /\ Cardinality(ChainUp(parent)) + 1 <= MaxPlanDepth

(* Mutant of ParentAllowed: the new task itself is not counted. *)
ParentOneDeeper(t, parent) ==
    /\ parent \in DOMAIN tasks
    /\ Cardinality(ChainUp(parent)) <= MaxPlanDepth
    /\ t \notin ChainUp(parent)

(* The level under the parent is counted, and a cycle refused; the height  *)
(* of what comes along is not looked at.                                   *)
ParentAllowed(t, parent) ==
    /\ parent \in DOMAIN tasks
    /\ Cardinality(ChainUp(parent)) + 1 <= MaxPlanDepth
    /\ t \notin ChainUp(parent)

(* Only dates that come together are compared. *)
EditAllowed(edit) == edit.start # None /\ edit.end # None => edit.start <= edit.end

(* upsert_plan_task up to its flush, with a parent or leaving it as it is. *)
UpsertPlanTask(s, t, parent, edit) ==
    /\ sess[s] = Idle
    /\ EditAllowed(edit)
    /\ t \in DOMAIN tasks \/ t \notin {sess[o].task : o \in OnTask}   \* uuid4
    /\ parent # None => ParentAllowed(t, parent)
    /\ sess' = [sess EXCEPT ![s] =
          [at |-> "task", task |-> t, new |-> t \notin DOMAIN tasks,
           parent |-> parent, edit |-> edit]]
    /\ UNCHANGED <<tasks, pendings, slipped>>

Given(value, old) == IF value = None THEN old ELSE value

NewTask == [parent |-> None, start |-> None, end |-> None, milestone |-> FALSE]

(* The foreign key on the parent and a row that is gone fail the flush.    *)
FlushPlanTask(s) ==
    LET w == sess[s]
        old == IF w.new THEN NewTask ELSE tasks[w.task]
    IN
    /\ s \in OnTask
    /\ w.new \/ w.task \in DOMAIN tasks
    /\ w.parent # None => w.parent \in DOMAIN tasks
    /\ tasks' = With(tasks, w.task,
            [parent |-> Given(w.parent, old.parent),
             start |-> Given(w.edit.start, old.start),
             end |-> Given(w.edit.end, old.end),
             milestone |-> Given(w.edit.milestone, old.milestone)])
    /\ slipped' = slipped
          \cup {x \in {"overlap"} : w.parent # None /\ \E o \in OnTask \ {s} : sess[o].parent # None}
          \cup {x \in {"subtree"} : w.parent # None /\ \E c \in DOMAIN tasks : tasks[c].parent = w.task}
    /\ End(s)
    /\ UNCHANGED pendings

(* ON DELETE CASCADE below the task, SET NULL for the pendings of it all.  *)
RemovePlanTask(t) ==
    LET gone == {u \in DOMAIN tasks : t \in ChainUp(u)} IN
    /\ t \in DOMAIN tasks
    /\ tasks' = [u \in DOMAIN tasks \ gone |-> tasks[u]]
    /\ pendings' = [p \in DOMAIN pendings |->
          [pendings[p] EXCEPT !.task = IF @ \in gone THEN None ELSE @]]
    /\ UNCHANGED <<sess, slipped>>

(***************************************************************************)
(* Pendings.                                                               *)
(***************************************************************************)

(* Mutant of ApplyPendingStatus: reopening keeps the date. *)
KeepsClosedAt(row, status) ==
    [row EXCEPT !.status = status, !.closed = @ \/ status = "done"]

ApplyPendingStatus(row, status) ==
    [row EXCEPT !.status = status, !.closed = status = "done"]

CreatePending(p, status, t) ==
    /\ p \notin DOMAIN pendings \cup {sess[o].pending : o \in OnPending}   \* uuid4
    /\ t # None => t \in DOMAIN tasks
    /\ pendings' = With(pendings, p,
          [status |-> status, closed |-> status = "done", task |-> t])
    /\ UNCHANGED <<tasks, sess, slipped>>

(* upsert_pending and complete_pending read the row. *)
LoadPending(s, p) ==
    /\ sess[s] = Idle /\ p \in DOMAIN pendings
    /\ sess' = [sess EXCEPT ![s] = [at |-> "pending", pending |-> p, seen |-> pendings[p]]]
    /\ UNCHANGED <<tasks, pendings, slipped>>

(* The columns that differ from the row that was read. *)
Merged(new, seen, row) ==
    [f \in DOMAIN row |-> IF new[f] = seen[f] THEN row[f] ELSE new[f]]

FlushPending(s, status, t) ==
    LET w == sess[s]
        set == IF status = None THEN w.seen ELSE ApplyPendingStatus(w.seen, status)
        new == [set EXCEPT !.task = Given(t, @)]
        row == Merged(new, w.seen, pendings[w.pending])
    IN
    /\ s \in OnPending /\ w.pending \in DOMAIN pendings
    /\ t # None => t \in DOMAIN tasks
    \* a new date differs from the old one
    /\ pendings' = [pendings EXCEPT ![w.pending] =
          IF status = None THEN row ELSE [row EXCEPT !.closed = new.closed]]
    /\ slipped' = slipped \cup
          {p \in {w.pending} : \E o \in OnPending \ {s} : sess[o].pending = p}
    /\ End(s)
    /\ UNCHANGED tasks

DeletePending(p) ==
    /\ p \in DOMAIN pendings
    /\ pendings' = [q \in DOMAIN pendings \ {p} |-> pendings[q]]
    /\ slipped' = slipped \ {p}
    /\ UNCHANGED <<tasks, sess>>

PlanFail(s) ==
    /\ sess[s] # Idle
    /\ End(s)
    /\ UNCHANGED <<tasks, pendings, slipped>>

PlanNext ==
    \/ \E s \in Sessions :
          \/ \E t \in Tasks, p \in Tasks \cup {None}, e \in Edits : UpsertPlanTask(s, t, p, e)
          \/ FlushPlanTask(s)
          \/ \E p \in Pendings : LoadPending(s, p)
          \/ \E status \in {"open", "done", None}, t \in Tasks \cup {None} :
                FlushPending(s, status, t)
          \/ PlanFail(s)
    \/ \E t \in Tasks : RemovePlanTask(t)
    \/ \E p \in Pendings, status \in {"open", "done"}, t \in Tasks \cup {None} :
          CreatePending(p, status, t)
    \/ \E p \in Pendings : DeletePending(p)

PlanSpec == PlanInit /\ [][PlanNext]_planVars

(***************************************************************************)
(* Properties.                                                             *)
(***************************************************************************)

Rooted(t) == \E u \in ChainUp(t) : tasks[u].parent = None

(* The plan is a forest, whatever is created, moved and removed, as long   *)
(* as no two moves overlap (service.py:573; design.md:150).                *)
ForestUnlessOverlap ==
    "overlap" \in slipped \/ \A t \in DOMAIN tasks : Rooted(t)

(* It has three levels unless two moves overlapped or a task was moved     *)
(* with others under it (service.py:569).                                  *)
DepthUnlessMoved ==
    slipped \cap {"overlap", "subtree"} # {} \/
    \A t \in DOMAIN tasks : Cardinality(ChainUp(t)) <= MaxPlanDepth

(* The screen shows exactly the tasks that lead up to a root, each once    *)
(* and below its parent, and none of a cycle (gantt.py:185-215).           *)
RowsAreTheForest ==
    LET rows == DepthFirst(tasks) IN
    /\ {r.task : r \in Range(rows)} = {t \in DOMAIN tasks : Rooted(t)}
    /\ \A i, j \in DOMAIN rows : rows[i].task = rows[j].task => i = j
    /\ \A i \in DOMAIN rows : rows[i].level > 1 =>
          LET above == Max({j \in 1..(i - 1) : rows[j].level = rows[i].level - 1})
          IN tasks[rows[i].task].parent = rows[above].task

(* A bar covers exactly the columns its dates meet and a task without one  *)
(* meets none, except that dates which lie in the gap between the weeks    *)
(* and the months may be drawn at the next column (gantt.py:105-126).      *)
BarsAreExact ==
    LET rows == PlanRows(tasks)
        bounds == PlanBounds(tasks)
        columns == BuildAxis(bounds.start, bounds.end)
        Meets(r) == {i \in DOMAIN columns :
            columns[i].start <= Later(r.start, r.end) /\ r.start <= columns[i].end}
    IN \A i \in DOMAIN rows :
          LET r == rows[i] IN
          ~tasks[r.task].milestone /\ r.start # None /\ r.end # None =>
              IF r.bar = None THEN Meets(r) = {}
              ELSE Meets(r) \in {{}, r.bar.first..(r.bar.first + r.bar.span - 1)}

(* A milestone stands in the one column of its day, and in none only when  *)
(* no column has that day (gantt.py:129-138).                              *)
MilestonesAreExact ==
    LET rows == PlanRows(tasks)
        bounds == PlanBounds(tasks)
        columns == BuildAxis(bounds.start, bounds.end)
        Holding(r) == {i \in DOMAIN columns :
            columns[i].start <= r.start /\ r.start <= columns[i].end}
    IN \A i \in DOMAIN rows :
          LET r == rows[i] IN
          tasks[r.task].milestone /\ r.start # None =>
              Holding(r) = IF r.milestone = None THEN {} ELSE {r.milestone}

(* The axis of a plan reaches from its first day to its last, but for the  *)
(* gap, and a phase without dates of its own spans its children.           *)
AxisReaches ==
    LET bounds == PlanBounds(tasks)
        columns == BuildAxis(bounds.start, bounds.end)
        end == Later(bounds.start, bounds.end)
        eff == Effective(tasks)
    IN /\ bounds.start # None /\ bounds.end # None =>
            /\ columns[1].start <= bounds.start
            /\ \/ end <= Last(columns).end
               \/ Len(columns) = WeeklyLimit /\ \A m \in DOMAIN MonthStart :
                     MonthStart[m] \notin (Last(columns).end + 1)..end
       /\ \A r \in Range(DepthFirst(tasks)) :
            LET p == tasks[r.task].parent IN
            p # None /\ tasks[p].end = None /\ ~tasks[p].milestone /\ eff[r.task].end # None
            => eff[p].end # None /\ eff[p].end >= eff[r.task].end

(* The chart is exact in every plan that sessions can make together: its    *)
(* rows are the forest, its bars and milestones the dates, and its axis    *)
(* spans them.                                                             *)
ChartIsExact == RowsAreTheForest /\ BarsAreExact /\ MilestonesAreExact /\ AxisReaches

(* A pending that is done has the date it was closed at and no other has   *)
(* one, unless two sessions had it open at once (service.py:480-482).      *)
DatedUnlessOverlap ==
    \A p \in DOMAIN pendings : p \notin slipped =>
        (pendings[p].closed <=> pendings[p].status = "done")

(* A pending points to a task that exists. *)
PendingsHaveTasks ==
    \A p \in DOMAIN pendings : pendings[p].task # None => pendings[p].task \in DOMAIN tasks

(* The rows are typed, and a pending has a closing date and a task only    *)
(* when it is done and the task exists.                                    *)
PendingsAreSound == PlanTypeOK /\ PendingsHaveTasks /\ DatedUnlessOverlap
=============================================================================
