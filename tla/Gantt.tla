------------------------------- MODULE Gantt -------------------------------
(***************************************************************************)
(* The time axis and the bars of a plan (management/gantt.py).  A day is a *)
(* number and day 0 is a Monday; labels, header groups and the fraction    *)
(* within a column are left out.                                           *)
(***************************************************************************)
EXTENDS Null, Ranking, FiniteSetsExt, SequencesExt

CONSTANTS
    WeeklyLimit,   \* weeks on the axis before it coarsens to months
    MonthStart,    \* the first day of each month of the calendar, in order
    TaskOrder      \* the ids of all tasks by sort_order and name

ASSUME GanttAssumption ==
    /\ WeeklyLimit \in Nat \ {0}
    /\ MonthStart \in Seq(Int)
    /\ \A m, n \in DOMAIN MonthStart : m < n => MonthStart[m] < MonthStart[n]

Later(a, b) == IF a < b THEN b ELSE a

Monday(day) == day - (day % 7)

Column == [start : Int, end : Int]

(* Weeks up to the one with the end, at most WeeklyLimit of them.          *)
Weeks(start, end) ==
    LET n == Min({WeeklyLimit, (end - Monday(start)) \div 7 + 1}) IN
    [i \in 1..n |-> [start |-> Monday(start) + 7 * (i - 1), end |-> Monday(start) + 7 * i - 1]]

(* Months from the first that begins after the weeks to the one with the   *)
(* end: the days between the last week and that month are in no column.    *)
Months(after, end) ==
    LET months == {m \in DOMAIN MonthStart : after < MonthStart[m] /\ MonthStart[m] <= end}
    IN [i \in 1..Cardinality(months) |->
           [start |-> MonthStart[Min(months) + i - 1], end |-> MonthStart[Min(months) + i] - 1]]

BuildAxis(start, end) ==
    LET weeks == Weeks(start, Later(start, end))
    IN weeks \o Months(Last(weeks).end, Later(start, end))

(* today_fraction and milestone_index: the column of a day, if there is one. *)
ColumnOf(day, columns) ==
    LET holds == {i \in DOMAIN columns : columns[i].start <= day /\ day <= columns[i].end}
    IN IF day = None \/ holds = {} THEN None ELSE Min(holds)

Bar == [first : Int, span : Int]

(* Mutant of BarGeometry: the bar ends before the column of its last day. *)
BarEndsEarly(start, end, columns) ==
    LET from == Min({i \in DOMAIN columns : columns[i].end >= start})
        to == Max({from} \cup {i \in DOMAIN columns : columns[i].end < end})
    IN IF \/ columns = <<>> \/ start = None \/ end = None
          \/ Later(start, end) < columns[1].start \/ start > Last(columns).end
       THEN None ELSE [first |-> from, span |-> to - from + 1]

(* From the first column that ends at the start or later, to the last that *)
(* begins at the end or earlier.                                           *)
BarGeometry(start, end, columns) ==
    LET from == Min({i \in DOMAIN columns : columns[i].end >= start})
        to == Max({i \in DOMAIN columns : columns[i].start <= Later(start, end)})
    IN IF \/ columns = <<>> \/ start = None \/ end = None
          \/ Later(start, end) < columns[1].start \/ start > Last(columns).end
       THEN None
       ELSE [first |-> from, span |-> Later(from, to) - from + 1]

(***************************************************************************)
(* A forest of tasks: a set of ids, the parent of each and its own dates.  *)
(***************************************************************************)

MinDate(S) == IF S \ {None} = {} THEN None ELSE Min(S \ {None})
MaxDate(S) == IF S \ {None} = {} THEN None ELSE Max(S \ {None})

Turn(t) == CHOOSE i \in DOMAIN TaskOrder : TaskOrder[i] = t

Children(tasks, t) ==
    LET kids == {c \in DOMAIN tasks : tasks[c].parent = t}
    IN ByRank([c \in kids |-> {d \in kids : Turn(d) < Turn(c)}])

(* The dates a task has or, where it has none, its children give it.       *)
(* A milestone is a point.                                                 *)
Dates(tasks, t, below) ==
    LET kids == {below[c] : c \in Range(Children(tasks, t))}
        start == IF tasks[t].start # None THEN tasks[t].start
                 ELSE MinDate({d.start : d \in kids})
        end == IF tasks[t].end # None THEN tasks[t].end
               ELSE MaxDate({d.end : d \in kids})
    IN [start |-> start, end |-> IF tasks[t].milestone THEN start ELSE end]

(* A branch has at most as many levels as there are tasks.                 *)
Effective(tasks) ==
    LET eff[n \in 0..Cardinality(DOMAIN tasks)] ==
            IF n = 0 THEN [t \in DOMAIN tasks |-> [start |-> None, end |-> None]]
            ELSE LET below == eff[n - 1] IN [t \in DOMAIN tasks |-> Dates(tasks, t, below)]
    IN eff[Cardinality(DOMAIN tasks)]

RowsUnder(tasks, t, rows) ==
    FlattenSeq([i \in 1..Len(Children(tasks, t)) |-> rows[Children(tasks, t)[i]]])

(* The tasks of the forest depth first, each with its level. *)
DepthFirst(tasks) ==
    LET N == Cardinality(DOMAIN tasks)
        emit[n \in 0..N] ==
            IF n = 0 THEN [t \in DOMAIN tasks |-> <<>>]
            ELSE LET below == emit[n - 1] IN
                 [t \in DOMAIN tasks |->
                     <<[task |-> t, level |-> N - n + 1]>> \o RowsUnder(tasks, t, below)]
    IN RowsUnder(tasks, None, emit[N])

PlanBounds(tasks) ==
    LET eff == Effective(tasks)
        shown == {row.task : row \in Range(DepthFirst(tasks))}
    IN [start |-> MinDate({eff[t].start : t \in shown}),
        end |-> MaxDate({eff[t].end : t \in shown})]

(* What the screen shows: nothing unless the plan has a start and an end.  *)
PlanRows(tasks) ==
    LET bounds == PlanBounds(tasks)
        columns == BuildAxis(bounds.start, bounds.end)
        eff == Effective(tasks)
        order == DepthFirst(tasks)
        Row(t, level) ==
            [task |-> t, level |-> level, start |-> eff[t].start, end |-> eff[t].end,
             bar |-> IF tasks[t].milestone THEN None
                     ELSE BarGeometry(eff[t].start, eff[t].end, columns),
             milestone |-> IF tasks[t].milestone THEN ColumnOf(eff[t].start, columns) ELSE None]
    IN IF bounds.start = None \/ bounds.end = None THEN <<>>
       ELSE [i \in DOMAIN order |-> Row(order[i].task, order[i].level)]
=============================================================================
