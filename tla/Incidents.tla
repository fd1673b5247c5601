----------------------------- MODULE Incidents -----------------------------
(***************************************************************************)
(* The incident container (app/webhooks/service.py) and its AI triage      *)
(* (app/jobs/handlers.py): Sentry webhooks count the occurrences of an     *)
(* issue, the worker classifies it, people and agents promote it to the    *)
(* backlog, ignore it, restore it or resolve it, each in a session of its  *)
(* own.                                                                    *)
(*                                                                         *)
(* A session keeps the row as it read it and as it wants it; the UPDATE    *)
(* holds the attributes in which the two differ and takes the row lock.    *)
(* promote, ignore and unignore lock the row and read it again first       *)
(* (_locked_issue); ingest, triage and resolve do not.                     *)
(***************************************************************************)
EXTENDS Integers, FiniteSets

CONSTANTS
    Issues,    \* values of sentry_issue_id
    Items,     \* backlog items that promotions insert
    Hooks,     \* sessions of Sentry webhooks and of the backfill
    Owners,    \* sessions of the UI and of the MCP server
    Workers,   \* worker slots that run triage-sentry jobs
    None,      \* a NULL item_id, a session that handles no issue
    MaxCount   \* bound: occurrences of an issue

Sessions == Hooks \cup Owners \cup Workers

ASSUME IncidentsAssumption ==
    /\ MaxCount \in Nat \ {0}
    /\ None \notin Issues /\ None \notin Items
    /\ Hooks \cap Owners = {} /\ Hooks \cap Workers = {} /\ Owners \cap Workers = {}

VARIABLES
    row,       \* sentry_issues
    job,       \* the triage-sentry job of each issue
    itemAt,    \* each backlog item: can it be closed as done, is it closed
    sess,      \* the transaction of each session
    received   \* observation: webhooks answered with success for each issue

vars == <<row, job, itemAt, sess, received>>

IssueStatuses == {"absent", "new", "linked", "resolved", "ignored"}

Row == [status : IssueStatuses, noise : BOOLEAN, count : 0..MaxCount,
        item : Items \cup {None}]

NoRow == [status |-> "absent", noise |-> FALSE, count |-> 0, item |-> None]

(* An item is promoted as 'backlog', which can be closed; 'spec' or        *)
(* 'blocked' cannot become 'done' (items/lifecycle.py:12-21).              *)
ItemStates == {"absent", "closable", "stuck", "closed"}

Steps == {"idle", "insert", "inserted", "bump", "triage", "loaded", "locked",
          "closing", "flushed"}

Idle == [at |-> "idle", issue |-> None, seen |-> NoRow, new |-> NoRow, closes |-> None]

SessState == [at : Steps, issue : Issues \cup {None}, seen : Row, new : Row,
              closes : Items \cup {None}]

TypeOK ==
    /\ row \in [Issues -> Row]
    /\ job \in [Issues -> {"none", "queued", "running", "ended"}]
    /\ itemAt \in [Items -> ItemStates]
    /\ sess \in [Sessions -> SessState]
    /\ received \in [Issues -> 0..MaxCount]

Init ==
    /\ row = [i \in Issues |-> NoRow]
    /\ job = [i \in Issues |-> "none"]
    /\ itemAt = [m \in Items |-> "absent"]
    /\ sess = [s \in Sessions |-> Idle]
    /\ received = [i \in Issues |-> 0]

(***************************************************************************)
(* Transactions.                                                           *)
(***************************************************************************)
Dirty(s) == sess[s].new # sess[s].seen

Holds(s, i) ==
    /\ sess[s].issue = i
    /\ \/ sess[s].at \in {"locked", "inserted"}
       \/ sess[s].at \in {"closing", "flushed"} /\ Dirty(s)

(* No other session holds the row. *)
Free(s, i) == \A t \in Sessions \ {s} : ~Holds(t, i)
ItemFree(m) == \A s \in Sessions : sess[s].closes # m

Read(s, i, at) ==
    sess' = [sess EXCEPT ![s] = [at |-> at, issue |-> i, seen |-> row[i], new |-> row[i],
                                 closes |-> None]]

(* Mutant of Merged: the whole row is written. *)
WholeRow(s, old) == sess[s].new

(* The row after the UPDATE of session s. *)
Merged(s, old) ==
    LET seen == sess[s].seen  new == sess[s].new IN
    [status |-> IF new.status = seen.status THEN old.status ELSE new.status,
     noise |-> IF new.noise = seen.noise THEN old.noise ELSE new.noise,
     count |-> IF new.count = seen.count THEN old.count ELSE new.count,
     item |-> IF new.item = seen.item THEN old.item ELSE new.item]

Flush(s, new, at) ==
    /\ new # sess[s].seen => Free(s, sess[s].issue)
    /\ sess' = [sess EXCEPT ![s].at = at, ![s].new = new]

EndSession(s) == sess' = [sess EXCEPT ![s] = Idle]

(* Closes the item the session flushed as done; a promoted item is new. *)
ItemsAfter(s) ==
    [m \in Items |->
        IF sess[s].closes = m THEN "closed"
        ELSE IF sess[s].new.item = m /\ sess[s].seen.item = None THEN "closable"
        ELSE itemAt[m]]

(***************************************************************************)
(* ingest_sentry.                                                          *)
(***************************************************************************)
Receive(h, i) ==
    /\ sess[h].at = "idle"
    /\ Read(h, i, IF row[i].status = "absent" THEN "insert" ELSE "bump")
    /\ UNCHANGED <<row, job, itemAt, received>>

(* The unique index makes the INSERT wait for a session that inserted the  *)
(* same issue, and fail when that session committed: the webhook errs.     *)
InsertIssue(h) ==
    LET i == sess[h].issue IN
    /\ sess[h].at = "insert"
    /\ \A s \in Sessions : sess[s].at = "inserted" => sess[s].issue # i
    /\ IF row[i].status = "absent"
         THEN sess' = [sess EXCEPT ![h].at = "inserted",
                   ![h].new = [NoRow EXCEPT !.status = "new", !.count = 1]]
         ELSE EndSession(h)
    /\ UNCHANGED <<row, job, itemAt, received>>

(* The new row and its triage job commit together; a full queue refuses    *)
(* the job and the row commits alone.                                      *)
CommitInsert(h) ==
    LET i == sess[h].issue IN
    /\ sess[h].at = "inserted"
    /\ received[i] < MaxCount
    /\ row' = [row EXCEPT ![i] = sess[h].new]
    /\ \E j \in {"queued", "none"} : job' = [job EXCEPT ![i] = j]
    /\ received' = [received EXCEPT ![i] = @ + 1]
    /\ EndSession(h)
    /\ UNCHANGED itemAt

(* Mutant of BumpCount: the count starts over. *)
ResetCount(h) ==
    /\ sess[h].at = "bump"
    /\ Flush(h, [sess[h].seen EXCEPT !.count = 1], "flushed")
    /\ UNCHANGED <<row, job, itemAt, received>>

BumpCount(h) ==
    /\ sess[h].at = "bump"
    /\ sess[h].seen.count < MaxCount
    /\ Flush(h, [sess[h].seen EXCEPT !.count = @ + 1], "flushed")
    /\ UNCHANGED <<row, job, itemAt, received>>

CommitBump(h) ==
    LET i == sess[h].issue IN
    /\ sess[h].at = "flushed"
    /\ received[i] < MaxCount
    /\ row' = [row EXCEPT ![i] = Merged(h, row[i])]
    /\ received' = [received EXCEPT ![i] = @ + 1]
    /\ EndSession(h)
    /\ UNCHANGED <<job, itemAt>>

(***************************************************************************)
(* handle_triage_sentry, run by the worker.                                *)
(***************************************************************************)
StartTriage(w, i) ==
    /\ sess[w].at = "idle"
    /\ job[i] = "queued"
    /\ job' = [job EXCEPT ![i] = "running"]
    /\ Read(w, i, "triage")
    /\ UNCHANGED <<row, itemAt, received>>

(* The model answers: noise that was in no item when the row was read is   *)
(* hidden.  Without an API key nothing is written.                         *)
Classify(w) ==
    LET seen == sess[w].seen IN
    /\ sess[w].at = "triage"
    /\ \E verdict \in {"noise", "other", "unavailable"} :
        Flush(w, CASE verdict = "unavailable" -> seen
                   [] verdict = "other" -> [seen EXCEPT !.noise = FALSE]
                   [] verdict = "noise" ->
                        [seen EXCEPT !.noise = TRUE,
                                     !.status = IF seen.item = None THEN "ignored" ELSE @],
              "flushed")
    /\ UNCHANGED <<row, job, itemAt, received>>

CommitTriage(w) ==
    LET i == sess[w].issue IN
    /\ sess[w].at = "flushed"
    /\ row' = [row EXCEPT ![i] = Merged(w, row[i])]
    /\ job' = [job EXCEPT ![i] = "ended"]
    /\ EndSession(w)
    /\ UNCHANGED <<itemAt, received>>

(* The handler fails, or its process dies and the job is reclaimed. *)
LoseTriage(w) ==
    /\ sess[w].at \in {"triage", "flushed"}
    /\ \E j \in {"ended", "queued"} : job' = [job EXCEPT ![sess[w].issue] = j]
    /\ EndSession(w)
    /\ UNCHANGED <<row, itemAt, received>>

(***************************************************************************)
(* The owner's operations, each on an incident its request loaded first.   *)
(***************************************************************************)
LoadIssue(o, i) ==
    /\ sess[o].at = "idle"
    /\ row[i].status # "absent"
    /\ Read(o, i, "loaded")
    /\ UNCHANGED <<row, job, itemAt, received>>

(* Mutant of LockIssue: the row is locked and not read again. *)
LockStaleIssue(o) ==
    /\ sess[o].at = "loaded"
    /\ Free(o, sess[o].issue)
    /\ sess' = [sess EXCEPT ![o].at = "locked"]
    /\ UNCHANGED <<row, job, itemAt, received>>

(* SELECT ... FOR UPDATE that refreshes what the session had loaded. *)
LockIssue(o) ==
    /\ sess[o].at = "loaded"
    /\ Free(o, sess[o].issue)
    /\ Read(o, sess[o].issue, "locked")
    /\ UNCHANGED <<row, job, itemAt, received>>

(* Inserts item m, in whatever status the incident is; one that has an     *)
(* item already is left as it is.                                          *)
Promote(o, m) ==
    LET seen == sess[o].seen IN
    /\ sess[o].at = "locked"
    /\ IF seen.item = None
         THEN /\ itemAt[m] = "absent"
              /\ \A s \in Sessions : sess[s].new.item # m
              /\ Flush(o, [seen EXCEPT !.item = m, !.status = "linked"], "flushed")
         ELSE EndSession(o)
    /\ UNCHANGED <<row, job, itemAt, received>>

Ignore(o) ==
    /\ sess[o].at = "locked"
    /\ sess[o].seen.status \in {"new", "ignored"}
    /\ Flush(o, [sess[o].seen EXCEPT !.status = "ignored"], "flushed")
    /\ UNCHANGED <<row, job, itemAt, received>>

Unignore(o) ==
    /\ sess[o].at = "locked"
    /\ sess[o].seen.status \in {"new", "ignored"}
    /\ Flush(o, [sess[o].seen EXCEPT !.status = "new"], "flushed")
    /\ UNCHANGED <<row, job, itemAt, received>>

(* resolve_issue does not lock: its first query after the assignment       *)
(* flushes the UPDATE, and the call to Sentry comes after that query.      *)
Resolve(o) ==
    /\ sess[o].at = "loaded"
    /\ Flush(o, [sess[o].seen EXCEPT !.status = "resolved"], "closing")
    /\ UNCHANGED <<row, job, itemAt, received>>

(* The item the session knows of is closed as done; one that is closed     *)
(* already, or that the lifecycle does not let become done, is skipped.    *)
CloseLinked(o) ==
    LET m == sess[o].seen.item IN
    /\ sess[o].at = "closing"
    /\ m # None => ItemFree(m)
    /\ sess' = [sess EXCEPT ![o].at = "flushed",
            ![o].closes = IF m # None /\ itemAt[m] = "closable" THEN m ELSE None]
    /\ UNCHANGED <<row, job, itemAt, received>>

CommitOwner(o) ==
    LET i == sess[o].issue IN
    /\ sess[o].at = "flushed"
    /\ row' = [row EXCEPT ![i] = Merged(o, row[i])]
    /\ itemAt' = ItemsAfter(o)
    /\ EndSession(o)
    /\ UNCHANGED <<job, received>>

(* A refused transition, an error or a lost connection. *)
Rollback(s) ==
    /\ sess[s].at # "idle"
    /\ EndSession(s)
    /\ UNCHANGED <<row, job, itemAt, received>>

(* The backlog moves an item in a request of its own (ItemLifecycle). *)
MoveItem(m, to) ==
    /\ ItemFree(m)
    /\ <<itemAt[m], to>> \in {<<"closable", "stuck">>, <<"stuck", "closable">>,
                              <<"closable", "closed">>, <<"closed", "closable">>}
    /\ itemAt' = [itemAt EXCEPT ![m] = to]
    /\ UNCHANGED <<row, job, sess, received>>

HookStep(h) ==
    \/ \E i \in Issues : Receive(h, i)
    \/ InsertIssue(h)
    \/ CommitInsert(h)
    \/ BumpCount(h)
    \/ CommitBump(h)
    \/ Rollback(h)

OwnerStep(o) ==
    \/ \E i \in Issues : LoadIssue(o, i)
    \/ LockIssue(o)
    \/ \E m \in Items : Promote(o, m)
    \/ Ignore(o)
    \/ Unignore(o)
    \/ Resolve(o)
    \/ CloseLinked(o)
    \/ CommitOwner(o)
    \/ Rollback(o)

WorkerStep(w) ==
    \/ \E i \in Issues : StartTriage(w, i)
    \/ Classify(w)
    \/ CommitTriage(w)
    \/ LoseTriage(w)

Next ==
    \/ \E h \in Hooks : HookStep(h)
    \/ \E o \in Owners : OwnerStep(o)
    \/ \E w \in Workers : WorkerStep(w)
    \/ \E m \in Items, to \in ItemStates : MoveItem(m, to)

Spec == Init /\ [][Next]_vars

(***************************************************************************)
(* Properties.                                                             *)
(***************************************************************************)
(* Promotion is idempotent: however the sessions interleave, every item    *)
(* that was promoted is the item of an incident and of one only, so that   *)
(* two promotions of an incident never leave two bugs in the backlog.      *)
PromotedOnce ==
    \A m \in Items :
        /\ itemAt[m] # "absent" => \E i \in Issues : row[i].item = m
        /\ \A i, j \in Issues : row[i].item = m /\ row[j].item = m => i = j

(* The rows are typed, and every promoted item has exactly one incident.   *)
IncidentsAreSound == TypeOK /\ PromotedOnce

(* An incident that was linked or resolved never returns to the inbox:     *)
(* only a hidden one is restored.                                          *)
OnlyIgnoredIsRestored ==
    [][\A i \in Issues :
        row[i].status \notin {"absent", "new"} /\ row'[i].status = "new"
            => row[i].status = "ignored"]_vars

(* The owner hides only what is in the inbox: an incident that was linked  *)
(* or resolved leaves that status for "ignored" through the triage alone.  *)
OwnersHideTheInbox ==
    [][\A o \in Owners : \A i \in Issues :
        CommitOwner(o) /\ sess[o].issue = i /\ row'[i].status = "ignored"
            => row[i].status \in {"new", "ignored"}]_vars

(* The columns are owned: no session brings back a status that another one *)
(* left behind (webhooks/service.py:319-355).                              *)
StatusesAreOwned == OnlyIgnoredIsRestored /\ OwnersHideTheInbox

(* events_count is the number of occurrences the webhooks accepted.        *)
EventsCounted == \A i \in Issues : row[i].count = received[i]
=============================================================================
