--------------------------- MODULE ItemLifecycle ---------------------------
(***************************************************************************)
(* Backlog items: their status, their closing date and the `blocks` arcs   *)
(* between them (app/items/lifecycle.py, service.py, graph.py,             *)
(* relationships.py), as the sessions of the UI, the REST API, the MCP     *)
(* server and the GitHub webhook change them.                              *)
(*                                                                         *)
(* A session loads an item with a plain SELECT, validates what it loaded,  *)
(* and flushes an UPDATE of the columns it changed: the UPDATE takes the   *)
(* row lock, the validation does not.  Nothing it wrote is seen by other   *)
(* sessions before it commits.                                             *)
(***************************************************************************)
EXTENDS Integers, FiniteSets

CONSTANTS
    Items,      \* primary keys of the items table
    Sessions,   \* database sessions: one per request, MCP call or webhook
    MaxArcs     \* bound: `blocks` arcs at a time

ASSUME ItemAssumption == MaxArcs \in Nat

VARIABLES
    status,  \* items.status; "absent" before the row is inserted
    dated,   \* items.closed_at IS NOT NULL
    blocks,  \* item_relationships with relation 'blocks': <<source, target>>
    sess     \* the transaction of each session

vars == <<status, dated, blocks, sess>>

Terminal == {"done", "discarded"}
Open == {"idea", "backlog", "spec", "in-progress", "blocked", "in-review"}
Statuses == Open \cup Terminal

Transitions ==
    ({"idea"} \X {"backlog", "spec", "in-progress", "discarded"})
    \cup ({"backlog"} \X {"spec", "in-progress", "blocked", "done", "discarded"})
    \cup ({"spec"} \X {"backlog", "in-progress", "blocked", "discarded"})
    \cup ({"in-progress"} \X {"backlog", "blocked", "in-review", "done", "discarded"})
    \cup ({"blocked"} \X {"backlog", "in-progress", "discarded"})
    \cup ({"in-review"} \X {"in-progress", "blocked", "done", "discarded"})
    \cup ({"done", "discarded"} \X {"backlog"})

ValidTransition(from, to) == from = to \/ <<from, to>> \in Transitions

(***************************************************************************)
(* What a transaction changes of a row: only the attributes whose value it *)
(* changed go into the UPDATE, so the others keep what is there by then.   *)
(***************************************************************************)
Change == [status : Statuses \cup {"same"}, dated : {"same", "set", "cleared"}]

NoChange == [status |-> "same", dated |-> "same"]

StatusAfter(ch, old) == IF ch.status = "same" THEN old ELSE ch.status
DatedAfter(ch, old) == IF ch.dated = "same" THEN old ELSE ch.dated = "set"

Seen == [status : Statuses \cup {"absent"}, dated : BOOLEAN]

(***************************************************************************)
(* A session is idle, has loaded an item, has moved or reopened it, has    *)
(* flushed a closing, or has also queried what the closing unblocks.  Only *)
(* a GitHub push then loads another item: "again".                         *)
(***************************************************************************)
SessState ==
    [at : {"idle", "loaded", "again", "moved", "flushed", "closed"},
     item : Items \cup {"none"},
     seen : Seen,
     wrote : [Items -> Change],
     report : SUBSET Items]

Unread == [status |-> "absent", dated |-> FALSE]
Idle == [at |-> "idle", item |-> "none", seen |-> Unread,
         wrote |-> [i \in Items |-> NoChange], report |-> {}]

TypeOK ==
    /\ status \in [Items -> Statuses \cup {"absent"}]
    /\ dated \in [Items -> BOOLEAN]
    /\ blocks \subseteq Items \X Items
    /\ sess \in [Sessions -> SessState]

Init ==
    /\ status = [i \in Items |-> "absent"]
    /\ dated = [i \in Items |-> FALSE]
    /\ blocks = {}
    /\ sess = [s \in Sessions |-> Idle]

RowLocked(i) == \E s \in Sessions : sess[s].wrote[i] # NoChange

(* What session s reads: its own writes over what is committed. *)
StatusIn(s, i) == StatusAfter(sess[s].wrote[i], status[i])
DatedIn(s, i) == DatedAfter(sess[s].wrote[i], dated[i])

(***************************************************************************)
(* Requests that change one row and commit at once.                        *)
(***************************************************************************)
(* POST /items takes any status and writes no closed_at. *)
Create(s, i, to) ==
    /\ sess[s].at = "idle"
    /\ status[i] = "absent"
    /\ status' = [status EXCEPT ![i] = to]
    /\ UNCHANGED <<dated, blocks, sess>>

CreateRelationship(s, i, j) ==
    /\ sess[s].at = "idle"
    /\ i # j /\ status[i] # "absent" /\ status[j] # "absent"
    /\ blocks' = blocks \cup {<<i, j>>}
    /\ Cardinality(blocks') <= MaxArcs
    /\ UNCHANGED <<status, dated, sess>>

DeleteRelationship(s, i, j) ==
    /\ sess[s].at = "idle"
    /\ blocks' = blocks \ {<<i, j>>}
    /\ UNCHANGED <<status, dated, sess>>

(***************************************************************************)
(* The lifecycle services.                                                 *)
(***************************************************************************)
Load(s, i) ==
    /\ sess[s].at \in {"idle", "closed"}
    /\ status[i] # "absent"
    /\ sess[s].wrote[i] = NoChange
    /\ sess' = [sess EXCEPT
            ![s].at = IF @ = "idle" THEN "loaded" ELSE "again",
            ![s].item = i,
            ![s].seen = [status |-> status[i], dated |-> dated[i]]]
    /\ UNCHANGED <<status, dated, blocks>>

Flush(s, ch, at) ==
    LET i == sess[s].item IN
    /\ ch # NoChange => ~RowLocked(i)
    /\ sess' = [sess EXCEPT ![s].at = at, ![s].wrote[i] = ch]
    /\ UNCHANGED <<status, dated, blocks>>

ClearDate(s) == IF sess[s].seen.dated THEN "cleared" ELSE "same"

(* Mutant of ApplyTransition: leaving a terminal status keeps its date. *)
MoveKeepsDate(s, to) ==
    /\ sess[s].at = "loaded"
    /\ to \notin Terminal
    /\ ValidTransition(sess[s].seen.status, to)
    /\ Flush(s, IF to = sess[s].seen.status THEN NoChange
                ELSE [status |-> to, dated |-> "same"], "moved")

ApplyTransition(s, to) ==
    LET from == sess[s].seen.status IN
    /\ sess[s].at = "loaded"
    /\ to \notin Terminal
    /\ ValidTransition(from, to)
    /\ Flush(s, IF to = from THEN NoChange
                ELSE [status |-> to,
                      dated |-> IF from \in Terminal THEN ClearDate(s) ELSE "same"],
             "moved")

ReopenItem(s) ==
    /\ sess[s].at = "loaded"
    /\ sess[s].seen.status \in Terminal
    /\ Flush(s, [status |-> "backlog", dated |-> ClearDate(s)], "moved")

(* Mutant of CloseItem: what is discarded is not dated. *)
DiscardUndated(s, to) ==
    LET from == sess[s].seen.status IN
    /\ sess[s].at \in {"loaded", "again"}
    /\ sess[s].at = "again" => from \notin Terminal /\ to = "done"
    /\ ValidTransition(from, to)
    /\ Flush(s, [status |-> IF to = from THEN "same" ELSE to,
                 dated |-> IF to = "done" THEN "set" ELSE "same"], "flushed")

(* A request may close a closed item again, which dates it anew; a push    *)
(* leaves it alone (webhooks/service.py:605).                              *)
CloseItem(s, to) ==
    LET from == sess[s].seen.status IN
    /\ sess[s].at \in {"loaded", "again"}
    /\ sess[s].at = "again" => from \notin Terminal /\ to = "done"
    /\ ValidTransition(from, to)
    /\ Flush(s, [status |-> IF to = from THEN "same" ELSE to, dated |-> "set"], "flushed")

(* The push skips a reference that is closed or cannot be closed. *)
SkipReference(s) ==
    /\ sess[s].at = "again"
    /\ \/ sess[s].seen.status \in Terminal
       \/ ~ValidTransition(sess[s].seen.status, "done")
    /\ sess' = [sess EXCEPT ![s].at = "closed"]
    /\ UNCHANGED <<status, dated, blocks>>

(* Mutants of UnblockedBy: the query does not see the closings of its own   *)
(* transaction; a target with another open blocker is included.            *)
UnblockedInCommitted(s, i) ==
    {t \in Items :
        /\ <<i, t>> \in blocks /\ status[t] \in Open
        /\ ~\E j \in Items \ {i} : <<j, t>> \in blocks /\ status[j] \in Open}
EveryTarget(s, i) == {t \in Items : <<i, t>> \in blocks /\ StatusIn(s, t) \in Open}

(* The open targets of i without another open blocker, as s reads them. *)
UnblockedBy(s, i) ==
    {t \in Items :
        /\ <<i, t>> \in blocks /\ StatusIn(s, t) \in Open
        /\ ~\E j \in Items \ {i} : <<j, t>> \in blocks /\ StatusIn(s, j) \in Open}

(* The unblocked targets go into the response and into their audit trail. *)
ReportUnblocked(s) ==
    /\ sess[s].at = "flushed"
    /\ sess' = [sess EXCEPT ![s].at = "closed",
                            ![s].report = @ \cup UnblockedBy(s, sess[s].item)]
    /\ UNCHANGED <<status, dated, blocks>>

Commit(s) ==
    /\ sess[s].at \in {"moved", "closed"}
    /\ status' = [i \in Items |-> StatusIn(s, i)]
    /\ dated' = [i \in Items |-> DatedIn(s, i)]
    /\ sess' = [sess EXCEPT ![s] = Idle]
    /\ UNCHANGED blocks

(* A TransitionError, a lost connection, a failed commit. *)
Rollback(s) ==
    /\ sess[s].at # "idle"
    /\ sess' = [sess EXCEPT ![s] = Idle]
    /\ UNCHANGED <<status, dated, blocks>>

SessionStep(s) ==
    \/ \E i \in Items : Load(s, i) \/ \E to \in Statuses : Create(s, i, to)
    \/ \E i, j \in Items : CreateRelationship(s, i, j) \/ DeleteRelationship(s, i, j)
    \/ \E to \in Open : ApplyTransition(s, to)
    \/ \E to \in Terminal : CloseItem(s, to)
    \/ ReopenItem(s) \/ SkipReference(s) \/ ReportUnblocked(s)
    \/ Commit(s) \/ Rollback(s)

Next == \E s \in Sessions : SessionStep(s)

Spec == Init /\ [][Next]_vars
-----------------------------------------------------------------------------
Exists(i) == status[i] # "absent"

(* graph_blocked_ids: an open item with an open blocker. *)
Blocked(t) ==
    /\ status[t] \in Open
    /\ \E b \in Items : <<b, t>> \in blocks /\ status[b] \in Open

(* Every move a row makes is one the lifecycle allows (README.md:111).     *)
LegalMoves ==
    [][\A i \in Items : Exists(i) /\ status'[i] # status[i]
                            => <<status[i], status'[i]>> \in Transitions]_vars

(* An open item has no closing date, or it is in the backlog and in the    *)
(* archive at the same time (items/service.py:50-51).                      *)
OpenIsUndated == \A i \in Items : dated[i] => status[i] \in Terminal

(* The rows are typed, and none is open and dated at once. *)
ItemsAreSound == TypeOK /\ OpenIsUndated

(* However sessions interleave, a step that changes a row and leaves it    *)
(* closed leaves it dated: partial updates of two sessions never compose   *)
(* to a closing without a date.                                            *)
ClosuresAreDated ==
    [][\A i \in Items :
        /\ Exists(i) /\ status'[i] \in Terminal
        /\ <<status'[i], dated'[i]>> # <<status[i], dated[i]>>
        => dated'[i]]_vars

(* A closing that ends the last block of an item reports it                *)
(* (items/service.py:76).                                                  *)
NoMissedUnblock ==
    [][\A s \in Sessions, t \in Items :
        Commit(s) /\ Blocked(t) /\ ~Blocked(t)' /\ status'[t] \in Open
            => t \in sess[s].report]_vars

(* An item reported as unblocked has no open blocker left once the closing *)
(* commits, whichever other items the same transaction closed.             *)
NoFalseUnblock ==
    [][\A s \in Sessions, t \in Items :
        Commit(s) /\ t \in sess[s].report => ~Blocked(t)']_vars
=============================================================================
