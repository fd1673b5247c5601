----------------------------- MODULE Documents -----------------------------
(***************************************************************************)
(* The documents of one project, kept by version in compartments           *)
(* (management/service.py), by sessions of the UI and of agents that       *)
(* interleave.  A session reads, may wait for the row of the account's     *)
(* subscription, which serializes the storage check, and commits.          *)
(* Statuses, owners, summaries and notes are columns no rule reads.        *)
(***************************************************************************)
EXTENDS Transactions, Naturals, FiniteSetsExt

CONSTANTS
    Docs, Comps,       \* ids of deliverables and of compartments
    Names, Fold,       \* names, and lower() of each
    Types,             \* DELIVERABLE_TYPES
    Contents, Size,    \* what a file holds (its sha256), and its bytes
    StorageLimit,      \* of the plan of the account
    MaxVersion         \* bound: versions of a document

VARIABLES
    comps,      \* compartments: their names
    docs,       \* deliverables
    versions    \* deliverable_versions

vars == <<comps, docs, versions, sess>>

Numbers == 1..MaxVersion

Doc == [comp : Comps, name : Names, type : Types, current : Numbers]

(* The MIME type of a version is that of its type. *)
Version == [content : Contents, type : Types]

ASSUME DocumentsAssumption ==
    /\ Fold \in [Names -> Names] /\ Size \in [Contents -> Nat \ {0}]
    /\ StorageLimit \in Nat /\ MaxVersion \in Nat \ {0}
    /\ None \notin Docs \cup Comps \cup Names \cup Contents \cup Doc \cup Version

(* A put or a rollback: the document as it was read, None for a new one,   *)
(* the content to store, None if it is the current one already.            *)
Write == [at : {"checked", "reserved"}, doc : Docs, seen : Doc \cup {None},
          comp : Comps, compName : Names \cup {None}, name : Names, type : Types,
          content : Contents \cup {None}, mime : Types]

Edit == [at : {"editing"}, doc : Docs, seen : Doc, name : Names, comp : Comps]

TypeOK ==
    /\ comps \in [Comps -> Names \cup {None}]
    /\ docs \in [Docs -> Doc \cup {None}]
    /\ versions \in [Docs -> [Numbers -> Version \cup {None}]]
    /\ sess \in [Sessions -> {Idle} \cup Write \cup Edit]

Init ==
    /\ comps = [c \in Comps |-> None]
    /\ docs = [d \in Docs |-> None]
    /\ versions = [d \in Docs |-> [n \in Numbers |-> None]]
    /\ sess = [s \in Sessions |-> Idle]

(***************************************************************************)
(* Reads.                                                                  *)
(***************************************************************************)

CompsNamed(name) == {c \in Comps : comps[c] # None /\ Fold[comps[c]] = Fold[name]}

DocsNamed(c, name) ==
    {d \in Docs : docs[d] # None /\ docs[d].comp = c /\ Fold[docs[d].name] = Fold[name]}

(* Ids are fresh: no session holds one that is not in the table yet. *)
FreshComp(c) == comps[c] = None /\ \A t \in Sessions : sess[t] # Idle => sess[t].comp # c

FreshDoc(d) == docs[d] = None /\ \A t \in Sessions : sess[t] # Idle => sess[t].doc # d

CurrentContent(d) == versions[d][docs[d].current].content

(* put_deliverable up to its storage check.  scalar_one_or_none() raises   *)
(* when two names differ in case only.                                     *)
PutDeliverable(s, compName, name, type, content) ==
    /\ sess[s] = Idle
    /\ \E c \in Comps, d \in Docs :
          /\ IF CompsNamed(compName) = {} THEN FreshComp(c) ELSE CompsNamed(compName) = {c}
          /\ IF DocsNamed(c, name) = {} THEN FreshDoc(d) ELSE DocsNamed(c, name) = {d}
          /\ sess' = [sess EXCEPT ![s] =
                [at |-> IF docs[d] # None /\ CurrentContent(d) = content
                        THEN "reserved" ELSE "checked",
                 doc |-> d, seen |-> docs[d],
                 comp |-> c, compName |-> IF comps[c] = None THEN compName ELSE None,
                 name |-> name, type |-> type,
                 content |-> IF docs[d] # None /\ CurrentContent(d) = content
                             THEN None ELSE content,
                 mime |-> type]]
    /\ UNCHANGED <<comps, docs, versions>>

(* A rollback stores an old version again; the type of the document stays. *)
RollbackDeliverable(s, d, number) ==
    /\ sess[s] = Idle
    /\ docs[d] # None /\ versions[d][number] # None
    /\ sess' = [sess EXCEPT ![s] =
          [at |-> "checked", doc |-> d, seen |-> docs[d],
           comp |-> docs[d].comp, compName |-> None, name |-> docs[d].name,
           type |-> docs[d].type, content |-> versions[d][number].content,
           mime |-> versions[d][number].type]]
    /\ UNCHANGED <<comps, docs, versions>>

(***************************************************************************)
(* The storage check.                                                      *)
(***************************************************************************)

Stored == {v \in Docs \X Numbers : versions[v[1]][v[2]] # None}

UsedStorage == MapThenSumSet(LAMBDA v : Size[versions[v[1]][v[2]].content], Stored)

(* A session that passed the check keeps the subscription locked. *)
HoldsSubscription(s) == sess[s].at = "reserved" /\ sess[s].content # None

(* Mutant of SubscriptionFree: the subscription is read without its lock. *)
SubscriptionUnlocked == TRUE

SubscriptionFree == \A t \in Sessions : ~HoldsSubscription(t)

EnsureStorageCapacity(s) ==
    /\ sess[s].at = "checked" /\ SubscriptionFree
    /\ sess' = [sess EXCEPT ![s] =
          IF UsedStorage + Size[sess[s].content] > StorageLimit
          THEN Idle ELSE [@ EXCEPT !.at = "reserved"]]
    /\ UNCHANGED <<comps, docs, versions>>

(***************************************************************************)
(* Commits.                                                                *)
(***************************************************************************)

CompNameTaken(c, name) == name # None /\ \E o \in Comps \ {c} : comps[o] = name

DocNameTaken(d, c, name) ==
    \E o \in Docs \ {d} : docs[o] # None /\ docs[o].comp = c /\ docs[o].name = name

(* Mutant of VersionTaken: no constraint keeps numbers apart. *)
NeverTaken(d, number) == FALSE

(* The constraint on (deliverable_id, version_no). *)
VersionTaken(d, number) == versions[d][number] # None

(* Counted from the row as it was before the wait for the lock. *)
NewNumber(seen) == IF seen = None THEN 1 ELSE seen.current + 1

(* The columns that differ from the row that was read. *)
Written(w, row, number) ==
    IF w.seen = None
    THEN [comp |-> w.comp, name |-> w.name, type |-> w.type, current |-> number]
    ELSE [row EXCEPT !.type = IF w.type = w.seen.type THEN row.type ELSE w.type,
                     !.current = IF w.content = None THEN row.current ELSE number]

(* Not if a unique constraint fails: then the session rolls back. *)
CommitWrite(s) ==
    LET w == sess[s]
        number == NewNumber(w.seen)
    IN
    /\ w.at = "reserved"
    /\ w.content # None => number <= MaxVersion
    /\ ~CompNameTaken(w.comp, w.compName)
    /\ w.seen = None => ~DocNameTaken(w.doc, w.comp, w.name)
    /\ w.content # None => ~VersionTaken(w.doc, number)
    /\ comps' = IF w.compName = None THEN comps ELSE [comps EXCEPT ![w.comp] = w.compName]
    /\ docs' = [docs EXCEPT ![w.doc] = Written(w, docs[w.doc], number)]
    /\ versions' = IF w.content = None THEN versions
                   ELSE [versions EXCEPT ![w.doc][number] =
                            [content |-> w.content, type |-> w.mime]]
    /\ End(s)

(* update_deliverable, a rename or a move; other columns are left out. *)
LoadDeliverable(s, d, name, c) ==
    /\ sess[s] = Idle
    /\ docs[d] # None /\ comps[c] # None
    /\ <<name, c>> # <<docs[d].name, docs[d].comp>>
    /\ sess' = [sess EXCEPT ![s] =
          [at |-> "editing", doc |-> d, seen |-> docs[d], name |-> name, comp |-> c]]
    /\ UNCHANGED <<comps, docs, versions>>

(* Mutant of UpdateDeliverable: the row is written whole, as it was read. *)
UpdateWholeRow(s) ==
    LET e == sess[s] IN
    /\ e.at = "editing"
    /\ ~DocNameTaken(e.doc, e.comp, e.name)
    /\ docs' = [docs EXCEPT ![e.doc] = [e.seen EXCEPT !.name = e.name, !.comp = e.comp]]
    /\ End(s)
    /\ UNCHANGED <<comps, versions>>

(* Only the columns that were changed. *)
UpdateDeliverable(s) ==
    LET e == sess[s]
        name == IF e.name = e.seen.name THEN docs[e.doc].name ELSE e.name
        comp == IF e.comp = e.seen.comp THEN docs[e.doc].comp ELSE e.comp
    IN
    /\ e.at = "editing"
    /\ ~DocNameTaken(e.doc, comp, name)
    /\ docs' = [docs EXCEPT ![e.doc].name = name, ![e.doc].comp = comp]
    /\ End(s)
    /\ UNCHANGED <<comps, versions>>

(* create_compartment and upsert_compartment: a new one only if no name is *)
(* the same in lower case, a rename whatever the others are called.        *)
UpsertCompartment(c, name) ==
    /\ FreshComp(c) \/ comps[c] \notin {None, name}
    /\ comps[c] = None => CompsNamed(name) = {}
    /\ ~CompNameTaken(c, name)
    /\ comps' = [comps EXCEPT ![c] = name]
    /\ UNCHANGED <<docs, versions, sess>>

(* A unique constraint fails, the request is refused later, or it is lost. *)
Fail(s) ==
    /\ sess[s] # Idle
    /\ End(s)
    /\ UNCHANGED <<comps, docs, versions>>

Step(s) ==
    \/ \E c, n \in Names, t \in Types, x \in Contents : PutDeliverable(s, c, n, t, x)
    \/ \E d \in Docs, v \in Numbers : RollbackDeliverable(s, d, v)
    \/ \E d \in Docs, n \in Names, c \in Comps : LoadDeliverable(s, d, n, c)
    \/ EnsureStorageCapacity(s)
    \/ CommitWrite(s)
    \/ UpdateDeliverable(s)
    \/ Fail(s)

Next ==
    \/ \E s \in Sessions : Step(s)
    \/ \E c \in Comps, n \in Names : UpsertCompartment(c, n)

Spec == Init /\ [][Next]_vars

(***************************************************************************)
(* Properties.                                                             *)
(***************************************************************************)

(* The current version of a document is the last of an unbroken series,    *)
(* although sessions number it from rows they read earlier                 *)
(* (service.py:308-315, 332-338).                                          *)
CurrentIsNewest ==
    \A d \in Docs : {n \in Numbers : versions[d][n] # None} =
        IF docs[d] = None THEN {} ELSE 1..docs[d].current

(* The rows are typed, and each document is an unbroken series of versions *)
(* that its row points to the end of.                                      *)
VersionsAreSound == TypeOK /\ CurrentIsNewest

(* Uploads and rollbacks that check the storage at the same time never     *)
(* exceed the plan together (ensure_storage_capacity, plans.py:261-268).   *)
StorageWithinLimit == UsedStorage <= StorageLimit

(* No session, not even one that numbered its version from a row that is   *)
(* stale by now, overwrites history (management/models.py:92).             *)
AppendOnly ==
    [][\A d \in Docs, n \in Numbers :
        versions[d][n] # None => versions'[d][n] = versions[d][n]]_vars
=============================================================================
