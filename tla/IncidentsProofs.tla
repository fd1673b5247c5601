-------------------------- MODULE IncidentsProofs --------------------------
(***************************************************************************)
(* Promotion is idempotent, for any number of incidents, items, webhooks,  *)
(* owners and worker slots.                                                *)
(***************************************************************************)
EXTENDS Incidents, TLAPS

(* A session that has read an incident, rather than one that inserts it.   *)
HasRead(x) == x.at \in {"bump", "triage", "loaded", "locked", "closing", "flushed"}

HoldsRow(x) ==
    \/ x.at \in {"locked", "inserted"}
    \/ x.at \in {"closing", "flushed"} /\ x.new # x.seen

(* A session that is about to link an item to its incident. *)
Links(x) == x.new.item # x.seen.item

(* What the transaction x of a session may be, given the tables.  An       *)
(* incident that was read exists; one that is being inserted does not; one *)
(* that is locked is known as it is; one that is being linked has no item, *)
(* and the item does not exist yet.                                        *)
Fits(x) ==
    /\ x.at # "idle" => x.issue \in Issues
    /\ HasRead(x) => /\ row[x.issue].status # "absent"
                     /\ x.seen.status # "absent" /\ x.new.status # "absent"
    /\ x.at = "insert" => x.seen.item = None
    /\ x.at = "inserted" => /\ row[x.issue].status = "absent"
                            /\ x.new.status # "absent" /\ x.new.item = None
    /\ x.at = "locked" => x.seen = row[x.issue]
    /\ ~HoldsRow(x) \/ x.at = "locked" => x.new = x.seen
    /\ Links(x) => /\ x.at = "flushed" /\ x.seen.item = None
                   /\ row[x.issue].item = None /\ itemAt[x.new.item] = "absent"
    /\ x.seen.item # None => itemAt[x.seen.item] # "absent"
    /\ x.closes # None => itemAt[x.closes] # "absent"

(* Two sessions do not hold the same row, and do not link the same item.   *)
Apart(x, y) ==
    /\ HoldsRow(x) /\ HoldsRow(y) => x.issue # y.issue
    /\ Links(x) /\ Links(y) => x.new.item # y.new.item

RowsInv ==
    /\ \A i \in Issues : row[i].status = "absent" => row[i].item = None
    /\ \A i \in Issues : row[i].item # None => itemAt[row[i].item] # "absent"
    /\ \A i \in Issues : job[i] # "none" => row[i].status # "absent"
    /\ PromotedOnce

IInv ==
    /\ TypeOK
    /\ RowsInv
    /\ \A s \in Sessions : Fits(sess[s])
    /\ \A s, t \in Sessions : s # t => Apart(sess[s], sess[t])
    /\ \A s \in Sessions \ Owners : ~Links(sess[s])

-----------------------------------------------------------------------------
(* Types. *)
Routed == \A s \in Sessions : sess[s].at # "idle" => sess[s].issue \in Issues

LEMMA IdleTyped == NoRow \in Row /\ (0 \in 0..MaxCount) /\ Idle \in SessState
BY IncidentsAssumption DEF Idle, NoRow, SessState, Row, IssueStatuses, Steps

(* A step that moves one session and leaves it typed. *)
LEMMA SessTyped ==
    ASSUME TypeOK, NEW s \in Sessions, NEW x \in SessState, sess' = [sess EXCEPT ![s] = x]
    PROVE  sess' \in [Sessions -> SessState]
BY DEF TypeOK

LEMMA ReadEffect ==
    ASSUME TypeOK, NEW s \in Sessions, NEW i \in Issues, NEW at \in Steps, Read(s, i, at)
    PROVE  \E x \in SessState :
              /\ sess' = [sess EXCEPT ![s] = x]
              /\ x.at = at /\ x.issue = i /\ x.seen = row[i] /\ x.new = row[i] /\ x.closes = None
<1> DEFINE x == [at |-> at, issue |-> i, seen |-> row[i], new |-> row[i], closes |-> None]
<1>1. row[i] \in Row BY DEF TypeOK
<1>2. x \in SessState BY <1>1 DEF SessState
<1>3. sess' = [sess EXCEPT ![s] = x] BY DEF Read
<1> QED BY <1>2, <1>3

LEMMA FlushEffect ==
    ASSUME TypeOK, NEW s \in Sessions, NEW new \in Row, NEW at \in Steps, Flush(s, new, at)
    PROVE  \E x \in SessState :
              /\ sess' = [sess EXCEPT ![s] = x]
              /\ x.at = at /\ x.new = new /\ x.issue = sess[s].issue
              /\ x.seen = sess[s].seen /\ x.closes = sess[s].closes
<1> DEFINE x == [sess[s] EXCEPT !.at = at, !.new = new]
<1>1. sess[s] \in SessState BY DEF TypeOK
<1>2. x \in SessState BY <1>1 DEF SessState
<1>3. sess' = [sess EXCEPT ![s] = x] BY <1>1 DEF Flush, TypeOK
<1>4. /\ x.at = at /\ x.new = new /\ x.issue = sess[s].issue
      /\ x.seen = sess[s].seen /\ x.closes = sess[s].closes
  BY <1>1 DEF SessState
<1> QED BY <1>2, <1>3, <1>4

LEMMA MergedTyped ==
    ASSUME TypeOK, NEW s \in Sessions, NEW old \in Row
    PROVE  Merged(s, old) \in Row
<1>1. sess[s].seen \in Row /\ sess[s].new \in Row BY DEF TypeOK, SessState
<1> QED BY <1>1 DEF Merged, Row

LEMMA HookTyped == ASSUME TypeOK, Routed, NEW h \in Hooks, HookStep(h) PROVE TypeOK'
<1> h \in Sessions BY DEF Sessions
<1>0. sess[h] \in SessState BY DEF TypeOK
<1>1. CASE \E i \in Issues : Receive(h, i)
  <2> PICK i \in Issues : Receive(h, i) BY <1>1
  <2>1. CASE Read(h, i, "insert")
    <3>1. "insert" \in Steps BY DEF Steps
    <3>2. sess' \in [Sessions -> SessState] BY <2>1, <3>1, ReadEffect, SessTyped
    <3> QED BY <3>2 DEF TypeOK, Receive
  <2>2. CASE Read(h, i, "bump")
    <3>1. "bump" \in Steps BY DEF Steps
    <3>2. sess' \in [Sessions -> SessState] BY <2>2, <3>1, ReadEffect, SessTyped
    <3> QED BY <3>2 DEF TypeOK, Receive
  <2> QED BY <2>1, <2>2 DEF Receive
<1>2. CASE InsertIssue(h)
  <2> DEFINE first == [NoRow EXCEPT !.status = "new", !.count = 1]
             x == [sess[h] EXCEPT !.at = "inserted", !.new = first]
  <2>0. 1 \in 0..MaxCount BY IncidentsAssumption
  <2>1. first \in Row BY <2>0, IdleTyped DEF Row, IssueStatuses
  <2> HIDE DEF first
  <2>2. x \in SessState BY <1>0, <2>1 DEF SessState, Steps
  <2>3. sess' = [sess EXCEPT ![h] = x] \/ sess' = [sess EXCEPT ![h] = Idle]
    BY <1>2, <1>0 DEF InsertIssue, EndSession, TypeOK, first
  <2> HIDE DEF x
  <2>4. sess' \in [Sessions -> SessState] BY <2>2, <2>3, IdleTyped, SessTyped
  <2> QED BY <1>2, <2>4 DEF TypeOK, InsertIssue
<1>3. CASE CommitInsert(h)
  <2> PICK i : i = sess[h].issue OBVIOUS
  <2>1. sess[h].new \in Row BY <1>0 DEF SessState
  <2>2. row' \in [Issues -> Row] BY <1>3, <2>1 DEF CommitInsert, TypeOK
  <2>3. job' \in [Issues -> {"none", "queued", "running", "ended"}]
    BY <1>3 DEF CommitInsert, TypeOK
  <2>4. received' \in [Issues -> 0..MaxCount]
    <3>1. sess[h].issue \in Issues BY <1>3 DEF CommitInsert, Routed
    <3>2. received[sess[h].issue] + 1 \in 0..MaxCount
      BY <1>3, <3>1, IncidentsAssumption DEF CommitInsert, TypeOK
    <3> QED BY <1>3, <3>1, <3>2 DEF CommitInsert, TypeOK
  <2>5. sess' \in [Sessions -> SessState]
    BY <1>3, IdleTyped, SessTyped DEF CommitInsert, EndSession
  <2> QED BY <1>3, <2>2, <2>3, <2>4, <2>5 DEF TypeOK, CommitInsert
<1>4. CASE BumpCount(h)
  <2> DEFINE new == [sess[h].seen EXCEPT !.count = @ + 1]
  <2>1. new \in Row
    BY <1>0, <1>4, IncidentsAssumption DEF BumpCount, SessState, Row
  <2>2. "flushed" \in Steps BY DEF Steps
  <2>3. Flush(h, new, "flushed") BY <1>4 DEF BumpCount
  <2> HIDE DEF new
  <2>4. sess' \in [Sessions -> SessState] BY <2>1, <2>2, <2>3, FlushEffect, SessTyped
  <2> QED BY <1>4, <2>4 DEF TypeOK, BumpCount
<1>5. CASE CommitBump(h)
  <2>1. \A i \in Issues : Merged(h, row[i]) \in Row BY MergedTyped DEF TypeOK
  <2>2. row' \in [Issues -> Row] BY <1>5, <2>1 DEF CommitBump, TypeOK
  <2>3. received' \in [Issues -> 0..MaxCount]
    <3>1. sess[h].issue \in Issues BY <1>5 DEF CommitBump, Routed
    <3>2. received[sess[h].issue] + 1 \in 0..MaxCount
      BY <1>5, <3>1, IncidentsAssumption DEF CommitBump, TypeOK
    <3> QED BY <1>5, <3>1, <3>2 DEF CommitBump, TypeOK
  <2>4. sess' \in [Sessions -> SessState]
    BY <1>5, IdleTyped, SessTyped DEF CommitBump, EndSession
  <2> QED BY <1>5, <2>2, <2>3, <2>4 DEF TypeOK, CommitBump
<1>6. CASE Rollback(h)
  <2>1. sess' \in [Sessions -> SessState]
    BY <1>6, IdleTyped, SessTyped DEF Rollback, EndSession
  <2> QED BY <1>6, <2>1 DEF TypeOK, Rollback
<1> QED BY <1>1, <1>2, <1>3, <1>4, <1>5, <1>6 DEF HookStep

LEMMA OwnerTyped == ASSUME TypeOK, Routed, NEW o \in Owners, OwnerStep(o) PROVE TypeOK'
<1> o \in Sessions BY DEF Sessions
<1>0. sess[o] \in SessState /\ sess[o].seen \in Row BY DEF TypeOK, SessState
<1>s. {"loaded", "locked", "closing", "flushed"} \subseteq Steps BY DEF Steps
<1>1. CASE \E i \in Issues : LoadIssue(o, i)
  <2> PICK i \in Issues : LoadIssue(o, i) BY <1>1
  <2>1. sess' \in [Sessions -> SessState] BY <1>s, ReadEffect, SessTyped DEF LoadIssue
  <2> QED BY <2>1 DEF TypeOK, LoadIssue
<1>2. CASE LockIssue(o)
  <2>1. sess[o].issue \in Issues BY <1>2 DEF LockIssue, Routed
  <2>2. sess' \in [Sessions -> SessState]
    BY <1>2, <1>s, <2>1, ReadEffect, SessTyped DEF LockIssue
  <2> QED BY <1>2, <2>2 DEF TypeOK, LockIssue
<1>3. CASE \E m \in Items : Promote(o, m)
  <2> PICK m \in Items : Promote(o, m) BY <1>3
  <2> DEFINE new == [sess[o].seen EXCEPT !.item = m, !.status = "linked"]
  <2>1. new \in Row BY <1>0 DEF Row, IssueStatuses
  <2>2. Flush(o, new, "flushed") \/ EndSession(o) BY DEF Promote
  <2> HIDE DEF new
  <2>3. sess' \in [Sessions -> SessState]
    <3>1. CASE Flush(o, new, "flushed") BY <3>1, <1>s, <2>1, FlushEffect, SessTyped
    <3>2. CASE EndSession(o) BY <3>2, IdleTyped, SessTyped DEF EndSession
    <3> QED BY <2>2, <3>1, <3>2
  <2> QED BY <2>3 DEF TypeOK, Promote
<1>4. ASSUME NEW to \in IssueStatuses, NEW at \in {"flushed", "closing"},
             Flush(o, [sess[o].seen EXCEPT !.status = to], at),
             UNCHANGED <<row, job, itemAt, received>>
      PROVE  TypeOK'
  <2> DEFINE new == [sess[o].seen EXCEPT !.status = to]
  <2>1. new \in Row BY <1>0 DEF Row
  <2>2. Flush(o, new, at) BY <1>4
  <2> HIDE DEF new
  <2>3. sess' \in [Sessions -> SessState] BY <1>s, <2>1, <2>2, FlushEffect, SessTyped
  <2> QED BY <1>4, <2>3 DEF TypeOK
<1>5. CASE Ignore(o) BY <1>4, <1>5 DEF Ignore, IssueStatuses
<1>6. CASE Unignore(o) BY <1>4, <1>6 DEF Unignore, IssueStatuses
<1>7. CASE Resolve(o) BY <1>4, <1>7 DEF Resolve, IssueStatuses
<1>8. CASE CloseLinked(o)
  <2> PICK c : c = IF sess[o].seen.item # None /\ itemAt[sess[o].seen.item] = "closable"
                     THEN sess[o].seen.item ELSE None OBVIOUS
  <2> DEFINE x == [sess[o] EXCEPT !.at = "flushed", !.closes = c]
  <2>1. c \in Items \cup {None} BY <1>0 DEF Row
  <2>2. x \in SessState BY <1>0, <1>s, <2>1 DEF SessState
  <2>3. sess' = [sess EXCEPT ![o] = x] BY <1>0, <1>8 DEF CloseLinked, TypeOK
  <2> HIDE DEF x
  <2>4. sess' \in [Sessions -> SessState] BY <2>2, <2>3, SessTyped
  <2> QED BY <1>8, <2>4 DEF TypeOK, CloseLinked
<1>9. CASE CommitOwner(o)
  <2>1. \A i \in Issues : Merged(o, row[i]) \in Row BY MergedTyped DEF TypeOK
  <2>2. row' \in [Issues -> Row] BY <1>9, <2>1 DEF CommitOwner, TypeOK
  <2>3. itemAt' \in [Items -> ItemStates]
    BY <1>9 DEF CommitOwner, ItemsAfter, ItemStates, TypeOK
  <2>4. sess' \in [Sessions -> SessState]
    BY <1>9, IdleTyped, SessTyped DEF CommitOwner, EndSession
  <2> QED BY <1>9, <2>2, <2>3, <2>4 DEF TypeOK, CommitOwner
<1>10. CASE Rollback(o)
  <2>1. sess' \in [Sessions -> SessState]
    BY <1>10, IdleTyped, SessTyped DEF Rollback, EndSession
  <2> QED BY <1>10, <2>1 DEF TypeOK, Rollback
<1> QED
  BY <1>1, <1>2, <1>3, <1>5, <1>6, <1>7, <1>8, <1>9, <1>10 DEF OwnerStep

LEMMA WorkerTyped == ASSUME TypeOK, Routed, NEW w \in Workers, WorkerStep(w) PROVE TypeOK'
<1> w \in Sessions BY DEF Sessions
<1>0. sess[w] \in SessState /\ sess[w].seen \in Row BY DEF TypeOK, SessState
<1>s. {"triage", "flushed"} \subseteq Steps BY DEF Steps
<1>1. CASE \E i \in Issues : StartTriage(w, i)
  <2> PICK i \in Issues : StartTriage(w, i) BY <1>1
  <2>1. sess' \in [Sessions -> SessState] BY <1>s, ReadEffect, SessTyped DEF StartTriage
  <2> QED BY <2>1 DEF TypeOK, StartTriage
<1>2. CASE Classify(w)
  <2>1. PICK new \in Row : Flush(w, new, "flushed")
    <3> DEFINE quiet == [sess[w].seen EXCEPT !.noise = FALSE]
               hidden == [sess[w].seen EXCEPT !.noise = TRUE,
                    !.status = IF sess[w].seen.item = None THEN "ignored" ELSE @]
    <3>1. sess[w].seen \in Row /\ quiet \in Row /\ hidden \in Row
      BY <1>0 DEF Row, IssueStatuses
    <3>2. \/ Flush(w, sess[w].seen, "flushed") \/ Flush(w, quiet, "flushed")
          \/ Flush(w, hidden, "flushed")
      BY <1>2 DEF Classify
    <3> QED BY <3>1, <3>2
  <2>2. sess' \in [Sessions -> SessState] BY <1>s, <2>1, FlushEffect, SessTyped
  <2> QED BY <1>2, <2>2 DEF TypeOK, Classify
<1>3. CASE CommitTriage(w)
  <2>1. \A i \in Issues : Merged(w, row[i]) \in Row BY MergedTyped DEF TypeOK
  <2>2. row' \in [Issues -> Row] BY <1>3, <2>1 DEF CommitTriage, TypeOK
  <2>3. sess' \in [Sessions -> SessState]
    BY <1>3, IdleTyped, SessTyped DEF CommitTriage, EndSession
  <2> QED BY <1>3, <2>2, <2>3 DEF TypeOK, CommitTriage
<1>4. CASE LoseTriage(w)
  <2>1. sess' \in [Sessions -> SessState]
    BY <1>4, IdleTyped, SessTyped DEF LoseTriage, EndSession
  <2>2. job' \in [Issues -> {"none", "queued", "running", "ended"}]
    BY <1>4 DEF LoseTriage, TypeOK
  <2> QED BY <1>4, <2>1, <2>2 DEF TypeOK, LoseTriage
<1> QED BY <1>1, <1>2, <1>3, <1>4 DEF WorkerStep

LEMMA StepTyped == TypeOK /\ Routed /\ [Next]_vars => TypeOK'
<1> SUFFICES ASSUME TypeOK, Routed, [Next]_vars PROVE TypeOK' OBVIOUS
<1>1. CASE \E m \in Items, to \in ItemStates : MoveItem(m, to) BY <1>1 DEF MoveItem, TypeOK
<1>2. CASE UNCHANGED vars BY <1>2 DEF vars, TypeOK
<1> QED BY <1>1, <1>2, HookTyped, OwnerTyped, WorkerTyped DEF Next

-----------------------------------------------------------------------------
(* Promotion. *)
LEMMA HoldsIsHoldsRow ==
    ASSUME NEW s \in Sessions, NEW i PROVE Holds(s, i) <=> sess[s].issue = i /\ HoldsRow(sess[s])
BY DEF Holds, HoldsRow, Dirty

(* A step of one session that leaves the tables alone keeps the invariant  *)
(* when the transaction it leads to fits and is apart from the others.     *)
LEMMA SessionKeepsIInv ==
    ASSUME IInv, TypeOK', NEW s \in Sessions, NEW x \in SessState,
           sess' = [sess EXCEPT ![s] = x], UNCHANGED <<row, itemAt>>,
           \A i \in Issues : job'[i] # "none" => row[i].status # "absent",
           Fits(x), s \notin Owners => ~Links(x),
           HoldsRow(x) => Free(s, x.issue),
           Links(x) => \A t \in Sessions : t # s => sess[t].new.item # x.new.item
    PROVE  IInv'
<1>1. sess'[s] = x /\ \A t \in Sessions : t # s => sess'[t] = sess[t] BY DEF IInv, TypeOK
<1>2. RowsInv' BY DEF IInv, RowsInv, PromotedOnce
<1>3. \A t \in Sessions : Fits(sess'[t]) BY <1>1 DEF IInv
<1>4. \A t \in Sessions : Fits(sess[t])'
  <2> TAKE t \in Sessions
  <2>1. Fits(sess'[t]) BY <1>3
  <2> QED BY <2>1 DEF Fits, Links
<1>5. \A t \in Sessions : t # s => Apart(x, sess[t]) /\ Apart(sess[t], x)
  BY HoldsIsHoldsRow DEF Free, Apart
<1>6. \A t, u \in Sessions : t # u => Apart(sess'[t], sess'[u]) BY <1>1, <1>5 DEF IInv
<1>7. \A t \in Sessions \ Owners : ~Links(sess'[t]) BY <1>1 DEF IInv
<1> QED BY <1>2, <1>4, <1>6, <1>7 DEF IInv, Apart, Links, HoldsRow

LEMMA EndKeepsIInv ==
    ASSUME IInv, TypeOK', NEW s \in Sessions, EndSession(s), UNCHANGED <<row, itemAt>>,
           \A i \in Issues : job'[i] # "none" => row[i].status # "absent"
    PROVE  IInv'
<1>1. Idle \in SessState BY IdleTyped
<1>2. Fits(Idle) /\ ~Links(Idle) /\ ~HoldsRow(Idle)
  BY DEF Fits, Links, HoldsRow, HasRead, Idle, NoRow
<1> QED BY <1>1, <1>2, SessionKeepsIInv DEF EndSession

LEMMA ReadKeepsIInv ==
    ASSUME IInv, TypeOK', NEW s \in Sessions, NEW i \in Issues, NEW at \in Steps, Read(s, i, at),
           UNCHANGED <<row, itemAt>>,
           \A k \in Issues : job'[k] # "none" => row[k].status # "absent",
           \/ at = "insert" /\ row[i].status = "absent"
           \/ at \in {"bump", "triage", "loaded"} /\ row[i].status # "absent"
           \/ at = "locked" /\ row[i].status # "absent" /\ Free(s, i)
    PROVE  IInv'
<1>1. PICK x \in SessState :
         /\ sess' = [sess EXCEPT ![s] = x]
         /\ x.at = at /\ x.issue = i /\ x.seen = row[i] /\ x.new = row[i] /\ x.closes = None
  BY ReadEffect DEF IInv
<1>2. Fits(x) BY <1>1 DEF Fits, Links, HoldsRow, HasRead, IInv, RowsInv
<1>3. ~Links(x) BY <1>1 DEF Links
<1>4. HoldsRow(x) => Free(s, x.issue) BY <1>1 DEF HoldsRow
<1> QED BY <1>1, <1>2, <1>3, <1>4, SessionKeepsIInv

(* An UPDATE that links no item. *)
LEMMA FlushKeepsIInv ==
    ASSUME IInv, TypeOK', NEW s \in Sessions, NEW new \in Row, NEW at \in {"flushed", "closing"},
           sess[s].at \in {"bump", "triage", "loaded", "locked"}, Flush(s, new, at),
           new.status # "absent", new.item = sess[s].seen.item, UNCHANGED <<row, itemAt, job>>
    PROVE  IInv'
<1>1. at \in Steps BY DEF Steps
<1>2. PICK x \in SessState :
         /\ sess' = [sess EXCEPT ![s] = x]
         /\ x.at = at /\ x.new = new /\ x.issue = sess[s].issue
         /\ x.seen = sess[s].seen /\ x.closes = sess[s].closes
  BY <1>1, FlushEffect DEF IInv
<1>3. Fits(sess[s]) BY DEF IInv
<1>4. ~Links(x) BY <1>2 DEF Links
<1>5. Fits(x) BY <1>2, <1>3, <1>4 DEF Fits, HoldsRow, HasRead
<1>6. HoldsRow(x) => Free(s, x.issue) BY <1>2 DEF HoldsRow, Flush
<1>7. \A k \in Issues : job'[k] # "none" => row[k].status # "absent" BY DEF IInv, RowsInv
<1> QED BY <1>2, <1>4, <1>5, <1>6, <1>7, SessionKeepsIInv

(* The UPDATE of a session that does not hold its row changes nothing. *)
LEMMA MergedFacts ==
    ASSUME TypeOK, NEW s \in Sessions, NEW old \in Row
    PROVE  /\ sess[s].new = sess[s].seen => Merged(s, old) = old
           /\ Merged(s, old).status \in {old.status, sess[s].new.status}
           /\ ~Links(sess[s]) => Merged(s, old).item = old.item
           /\ Links(sess[s]) => Merged(s, old).item = sess[s].new.item
<1>1. sess[s].new = sess[s].seen => Merged(s, old) = old BY DEF Merged, Row
<1> QED BY <1>1 DEF Merged, Links

LEMMA CommitKeepsIInv ==
    ASSUME IInv, TypeOK', NEW s \in Sessions, NEW i \in Issues, i = sess[s].issue,
           sess[s].at = "flushed", row' = [row EXCEPT ![i] = Merged(s, row[i])], EndSession(s),
           itemAt' = ItemsAfter(s) \/ (s \notin Owners /\ itemAt' = itemAt),
           \A k \in Issues : job'[k] # "none" => job[k] # "none" \/ k = i
    PROVE  IInv'
<1>1. PICK x \in SessState : x = sess[s] BY DEF IInv, TypeOK
<1>2. Fits(x) BY <1>1 DEF IInv
<1>3. row[i] \in Row BY DEF IInv, TypeOK
<1>4. PICK new \in Row : new = Merged(s, row[i]) BY <1>3, MergedTyped DEF IInv
<1>5. row'[i] = new /\ \A k \in Issues : k # i => row'[k] = row[k]
  BY <1>4 DEF IInv, TypeOK
<1>6. /\ new.status # "absent"
      /\ x.new = x.seen => new = row[i]
      /\ ~Links(x) => new.item = row[i].item
      /\ Links(x) => new.item = x.new.item
  BY <1>1, <1>2, <1>3, <1>4, MergedFacts DEF IInv, Fits, HasRead
<1>7. \A m \in Items : itemAt'[m] # "absent" <=> itemAt[m] # "absent" \/ (Links(x) /\ m = x.new.item)
  <2>1. CASE itemAt' = ItemsAfter(s)
    BY <1>1, <1>2, <2>1, IncidentsAssumption DEF ItemsAfter, Fits, Links
  <2>2. CASE s \notin Owners /\ itemAt' = itemAt BY <1>1, <2>2 DEF IInv
  <2> QED BY <2>1, <2>2
<1>8. sess'[s] = Idle /\ \A t \in Sessions : t # s => sess'[t] = sess[t]
  BY DEF EndSession, IInv, TypeOK
<1>9. Links(x) => x.new.item \in Items /\ row[i].item = None /\ itemAt[x.new.item] = "absent"
  BY <1>1, <1>2 DEF Fits, Links, SessState, Row
<1>10. RowsInv'
  <2>1. \A k \in Issues : row'[k].status = "absent" => row'[k].item = None
    BY <1>5, <1>6 DEF IInv, RowsInv
  <2>2. \A k \in Issues : row'[k].item # None => row'[k].item \in Items
    BY DEF TypeOK, Row
  <2>3. \A k \in Issues : row'[k].item # None => itemAt'[row'[k].item] # "absent"
    <3> TAKE k \in Issues
    <3>1. CASE k = i /\ Links(x) BY <3>1, <1>5, <1>6, <1>7, <1>9
    <3>2. CASE ~(k = i /\ Links(x))
      <4>1. row'[k].item = row[k].item BY <3>2, <1>5, <1>6
      <4> QED BY <4>1, <1>7, <2>2 DEF IInv, RowsInv
    <3> QED BY <3>1, <3>2
  <2>4. \A k \in Issues : job'[k] # "none" => row'[k].status # "absent"
    BY <1>5, <1>6 DEF IInv, RowsInv
  <2>5. ASSUME NEW m \in Items, itemAt'[m] # "absent"
        PROVE  \E k \in Issues : row'[k].item = m
    <3>1. CASE Links(x) /\ m = x.new.item BY <3>1, <1>5, <1>6
    <3>2. CASE itemAt[m] # "absent"
      <4>1. PICK k \in Issues : row[k].item = m BY <3>2 DEF IInv, RowsInv, PromotedOnce
      <4>2. ~(k = i /\ Links(x)) BY <4>1, <1>9, IncidentsAssumption
      <4>3. row'[k].item = m BY <4>1, <4>2, <1>5, <1>6
      <4> QED BY <4>3
    <3> QED BY <2>5, <3>1, <3>2, <1>7
  <2>6. ASSUME NEW m \in Items, NEW j \in Issues, NEW k \in Issues,
               row'[j].item = m, row'[k].item = m
        PROVE  j = k
    <3>1. \A l \in Issues : row[l].item = m => itemAt[m] # "absent"
      BY IncidentsAssumption DEF IInv, RowsInv
    <3>2. CASE Links(x)
      <4>1. \A l \in Issues : l # i => row'[l].item = row[l].item BY <1>5
      <4>2. row'[i].item = x.new.item BY <3>2, <1>5, <1>6
      <4> QED BY <2>6, <3>1, <3>2, <4>1, <4>2, <1>9 DEF IInv, RowsInv, PromotedOnce
    <3>3. CASE ~Links(x)
      <4>1. \A l \in Issues : row'[l].item = row[l].item BY <3>3, <1>5, <1>6
      <4> QED BY <2>6, <4>1 DEF IInv, RowsInv, PromotedOnce
    <3> QED BY <3>2, <3>3
  <2> QED BY <2>1, <2>3, <2>4, <2>5, <2>6 DEF RowsInv, PromotedOnce
<1>11. ASSUME NEW t \in Sessions, t # s PROVE Fits(sess[t])'
  <2>1. PICK y \in SessState : y = sess[t] BY DEF IInv, TypeOK
  <2>2. Fits(y) /\ Apart(x, y) BY <1>1, <1>11, <2>1 DEF IInv
  <2>3. y.issue = i /\ HoldsRow(y) => row' [i] = row[i]
    BY <1>1, <1>5, <1>6, <2>2 DEF Apart, HoldsRow
  <2>4. y.at # "idle" => row'[y.issue].status # "absent" \/ row'[y.issue] = row[y.issue]
    BY <1>5, <1>6, <2>2 DEF Fits
  <2>5. HasRead(y) => row'[y.issue].status # "absent" BY <1>5, <1>6, <2>2 DEF Fits, HasRead
  <2>6. HoldsRow(y) => y.issue \in Issues /\ row'[y.issue] = row[y.issue]
    BY <1>5, <2>2, <2>3 DEF Fits, HoldsRow
  <2>7. Links(y) => HoldsRow(y) BY <2>2 DEF Fits, Links, HoldsRow
  <2>8. Links(y) => itemAt'[y.new.item] = "absent"
    <3>1. Links(y) => y.new.item \in Items BY <2>1, <2>2 DEF Fits, Links, SessState, Row
    <3> QED BY <3>1, <1>7, <2>2 DEF Apart, Fits
  <2>9. /\ y.seen.item # None => itemAt'[y.seen.item] # "absent"
        /\ y.closes # None => itemAt'[y.closes] # "absent"
    BY <1>7, <2>1, <2>2 DEF Fits, SessState, Row
  <2>10. y = sess'[t] BY <1>8, <1>11, <2>1
  <2> QED BY <2>2, <2>5, <2>6, <2>7, <2>8, <2>9, <2>10 DEF Fits, HasRead, HoldsRow, Links
<1>12. Fits(sess[s])' /\ ~Links(Idle) /\ ~HoldsRow(Idle)
  BY <1>8 DEF Fits, Links, HoldsRow, HasRead, Idle, NoRow
<1>13. \A t, u \in Sessions : t # u => Apart(sess'[t], sess'[u])
  BY <1>8, <1>12 DEF IInv, Apart
<1>14. \A t \in Sessions \ Owners : ~Links(sess'[t]) BY <1>8, <1>12 DEF IInv
<1> QED BY <1>10, <1>11, <1>12, <1>13, <1>14 DEF IInv, Apart, Links, HoldsRow

LEMMA InsertKeepsIInv ==
    ASSUME IInv, TypeOK', NEW h \in Hooks, CommitInsert(h) PROVE IInv'
<1> h \in Sessions BY DEF Sessions
<1>1. PICK x \in SessState : x = sess[h] BY DEF IInv, TypeOK
<1>2. Fits(x) /\ x.at = "inserted" BY <1>1 DEF IInv, CommitInsert
<1>3. PICK i \in Issues : i = sess[h].issue BY <1>1, <1>2 DEF Fits
<1>4. /\ row'[i] = x.new /\ \A k \in Issues : k # i => row'[k] = row[k]
      /\ itemAt' = itemAt
      /\ \A k \in Issues : k # i => job'[k] = job[k]
  BY <1>1, <1>3 DEF CommitInsert, IInv, TypeOK
<1>5. row[i].status = "absent" /\ row[i].item = None
      /\ x.new.status # "absent" /\ x.new.item = None
  BY <1>1, <1>2, <1>3 DEF Fits, IInv, RowsInv
<1>6. \A k \in Issues : row'[k].item = row[k].item BY <1>4, <1>5
<1>7. RowsInv' BY <1>4, <1>5, <1>6 DEF IInv, RowsInv, PromotedOnce
<1>8. sess'[h] = Idle /\ \A t \in Sessions : t # h => sess'[t] = sess[t]
  BY DEF CommitInsert, EndSession, IInv, TypeOK
<1>9. ASSUME NEW t \in Sessions, t # h PROVE Fits(sess[t])'
  <2>1. PICK y \in SessState : y = sess[t] BY DEF IInv, TypeOK
  <2>2. Fits(y) /\ Apart(x, y) BY <1>1, <1>9, <2>1 DEF IInv
  <2>3. HoldsRow(y) => y.issue \in Issues /\ y.issue # i
    BY <1>1, <1>2, <1>3, <2>2 DEF Apart, HoldsRow, Fits
  <2>4. Links(y) => HoldsRow(y) BY <2>2 DEF Fits, Links, HoldsRow
  <2>5. y = sess'[t] BY <1>8, <1>9, <2>1
  <2> QED BY <1>4, <1>5, <2>2, <2>3, <2>4, <2>5 DEF Fits, HasRead, HoldsRow, Links
<1>10. Fits(sess[h])' /\ ~Links(Idle) /\ ~HoldsRow(Idle)
  BY <1>8 DEF Fits, Links, HoldsRow, HasRead, Idle, NoRow
<1>11. \A t, u \in Sessions : t # u => Apart(sess'[t], sess'[u])
  BY <1>8, <1>10 DEF IInv, Apart
<1>12. \A t \in Sessions \ Owners : ~Links(sess'[t]) BY <1>8, <1>10 DEF IInv
<1> QED BY <1>7, <1>9, <1>10, <1>11, <1>12 DEF IInv, Apart, Links, HoldsRow

LEMMA HookKeepsIInv == ASSUME IInv, TypeOK', NEW h \in Hooks, HookStep(h) PROVE IInv'
<1> h \in Sessions BY DEF Sessions
<1>0. \A k \in Issues : job[k] # "none" => row[k].status # "absent" BY DEF IInv, RowsInv
<1>1. CASE \E i \in Issues : Receive(h, i)
  <2> PICK i \in Issues : Receive(h, i) BY <1>1
  <2>1. CASE row[i].status = "absent"
    BY <1>0, <2>1, ReadKeepsIInv DEF Receive, Steps
  <2>2. CASE row[i].status # "absent"
    BY <1>0, <2>2, ReadKeepsIInv DEF Receive, Steps
  <2> QED BY <2>1, <2>2
<1>2. CASE InsertIssue(h)
  <2>1. PICK i : i = sess[h].issue OBVIOUS
  <2>2. CASE row[i].status # "absent"
    BY <1>0, <1>2, <2>1, <2>2, EndKeepsIInv DEF InsertIssue
  <2>3. CASE row[i].status = "absent"
    <3>1. sess[h] \in SessState /\ Fits(sess[h]) /\ sess[h].at = "insert"
      BY <1>2 DEF IInv, TypeOK, InsertIssue
    <3> DEFINE first == [NoRow EXCEPT !.status = "new", !.count = 1]
               x == [sess[h] EXCEPT !.at = "inserted", !.new = first]
    <3>2. first.status = "new" /\ first.item = None BY DEF NoRow
    <3>3. 1 \in 0..MaxCount BY IncidentsAssumption
    <3>4. first \in Row BY <3>3, IdleTyped DEF Row, IssueStatuses
    <3>5. sess' = [sess EXCEPT ![h] = x]
      BY <1>2, <2>1, <2>3, <3>1 DEF InsertIssue, IInv, TypeOK
    <3> HIDE DEF first
    <3>6. x \in SessState BY <3>1, <3>4 DEF SessState, Steps
    <3>7. /\ x.at = "inserted" /\ x.new = first /\ x.issue = i
          /\ x.seen = sess[h].seen /\ x.closes = sess[h].closes
      BY <2>1, <3>1 DEF SessState
    <3> HIDE DEF x
    <3>8. sess[h].new = sess[h].seen /\ ~Links(sess[h]) /\ i \in Issues
      BY <2>1, <3>1 DEF Fits, HoldsRow, Links
    <3>9. ~Links(x) BY <3>1, <3>2, <3>7, <3>8 DEF Links, Fits
    <3>10. Fits(x) BY <2>1, <2>3, <3>1, <3>2, <3>7, <3>8, <3>9 DEF Fits, HasRead, HoldsRow
    <3>11. Free(h, i)
      <4> SUFFICES ASSUME NEW t \in Sessions, t # h, Holds(t, i) PROVE FALSE BY DEF Free
      <4>1. Fits(sess[t]) /\ sess[t].issue = i BY DEF IInv, Holds
      <4>2. sess[t].at # "inserted" BY <1>2, <2>1, <4>1 DEF InsertIssue
      <4>3. HasRead(sess[t]) BY <4>2 DEF Holds, HasRead
      <4> QED BY <2>3, <4>1, <4>3 DEF Fits
    <3> QED
      BY <1>0, <1>2, <3>5, <3>6, <3>7, <3>9, <3>10, <3>11, SessionKeepsIInv DEF InsertIssue
  <2> QED BY <2>2, <2>3
<1>3. CASE CommitInsert(h) BY <1>3, InsertKeepsIInv
<1>4. CASE BumpCount(h)
  <2>1. sess[h].seen \in Row /\ Fits(sess[h]) /\ sess[h].at = "bump"
    BY <1>4 DEF IInv, TypeOK, SessState, BumpCount
  <2> DEFINE new == [sess[h].seen EXCEPT !.count = @ + 1]
  <2>2. new \in Row BY <1>4, <2>1, IncidentsAssumption DEF Row, BumpCount
  <2>3. new.item = sess[h].seen.item /\ new.status # "absent"
    BY <2>1 DEF Row, Fits, HasRead
  <2>4. Flush(h, new, "flushed") BY <1>4 DEF BumpCount
  <2> HIDE DEF new
  <2> QED BY <1>4, <2>1, <2>2, <2>3, <2>4, FlushKeepsIInv DEF BumpCount
<1>5. CASE CommitBump(h)
  <2>1. sess[h].issue \in Issues BY <1>5 DEF CommitBump, IInv, Fits
  <2>2. h \notin Owners BY IncidentsAssumption
  <2> QED BY <1>5, <2>1, <2>2, CommitKeepsIInv DEF CommitBump
<1>6. CASE Rollback(h) BY <1>0, <1>6, EndKeepsIInv DEF Rollback
<1> QED BY <1>1, <1>2, <1>3, <1>4, <1>5, <1>6 DEF HookStep

LEMMA OwnerKeepsIInv == ASSUME IInv, TypeOK', NEW o \in Owners, OwnerStep(o) PROVE IInv'
<1> o \in Sessions BY DEF Sessions
<1>0. \A k \in Issues : job[k] # "none" => row[k].status # "absent" BY DEF IInv, RowsInv
<1>f. sess[o] \in SessState /\ sess[o].seen \in Row /\ Fits(sess[o])
  BY DEF IInv, TypeOK, SessState
<1>1. CASE \E i \in Issues : LoadIssue(o, i)
  <2> PICK i \in Issues : LoadIssue(o, i) BY <1>1
  <2> QED BY <1>0, ReadKeepsIInv DEF LoadIssue, Steps
<1>2. CASE LockIssue(o)
  <2>1. sess[o].issue \in Issues /\ row[sess[o].issue].status # "absent"
    BY <1>2, <1>f DEF LockIssue, Fits, HasRead
  <2> QED BY <1>0, <1>2, <2>1, ReadKeepsIInv DEF LockIssue, Steps
<1>3. CASE \E m \in Items : Promote(o, m)
  <2> PICK m \in Items : Promote(o, m) BY <1>3
  <2>1. CASE sess[o].seen.item # None
    BY <1>0, <2>1, EndKeepsIInv DEF Promote
  <2>2. CASE sess[o].seen.item = None
    <3> DEFINE new == [sess[o].seen EXCEPT !.item = m, !.status = "linked"]
    <3>1. new \in Row /\ new.item = m /\ new.status = "linked"
      BY <1>f DEF Row, IssueStatuses
    <3>2. Flush(o, new, "flushed") BY <2>2 DEF Promote
    <3> HIDE DEF new
    <3>3. PICK x \in SessState :
             /\ sess' = [sess EXCEPT ![o] = x]
             /\ x.at = "flushed" /\ x.new = new /\ x.issue = sess[o].issue
             /\ x.seen = sess[o].seen /\ x.closes = sess[o].closes
      BY <3>1, <3>2, FlushEffect DEF IInv, Steps
    <3>4. sess[o].at = "locked" /\ itemAt[m] = "absent"
          /\ \A t \in Sessions : sess[t].new.item # m
      BY <2>2 DEF Promote
    <3>5. Fits(x) BY <1>f, <2>2, <3>1, <3>3, <3>4 DEF Fits, Links, HoldsRow, HasRead
    <3>6. Free(o, x.issue)
      <4>1. HoldsRow(sess[o]) BY <3>4 DEF HoldsRow
      <4> QED BY <3>3, <4>1, HoldsIsHoldsRow DEF Free, IInv, Apart
    <3> QED BY <1>0, <3>1, <3>3, <3>4, <3>5, <3>6, SessionKeepsIInv DEF Promote
  <2> QED BY <2>1, <2>2
<1>4. ASSUME NEW to \in IssueStatuses \ {"absent"}, NEW at \in {"flushed", "closing"},
             sess[o].at \in {"loaded", "locked"},
             Flush(o, [sess[o].seen EXCEPT !.status = to], at),
             UNCHANGED <<row, job, itemAt, received>>
      PROVE  IInv'
  <2> DEFINE new == [sess[o].seen EXCEPT !.status = to]
  <2>1. new \in Row /\ new.status # "absent" /\ new.item = sess[o].seen.item
    BY <1>f DEF Row
  <2>2. Flush(o, new, at) BY <1>4
  <2> HIDE DEF new
  <2> QED BY <1>4, <2>1, <2>2, FlushKeepsIInv
<1>5. CASE Ignore(o) BY <1>4, <1>5 DEF Ignore, IssueStatuses
<1>6. CASE Unignore(o) BY <1>4, <1>6 DEF Unignore, IssueStatuses
<1>7. CASE Resolve(o) BY <1>4, <1>7 DEF Resolve, IssueStatuses
<1>8. CASE CloseLinked(o)
  <2> PICK c : c = IF sess[o].seen.item # None /\ itemAt[sess[o].seen.item] = "closable"
                     THEN sess[o].seen.item ELSE None OBVIOUS
  <2> DEFINE x == [sess[o] EXCEPT !.at = "flushed", !.closes = c]
  <2>1. c \in Items \cup {None} /\ (c # None => itemAt[c] # "absent") BY <1>f DEF Row
  <2>2. x \in SessState BY <1>f, <2>1 DEF SessState, Steps
  <2>3. sess' = [sess EXCEPT ![o] = x] BY <1>8 DEF CloseLinked, IInv, TypeOK
  <2>4. /\ x.at = "flushed" /\ x.closes = c /\ x.new = sess[o].new
        /\ x.seen = sess[o].seen /\ x.issue = sess[o].issue
    BY <1>f DEF SessState
  <2> HIDE DEF x
  <2>5. sess[o].at = "closing" BY <1>8 DEF CloseLinked
  <2>6. ~Links(x) BY <1>f, <2>4, <2>5 DEF Fits, Links
  <2>7. Fits(x) BY <1>f, <2>1, <2>4, <2>5, <2>6 DEF Fits, HasRead, HoldsRow
  <2>8. HoldsRow(x) => Free(o, x.issue)
    <3>1. HoldsRow(x) => HoldsRow(sess[o]) BY <2>4, <2>5 DEF HoldsRow
    <3> QED BY <2>4, <3>1, HoldsIsHoldsRow DEF Free, IInv, Apart
  <2> QED BY <1>0, <1>8, <2>2, <2>3, <2>6, <2>7, <2>8, SessionKeepsIInv DEF CloseLinked
<1>9. CASE CommitOwner(o)
  <2>1. sess[o].issue \in Issues BY <1>9, <1>f DEF CommitOwner, Fits
  <2> QED BY <1>9, <2>1, CommitKeepsIInv DEF CommitOwner
<1>10. CASE Rollback(o) BY <1>0, <1>10, EndKeepsIInv DEF Rollback
<1> QED
  BY <1>1, <1>2, <1>3, <1>5, <1>6, <1>7, <1>8, <1>9, <1>10 DEF OwnerStep

LEMMA WorkerKeepsIInv == ASSUME IInv, TypeOK', NEW w \in Workers, WorkerStep(w) PROVE IInv'
<1> w \in Sessions BY DEF Sessions
<1>0. \A k \in Issues : job[k] # "none" => row[k].status # "absent" BY DEF IInv, RowsInv
<1>f. sess[w] \in SessState /\ sess[w].seen \in Row /\ Fits(sess[w]) /\ w \notin Owners
  BY IncidentsAssumption DEF IInv, TypeOK, SessState
<1>1. CASE \E i \in Issues : StartTriage(w, i)
  <2> PICK i \in Issues : StartTriage(w, i) BY <1>1
  <2>1. row[i].status # "absent" BY <1>0 DEF StartTriage
  <2>2. \A k \in Issues : job'[k] # "none" => row[k].status # "absent"
    BY <1>0, <2>1 DEF StartTriage, IInv, TypeOK
  <2> QED BY <2>1, <2>2, ReadKeepsIInv DEF StartTriage, Steps
<1>2. CASE Classify(w)
  <2>1. sess[w].at = "triage" /\ sess[w].seen.status # "absent"
    BY <1>2, <1>f DEF Classify, Fits, HasRead
  <2>2. PICK new \in Row : /\ Flush(w, new, "flushed")
                           /\ new.item = sess[w].seen.item /\ new.status # "absent"
    <3> DEFINE quiet == [sess[w].seen EXCEPT !.noise = FALSE]
               hidden == [sess[w].seen EXCEPT !.noise = TRUE,
                    !.status = IF sess[w].seen.item = None THEN "ignored" ELSE @]
    <3>1. sess[w].seen \in Row /\ quiet \in Row /\ hidden \in Row
      BY <1>f DEF Row, IssueStatuses
    <3>2. quiet.item = sess[w].seen.item /\ hidden.item = sess[w].seen.item
          /\ quiet.status # "absent" /\ hidden.status # "absent"
      BY <1>f, <2>1 DEF Row
    <3>3. \/ Flush(w, sess[w].seen, "flushed") \/ Flush(w, quiet, "flushed")
          \/ Flush(w, hidden, "flushed")
      BY <1>2 DEF Classify
    <3> HIDE DEF quiet, hidden
    <3> QED BY <2>1, <3>1, <3>2, <3>3
  <2> QED BY <1>2, <2>1, <2>2, FlushKeepsIInv DEF Classify
<1>3. CASE CommitTriage(w)
  <2>1. sess[w].issue \in Issues BY <1>3, <1>f DEF CommitTriage, Fits
  <2>2. \A k \in Issues : job'[k] # "none" => job[k] # "none" \/ k = sess[w].issue
    BY <1>3 DEF CommitTriage, IInv, TypeOK
  <2> QED BY <1>3, <1>f, <2>1, <2>2, CommitKeepsIInv DEF CommitTriage
<1>4. CASE LoseTriage(w)
  <2>1. sess[w].issue \in Issues /\ row[sess[w].issue].status # "absent"
    BY <1>4, <1>f DEF LoseTriage, Fits, HasRead
  <2>2. \A k \in Issues : job'[k] # "none" => row[k].status # "absent"
    BY <1>0, <1>4, <2>1 DEF LoseTriage, IInv, TypeOK
  <2> QED BY <1>4, <2>2, EndKeepsIInv DEF LoseTriage
<1> QED BY <1>1, <1>2, <1>3, <1>4 DEF WorkerStep

LEMMA MoveKeepsIInv ==
    ASSUME IInv, TypeOK', NEW m \in Items, NEW to \in ItemStates, MoveItem(m, to) PROVE IInv'
<1>1. \A n \in Items : itemAt'[n] = "absent" <=> itemAt[n] = "absent"
  BY DEF MoveItem, IInv, TypeOK
<1>2. RowsInv'
  <2>1. \A i \in Issues : row[i].item \in Items \cup {None} BY DEF IInv, TypeOK, Row
  <2> QED BY <1>1, <2>1 DEF IInv, RowsInv, PromotedOnce, MoveItem
<1>3. ASSUME NEW s \in Sessions PROVE Fits(sess[s])'
  <2>1. PICK x \in SessState : x = sess[s] BY DEF IInv, TypeOK
  <2>2. Fits(x) BY <2>1 DEF IInv
  <2>3. /\ x.seen.item \in Items \cup {None} /\ x.closes \in Items \cup {None}
        /\ x.new.item \in Items \cup {None}
    BY <2>1 DEF SessState, Row
  <2>4. sess'[s] = x /\ row' = row BY <2>1 DEF MoveItem
  <2> QED BY <1>1, <2>2, <2>3, <2>4 DEF Fits, HasRead, HoldsRow, Links
<1> QED BY <1>2, <1>3 DEF MoveItem, IInv, Apart, Links, HoldsRow

LEMMA IncidentsInductive == Spec => []IInv
<1>1. Init => IInv
  <2> SUFFICES ASSUME Init PROVE IInv OBVIOUS
  <2>1. TypeOK BY IdleTyped DEF Init, TypeOK, ItemStates
  <2>2. Fits(Idle) /\ ~Links(Idle) /\ ~HoldsRow(Idle)
    BY DEF Fits, Links, HoldsRow, HasRead, Idle, NoRow
  <2>3. RowsInv
    <3>1. \A i \in Issues : row[i].status = "absent" /\ row[i].item = None BY DEF Init, NoRow
    <3>2. \A i \in Issues : job[i] = "none" BY DEF Init
    <3>3. \A m \in Items : itemAt[m] = "absent" /\ m # None BY IncidentsAssumption DEF Init
    <3> QED BY <3>1, <3>2, <3>3 DEF RowsInv, PromotedOnce
  <2> QED BY <2>1, <2>2, <2>3 DEF Init, IInv, Apart
<1>2. IInv /\ [Next]_vars => IInv'
  <2> SUFFICES ASSUME IInv, [Next]_vars PROVE IInv' OBVIOUS
  <2>1. Routed BY DEF IInv, Routed, Fits
  <2>2. TypeOK' BY <2>1, StepTyped DEF IInv
  <2>3. CASE UNCHANGED vars
    BY <2>3 DEF vars, IInv, TypeOK, RowsInv, PromotedOnce, Fits, Apart, Links, HoldsRow, HasRead
  <2> QED BY <2>2, <2>3, HookKeepsIInv, OwnerKeepsIInv, WorkerKeepsIInv, MoveKeepsIInv DEF Next
<1> QED BY <1>1, <1>2, PTL DEF Spec

(* However many sessions interleave, every variable keeps its type. *)
THEOREM IncidentsTypeCorrect == Spec => []TypeOK
<1>1. IInv => TypeOK BY DEF IInv
<1> QED BY <1>1, IncidentsInductive, PTL

(* However many owners promote an incident, and whatever webhooks and the  *)
(* triage write to it meanwhile, it gets one item (promote_issue).         *)
THEOREM IncidentsPromotedOnce == Spec => []PromotedOnce
<1>1. IInv => PromotedOnce BY DEF IInv, RowsInv
<1> QED BY <1>1, IncidentsInductive, PTL

(* Both together: the rows keep their types and each promoted item one     *)
(* incident, for any number of incidents, sessions and items.              *)
THEOREM IncidentsSound == Spec => []IncidentsAreSound
<1>1. IInv => IncidentsAreSound BY DEF IInv, RowsInv, IncidentsAreSound
<1> QED BY <1>1, IncidentsInductive, PTL
-----------------------------------------------------------------------------
(* Who may bring a status back.  A session that restores an incident, or   *)
(* an owner's that hides one, holds the row and knows its status.          *)
Moves(x) == x.at \in {"closing", "flushed"} /\ x.new.status # x.seen.status

Moved(s, x) ==
    Moves(x) /\ (x.new.status = "new" \/ (x.new.status = "ignored" /\ s \in Owners))
    => x.seen.status = row[x.issue].status /\ x.seen.status \in {"new", "ignored"}

OwnedInv == \A s \in Sessions : Moved(s, sess[s])

(* A commit of another session leaves the row as it is.                    *)
LEMMA CommitLeavesMoves ==
    ASSUME IInv, NEW s \in Sessions, NEW t \in Sessions, s # t, Moves(sess[s]),
           sess[t].at \in {"flushed", "inserted"},
           NEW new, row' = [row EXCEPT ![sess[t].issue] = new],
           sess[t].at = "flushed" => new = Merged(t, row[sess[t].issue])
    PROVE  row'[sess[s].issue] = row[sess[s].issue]
<1>1. HoldsRow(sess[s]) BY DEF Moves, HoldsRow
<1>2. CASE HoldsRow(sess[t])
  <2>1. sess[s].issue # sess[t].issue BY <1>1, <1>2 DEF IInv, Apart
  <2>2. sess[s].issue \in Issues BY DEF IInv, Fits, Moves
  <2> QED BY <2>1, <2>2 DEF IInv, TypeOK
<1>3. CASE ~HoldsRow(sess[t])
  <2>1. sess[t].at = "flushed" /\ sess[t].new = sess[t].seen BY <1>3 DEF HoldsRow
  <2>2. sess[t].issue \in Issues BY <2>1 DEF IInv, Fits
  <2>3. row[sess[t].issue] \in Row BY <2>2 DEF IInv, TypeOK
  <2>4. Merged(t, row[sess[t].issue]) = row[sess[t].issue]
    BY <2>1, <2>3, MergedFacts DEF Merged, Row
  <2> QED BY <2>1, <2>2, <2>4 DEF IInv, TypeOK
<1> QED BY <1>2, <1>3

LEMMA QuietOwned ==
    ASSUME TypeOK, OwnedInv, NEW t \in Sessions, NEW x, row' = row,
           sess' = [sess EXCEPT ![t] = x], Moved(t, x)
    PROVE  OwnedInv'
<1> SUFFICES ASSUME NEW s \in Sessions PROVE Moved(s, sess[s])'
  BY DEF OwnedInv
<1>1. sess'[s] = IF s = t THEN x ELSE sess[s] BY DEF TypeOK
<1>2. Moved(s, sess'[s]) BY <1>1 DEF OwnedInv
<1> QED BY <1>2 DEF Moved, Moves

LEMMA CommitOwned ==
    ASSUME IInv, OwnedInv, NEW t \in Sessions,
           sess[t].at \in {"flushed", "inserted"}, sess' = [sess EXCEPT ![t] = Idle],
           NEW new, row' = [row EXCEPT ![sess[t].issue] = new],
           sess[t].at = "flushed" => new = Merged(t, row[sess[t].issue])
    PROVE  OwnedInv'
<1> SUFFICES ASSUME NEW s \in Sessions PROVE Moved(s, sess[s])'
  BY DEF OwnedInv
<1>1. sess'[s] = IF s = t THEN Idle ELSE sess[s] BY DEF IInv, TypeOK
<1>2. CASE s = t BY <1>1, <1>2 DEF Moved, Moves, Idle
<1>3. CASE s # t /\ Moves(sess[s])
  <2>1. row'[sess[s].issue] = row[sess[s].issue] BY <1>3, CommitLeavesMoves
  <2> QED BY <1>1, <1>3, <2>1 DEF OwnedInv, Moved, Moves
<1>4. CASE s # t /\ ~Moves(sess[s]) BY <1>1, <1>4 DEF Moved, Moves
<1> QED BY <1>2, <1>3, <1>4

LEMMA HookOwned == ASSUME IInv, OwnedInv, NEW h \in Hooks, HookStep(h) PROVE OwnedInv'
<1> h \in Sessions /\ h \notin Owners BY IncidentsAssumption DEF Sessions
<1>0. TypeOK /\ sess[h] \in SessState BY DEF IInv, TypeOK
<1>1. CASE \E i \in Issues : Receive(h, i)
  <2> PICK i \in Issues : Receive(h, i) BY <1>1
  <2>1. PICK at \in {"insert", "bump"} : Read(h, i, at) BY DEF Receive
  <2>2. PICK x \in SessState : sess' = [sess EXCEPT ![h] = x] /\ x.at = at
    BY <1>0, <2>1, ReadEffect DEF Steps
  <2> QED BY <1>0, <2>2, QuietOwned DEF Receive, Moved, Moves
<1>2. CASE InsertIssue(h)
  <2>1. PICK x : sess' = [sess EXCEPT ![h] = x] /\ x.at \in {"idle", "inserted"}
    BY <1>0, <1>2 DEF InsertIssue, EndSession, Idle, SessState, TypeOK
  <2> QED BY <1>0, <1>2, <2>1, QuietOwned DEF InsertIssue, Moved, Moves
<1>3. CASE CommitInsert(h)
  BY <1>3, CommitOwned DEF CommitInsert, EndSession
<1>4. CASE BumpCount(h)
  <2> DEFINE new == [sess[h].seen EXCEPT !.count = @ + 1]
  <2>1. new \in Row /\ new.status = sess[h].seen.status
    BY <1>0, <1>4, IncidentsAssumption DEF BumpCount, SessState, Row
  <2> HIDE DEF new
  <2>2. Flush(h, new, "flushed") BY <1>4 DEF BumpCount, new
  <2>3. PICK x \in SessState : /\ sess' = [sess EXCEPT ![h] = x] /\ x.new = new
                               /\ x.seen = sess[h].seen
    BY <1>0, <2>1, <2>2, FlushEffect DEF Steps
  <2> QED BY <1>0, <1>4, <2>1, <2>3, QuietOwned DEF BumpCount, Moved, Moves
<1>5. CASE CommitBump(h)
  BY <1>5, CommitOwned DEF CommitBump, EndSession
<1>6. CASE Rollback(h)
  BY <1>0, <1>6, QuietOwned DEF Rollback, EndSession, Moved, Moves, Idle
<1> QED BY <1>1, <1>2, <1>3, <1>4, <1>5, <1>6 DEF HookStep

LEMMA WorkerOwned == ASSUME IInv, OwnedInv, NEW w \in Workers, WorkerStep(w) PROVE OwnedInv'
<1> w \in Sessions /\ w \notin Owners BY IncidentsAssumption DEF Sessions
<1>0. TypeOK /\ sess[w] \in SessState BY DEF IInv, TypeOK
<1>1. CASE \E i \in Issues : StartTriage(w, i)
  <2> PICK i \in Issues : StartTriage(w, i) BY <1>1
  <2>1. Read(w, i, "triage") BY DEF StartTriage
  <2>2. PICK x \in SessState : sess' = [sess EXCEPT ![w] = x] /\ x.at = "triage"
    BY <1>0, <2>1, ReadEffect DEF Steps
  <2> QED BY <1>0, <2>2, QuietOwned DEF StartTriage, Moved, Moves
<1>2. CASE Classify(w)
  <2>1. PICK new \in Row : Flush(w, new, "flushed") /\ new.status \in {sess[w].seen.status, "ignored"}
    <3> DEFINE quiet == [sess[w].seen EXCEPT !.noise = FALSE]
               hidden == [sess[w].seen EXCEPT !.noise = TRUE,
                    !.status = IF sess[w].seen.item = None THEN "ignored" ELSE @]
    <3>1. sess[w].seen \in Row BY <1>0 DEF SessState
    <3>2. quiet \in Row /\ hidden \in Row BY <3>1 DEF Row, IssueStatuses
    <3>3. /\ quiet.status = sess[w].seen.status
          /\ hidden.status \in {sess[w].seen.status, "ignored"}
      BY <3>1 DEF Row
    <3>4. \/ Flush(w, sess[w].seen, "flushed") \/ Flush(w, quiet, "flushed")
          \/ Flush(w, hidden, "flushed")
      BY <1>2 DEF Classify
    <3> QED BY <3>1, <3>2, <3>3, <3>4
  <2>2. PICK x \in SessState : /\ sess' = [sess EXCEPT ![w] = x] /\ x.new = new
                               /\ x.seen = sess[w].seen
    BY <1>0, <2>1, FlushEffect DEF Steps
  <2> QED BY <1>0, <1>2, <2>1, <2>2, QuietOwned DEF Classify, Moved, Moves
<1>3. CASE CommitTriage(w)
  BY <1>3, CommitOwned DEF CommitTriage, EndSession
<1>4. CASE LoseTriage(w)
  BY <1>0, <1>4, QuietOwned DEF LoseTriage, EndSession, Moved, Moves, Idle
<1> QED BY <1>1, <1>2, <1>3, <1>4 DEF WorkerStep

LEMMA OwnerOwned == ASSUME IInv, OwnedInv, NEW o \in Owners, OwnerStep(o) PROVE OwnedInv'
<1> o \in Sessions BY DEF Sessions
<1>0. TypeOK /\ sess[o] \in SessState BY DEF IInv, TypeOK
<1>1. CASE \E i \in Issues : LoadIssue(o, i)
  <2> PICK i \in Issues : LoadIssue(o, i) BY <1>1
  <2>1. Read(o, i, "loaded") BY DEF LoadIssue
  <2>2. PICK x \in SessState : sess' = [sess EXCEPT ![o] = x] /\ x.at = "loaded"
    BY <1>0, <2>1, ReadEffect DEF Steps
  <2> QED BY <1>0, <2>2, QuietOwned DEF LoadIssue, Moved, Moves
<1>2. CASE LockIssue(o)
  <2>1. Read(o, sess[o].issue, "locked") /\ sess[o].issue \in Issues
    BY <1>2 DEF LockIssue, IInv, Fits
  <2>2. PICK x \in SessState : sess' = [sess EXCEPT ![o] = x] /\ x.at = "locked"
    BY <1>0, <2>1, ReadEffect DEF Steps
  <2> QED BY <1>0, <1>2, <2>2, QuietOwned DEF LockIssue, Moved, Moves
<1>3. CASE \E m \in Items : Promote(o, m)
  <2> PICK m \in Items : Promote(o, m) BY <1>3
  <2>1. CASE sess[o].seen.item = None
    <3> DEFINE new == [sess[o].seen EXCEPT !.item = m, !.status = "linked"]
    <3>1. new \in Row /\ new.status = "linked" BY <1>0 DEF SessState, Row, IssueStatuses
    <3>2. Flush(o, new, "flushed") BY <2>1 DEF Promote
    <3> HIDE DEF new
    <3>3. PICK x \in SessState : sess' = [sess EXCEPT ![o] = x] /\ x.new = new
      BY <1>0, <3>1, <3>2, FlushEffect DEF Steps
    <3> QED BY <1>0, <3>1, <3>3, QuietOwned DEF Promote, Moved, Moves
  <2>2. CASE sess[o].seen.item # None
    BY <1>0, <2>2, QuietOwned DEF Promote, EndSession, Moved, Moves, Idle
  <2> QED BY <2>1, <2>2
<1>4. CASE Ignore(o) \/ Unignore(o)
  <2>1. PICK new \in Row : Flush(o, new, "flushed")
    BY <1>0, <1>4 DEF Ignore, Unignore, SessState, Row, IssueStatuses
  <2>2. PICK x \in SessState : /\ sess' = [sess EXCEPT ![o] = x]
                               /\ x.issue = sess[o].issue /\ x.seen = sess[o].seen
    BY <1>0, <2>1, FlushEffect DEF Steps
  <2>3. sess[o].seen = row[sess[o].issue] /\ sess[o].seen.status \in {"new", "ignored"}
    BY <1>4 DEF Ignore, Unignore, IInv, Fits
  <2> QED BY <1>0, <1>4, <2>2, <2>3, QuietOwned DEF Ignore, Unignore, Moved
<1>5. CASE Resolve(o)
  <2> DEFINE new == [sess[o].seen EXCEPT !.status = "resolved"]
  <2>1. new \in Row /\ new.status = "resolved" BY <1>0 DEF SessState, Row, IssueStatuses
  <2>2. Flush(o, new, "closing") BY <1>5 DEF Resolve
  <2> HIDE DEF new
  <2>3. PICK x \in SessState : sess' = [sess EXCEPT ![o] = x] /\ x.new = new
    BY <1>0, <2>1, <2>2, FlushEffect DEF Steps
  <2> QED BY <1>0, <1>5, <2>1, <2>3, QuietOwned DEF Resolve, Moved, Moves
<1>6. CASE CloseLinked(o)
  <2>1. PICK x : /\ sess' = [sess EXCEPT ![o] = x] /\ x.issue = sess[o].issue
                 /\ x.seen = sess[o].seen /\ x.new = sess[o].new
    <3> DEFINE x == [sess[o] EXCEPT !.at = "flushed", !.closes =
                       IF sess[o].seen.item # None /\ itemAt[sess[o].seen.item] = "closable"
                       THEN sess[o].seen.item ELSE None]
    <3>1. sess' = [sess EXCEPT ![o] = x] BY <1>0, <1>6 DEF CloseLinked, TypeOK
    <3>2. /\ x.issue = sess[o].issue /\ x.seen = sess[o].seen
          /\ x.new = sess[o].new
      BY <1>0 DEF SessState
    <3> QED BY <3>1, <3>2
  <2>2. Moved(o, sess[o]) BY DEF OwnedInv
  <2>3. sess[o].at = "closing" BY <1>6 DEF CloseLinked
  <2>4. Moved(o, x) BY <2>1, <2>2, <2>3 DEF Moved, Moves
  <2> QED BY <1>0, <1>6, <2>1, <2>4, QuietOwned DEF CloseLinked
<1>7. CASE CommitOwner(o)
  BY <1>7, CommitOwned DEF CommitOwner, EndSession
<1>8. CASE Rollback(o)
  BY <1>0, <1>8, QuietOwned DEF Rollback, EndSession, Moved, Moves, Idle
<1> QED BY <1>1, <1>2, <1>3, <1>4, <1>5, <1>6, <1>7, <1>8 DEF OwnerStep

LEMMA OwnedInductive == Spec => []OwnedInv
<1>1. Init => OwnedInv
  BY DEF Init, OwnedInv, Moved, Moves, Idle
<1>2. IInv /\ OwnedInv /\ [Next]_vars => OwnedInv'
  <2> SUFFICES ASSUME IInv, OwnedInv, [Next]_vars PROVE OwnedInv'
    OBVIOUS
  <2>1. CASE \E m \in Items, to \in ItemStates : MoveItem(m, to)
    BY <2>1 DEF MoveItem, OwnedInv, Moved, Moves
  <2>2. CASE UNCHANGED vars
    BY <2>2 DEF vars, OwnedInv, Moved, Moves
  <2> QED BY <2>1, <2>2, HookOwned, OwnerOwned, WorkerOwned DEF Next
<1> QED BY <1>1, <1>2, IncidentsInductive, PTL DEF Spec

(* However sessions interleave, an incident that was linked or resolved    *)
(* does not return to the inbox, and no owner hides one (service.py:348).  *)
THEOREM IncidentsStatusesAreOwned == Spec => StatusesAreOwned
<1> DEFINE Restored == \A i \in Issues :
             row[i].status \notin {"absent", "new"} /\ row'[i].status = "new"
               => row[i].status = "ignored"
           Hidden == \A o \in Owners : \A i \in Issues :
             CommitOwner(o) /\ sess[o].issue = i /\ row'[i].status = "ignored"
               => row[i].status \in {"new", "ignored"}
<1>1. ASSUME IInv, OwnedInv, NEW s \in Sessions, NEW i \in Issues, sess[s].issue = i,
             sess[s].at = "flushed", row' = [row EXCEPT ![i] = Merged(s, row[i])]
      PROVE  /\ row'[i].status = "new" => row[i].status \in {"new", "ignored"}
             /\ s \in Owners /\ row'[i].status = "ignored" => row[i].status \in {"new", "ignored"}
  <2>1. row'[i].status = IF sess[s].new.status = sess[s].seen.status
                           THEN row[i].status ELSE sess[s].new.status
    BY <1>1 DEF IInv, TypeOK, Merged
  <2> QED BY <1>1, <2>1 DEF OwnedInv, Moved, Moves
<1>2. IInv /\ OwnedInv /\ [Next]_vars => [Restored /\ Hidden]_vars
  <2> SUFFICES ASSUME IInv, OwnedInv, Next PROVE Restored /\ Hidden
    BY DEF vars
  <2>1. Hidden
    <3> SUFFICES ASSUME NEW o \in Owners, CommitOwner(o), sess[o].issue \in Issues,
                        row'[sess[o].issue].status = "ignored"
                 PROVE  row[sess[o].issue].status \in {"new", "ignored"}
      OBVIOUS
    <3> QED BY <1>1 DEF CommitOwner, Sessions
  <2>2. Restored
    <3> SUFFICES ASSUME NEW i \in Issues, row[i].status \notin {"absent", "new"},
                        row'[i].status = "new"
                 PROVE  row[i].status = "ignored"
      OBVIOUS
    <3>1. ASSUME NEW s \in Sessions, CommitBump(s) \/ CommitOwner(s) \/ CommitTriage(s)
          PROVE  row[i].status = "ignored"
      <4>1. sess[s].at = "flushed" /\ row' = [row EXCEPT ![sess[s].issue] = Merged(s, row[sess[s].issue])]
        BY <3>1 DEF CommitBump, CommitOwner, CommitTriage
      <4>2. sess[s].issue = i BY <4>1 DEF IInv, TypeOK
      <4> QED BY <1>1, <4>1, <4>2
    <3>2. ASSUME NEW h \in Hooks, CommitInsert(h) PROVE row[i].status = "ignored"
      <4>1. row[sess[h].issue].status = "absent"
        BY <3>2 DEF CommitInsert, IInv, Fits, Sessions
      <4> QED BY <3>2, <4>1 DEF CommitInsert, IInv, TypeOK
    <3>3. row' # row OBVIOUS
    <3>4. CASE \E h \in Hooks : HookStep(h)
      BY <3>1, <3>2, <3>3, <3>4 DEF HookStep, Receive, InsertIssue, BumpCount, Rollback, Sessions
    <3>5. CASE \E o \in Owners : OwnerStep(o)
      BY <3>1, <3>3, <3>5 DEF OwnerStep, LoadIssue, LockIssue, Promote, Ignore, Unignore,
         Resolve, CloseLinked, Rollback, Sessions
    <3>6. CASE \E w \in Workers : WorkerStep(w)
      BY <3>1, <3>3, <3>6 DEF WorkerStep, StartTriage, Classify, LoseTriage, Sessions
    <3>7. CASE \E m \in Items, to \in ItemStates : MoveItem(m, to)
      BY <3>3, <3>7 DEF MoveItem
    <3> QED BY <3>4, <3>5, <3>6, <3>7 DEF Next
  <2> QED BY <2>1, <2>2
<1>3. Spec => [][Restored /\ Hidden]_vars
  BY <1>2, IncidentsInductive, OwnedInductive, PTL DEF Spec
<1>4. [][Restored /\ Hidden]_vars => [][Restored]_vars /\ [][Hidden]_vars
  BY PTL
<1> QED BY <1>3, <1>4 DEF StatusesAreOwned, OnlyIgnoredIsRestored, OwnersHideTheInbox

-----------------------------------------------------------------------------
(* Counting.  With one webhook session at a time, nobody else writes the   *)
(* count: it is still what that session read when it commits one more.     *)
OneHook == \A h, k \in Hooks : h = k

Counts(s, x) ==
    IF s \in Hooks
    THEN /\ x.at \in {"bump", "flushed"} => x.seen.count = row[x.issue].count
         /\ x.at = "flushed" => x.new.count = x.seen.count + 1
         /\ x.at = "inserted" => x.new.count = 1
    ELSE x.new.count = x.seen.count

CountInv ==
    /\ EventsCounted
    /\ \A i \in Issues : row[i].status = "absent" => row[i].count = 0
    /\ \A s \in Sessions : Counts(s, sess[s])

LEMMA QuietCounts ==
    ASSUME TypeOK, CountInv, NEW t \in Sessions, NEW x, row' = row, received' = received,
           sess' = [sess EXCEPT ![t] = x], Counts(t, x)
    PROVE  CountInv'
<1>1. ASSUME NEW s \in Sessions PROVE Counts(s, sess[s])'
  <2>1. sess'[s] = IF s = t THEN x ELSE sess[s] BY DEF TypeOK
  <2>2. Counts(s, sess'[s]) BY <2>1 DEF CountInv
  <2> QED BY <2>2 DEF Counts
<1> QED BY <1>1 DEF CountInv, EventsCounted

(* A session that did not count anything commits. *)
LEMMA CommitCounts ==
    ASSUME IInv, CountInv, NEW t \in Sessions \ Hooks, sess[t].at = "flushed",
           sess' = [sess EXCEPT ![t] = Idle], received' = received,
           row' = [row EXCEPT ![sess[t].issue] = Merged(t, row[sess[t].issue])]
    PROVE  CountInv'
<1>1. sess[t].issue \in Issues /\ row[sess[t].issue].status # "absent" /\ sess[t].new.status # "absent"
  BY DEF IInv, Fits, HasRead
<1>2. sess[t].new.count = sess[t].seen.count BY DEF CountInv, Counts
<1>3. \A i \in Issues : row'[i].count = row[i].count /\ (row'[i].status = "absent" => row[i].status = "absent")
  BY <1>1, <1>2 DEF Merged, IInv, TypeOK
<1>4. ASSUME NEW s \in Sessions PROVE Counts(s, sess[s])'
  <2>1. sess'[s] = IF s = t THEN Idle ELSE sess[s] BY DEF IInv, TypeOK
  <2>2. CASE s = t BY <2>1, <2>2 DEF Counts, Idle
  <2>3. CASE s # t
    <3>1. sess[s].at # "idle" => sess[s].issue \in Issues BY DEF IInv, Fits
    <3> QED BY <1>3, <2>1, <2>3, <3>1 DEF CountInv, Counts
  <2> QED BY <2>2, <2>3
<1> QED BY <1>3, <1>4 DEF CountInv, EventsCounted

(* The webhook commits one more. *)
LEMMA HookCounts ==
    ASSUME OneHook, IInv, CountInv, NEW h \in Hooks, CommitInsert(h) \/ CommitBump(h)
    PROVE  CountInv'
<1> DEFINE i == sess[h].issue
<1>0. h \in Sessions /\ sess[h] \in SessState /\ i \in Issues /\ Counts(h, sess[h])
  BY DEF Sessions, IInv, TypeOK, Fits, CommitInsert, CommitBump, CountInv
<1>1. /\ received' = [received EXCEPT ![i] = @ + 1] /\ sess' = [sess EXCEPT ![h] = Idle]
  BY DEF CommitInsert, CommitBump, EndSession
<1>2. PICK new : /\ row' = [row EXCEPT ![i] = new] /\ new.count = row[i].count + 1 /\ new.status # "absent"
  <2>1. CASE CommitInsert(h)
    <3>1. row[i].status = "absent" /\ sess[h].new.status # "absent" /\ sess[h].new.count = 1
      BY <1>0, <2>1 DEF CommitInsert, IInv, Fits, Counts
    <3>2. row[i].count = 0 BY <1>0, <3>1 DEF CountInv
    <3>3. row' = [row EXCEPT ![i] = sess[h].new] BY <2>1 DEF CommitInsert
    <3>4. sess[h].new.count = row[i].count + 1 BY <3>1, <3>2
    <3> QED BY <3>1, <3>3, <3>4
  <2>2. CASE CommitBump(h)
    <3>1. /\ sess[h].new.count = row[i].count + 1 /\ sess[h].seen.count = row[i].count
      BY <1>0, <2>2 DEF CommitBump, Counts
    <3>2. row[i].status # "absent" /\ sess[h].new.status # "absent"
      BY <1>0, <2>2 DEF CommitBump, IInv, Fits, HasRead
    <3>3. row[i].count \in Nat BY <1>0, IncidentsAssumption DEF IInv, TypeOK, Row
    <3>4. Merged(h, row[i]).count = row[i].count + 1 /\ Merged(h, row[i]).status # "absent"
      BY <3>1, <3>2, <3>3 DEF Merged
    <3> QED BY <2>2, <3>4 DEF CommitBump
  <2> QED BY <2>1, <2>2
<1> HIDE DEF i
<1>3. \A k \in Issues : /\ row'[k].count = received'[k]
                        /\ row'[k].status = "absent" => row'[k].count = 0
  BY <1>0, <1>1, <1>2 DEF IInv, TypeOK, CountInv, EventsCounted
<1>4. ASSUME NEW s \in Sessions PROVE Counts(s, sess[s])'
  <2>1. sess'[s] = IF s = h THEN Idle ELSE sess[s] BY <1>1 DEF IInv, TypeOK
  <2>2. CASE s = h BY <2>1, <2>2 DEF Counts, Idle
  <2>3. CASE s # h
    <3>1. s \notin Hooks BY <2>3 DEF OneHook
    <3> QED BY <2>1, <2>3, <3>1 DEF CountInv, Counts
  <2> QED BY <2>2, <2>3
<1> QED BY <1>3, <1>4 DEF CountInv, EventsCounted

LEMMA IdleCounts == \A s : Counts(s, Idle)
BY DEF Counts, Idle

LEMMA HookStepCounts == ASSUME OneHook, IInv, CountInv, NEW h \in Hooks, HookStep(h) PROVE CountInv'
<1> h \in Sessions BY DEF Sessions
<1>0. TypeOK /\ sess[h] \in SessState BY DEF IInv, TypeOK
<1>1. CASE \E i \in Issues : Receive(h, i)
  <2> PICK i \in Issues : Receive(h, i) BY <1>1
  <2>1. PICK at \in {"insert", "bump"} : Read(h, i, at) BY DEF Receive
  <2>2. PICK x \in SessState : /\ sess' = [sess EXCEPT ![h] = x] /\ x.at = at /\ x.issue = i
                               /\ x.seen = row[i]
    BY <1>0, <2>1, ReadEffect DEF Steps
  <2> QED BY <1>0, <2>2, QuietCounts DEF Receive, Counts
<1>2. CASE InsertIssue(h)
  <2>1. PICK x : sess' = [sess EXCEPT ![h] = x] /\ (x = Idle \/ (x.at = "inserted" /\ x.new.count = 1))
    <3> DEFINE first == [NoRow EXCEPT !.status = "new", !.count = 1]
               x == [sess[h] EXCEPT !.at = "inserted", !.new = first]
    <3>1. first.count = 1 BY DEF NoRow
    <3> HIDE DEF first
    <3>2. x.at = "inserted" /\ x.new.count = 1 BY <1>0, <3>1 DEF SessState
    <3>3. sess' = [sess EXCEPT ![h] = x] \/ sess' = [sess EXCEPT ![h] = Idle]
      BY <1>0, <1>2 DEF InsertIssue, EndSession, TypeOK, first
    <3> QED BY <3>2, <3>3
  <2>2. Counts(h, x) BY <2>1, IdleCounts DEF Counts
  <2> QED BY <1>0, <1>2, <2>1, <2>2, QuietCounts DEF InsertIssue
<1>3. CASE BumpCount(h)
  <2> DEFINE new == [sess[h].seen EXCEPT !.count = @ + 1]
  <2>1. new \in Row /\ new.count = sess[h].seen.count + 1
    BY <1>0, <1>3, IncidentsAssumption DEF BumpCount, SessState, Row
  <2> HIDE DEF new
  <2>2. Flush(h, new, "flushed") BY <1>3 DEF BumpCount, new
  <2>3. PICK x \in SessState : /\ sess' = [sess EXCEPT ![h] = x] /\ x.at = "flushed" /\ x.new = new
                               /\ x.issue = sess[h].issue /\ x.seen = sess[h].seen
    BY <1>0, <2>1, <2>2, FlushEffect DEF Steps
  <2>4. sess[h].seen.count = row[sess[h].issue].count
    BY <1>3 DEF BumpCount, CountInv, Counts
  <2>5. Counts(h, x) BY <2>1, <2>3, <2>4 DEF Counts
  <2> QED BY <1>0, <1>3, <2>3, <2>5, QuietCounts DEF BumpCount
<1>4. CASE Rollback(h)
  BY <1>0, <1>4, IdleCounts, QuietCounts DEF Rollback, EndSession
<1> QED BY <1>1, <1>2, <1>3, <1>4, HookCounts DEF HookStep

LEMMA WorkerCounts == ASSUME IInv, CountInv, NEW w \in Workers, WorkerStep(w) PROVE CountInv'
<1> w \in Sessions /\ w \notin Hooks BY IncidentsAssumption DEF Sessions
<1>0. TypeOK /\ sess[w] \in SessState BY DEF IInv, TypeOK
<1>1. CASE \E i \in Issues : StartTriage(w, i)
  <2> PICK i \in Issues : StartTriage(w, i) BY <1>1
  <2>1. PICK x \in SessState : sess' = [sess EXCEPT ![w] = x] /\ x.seen = row[i] /\ x.new = row[i]
    BY <1>0, ReadEffect DEF Steps, StartTriage
  <2> QED BY <1>0, <2>1, QuietCounts DEF StartTriage, Counts
<1>2. CASE Classify(w)
  <2>1. PICK new \in Row : Flush(w, new, "flushed") /\ new.count = sess[w].seen.count
    <3> DEFINE quiet == [sess[w].seen EXCEPT !.noise = FALSE]
               hidden == [sess[w].seen EXCEPT !.noise = TRUE,
                    !.status = IF sess[w].seen.item = None THEN "ignored" ELSE @]
    <3>1. sess[w].seen \in Row BY <1>0 DEF SessState
    <3>2. quiet \in Row /\ hidden \in Row BY <3>1 DEF Row, IssueStatuses
    <3>3. quiet.count = sess[w].seen.count /\ hidden.count = sess[w].seen.count
      BY <3>1 DEF Row
    <3>4. \/ Flush(w, sess[w].seen, "flushed") \/ Flush(w, quiet, "flushed")
          \/ Flush(w, hidden, "flushed")
      BY <1>2 DEF Classify
    <3> QED BY <3>1, <3>2, <3>3, <3>4
  <2>2. PICK x \in SessState : sess' = [sess EXCEPT ![w] = x] /\ x.new = new /\ x.seen = sess[w].seen
    BY <1>0, <2>1, FlushEffect DEF Steps
  <2> QED BY <1>0, <1>2, <2>1, <2>2, QuietCounts DEF Classify, Counts
<1>3. CASE CommitTriage(w)
  BY <1>3, CommitCounts DEF CommitTriage, EndSession
<1>4. CASE LoseTriage(w)
  BY <1>0, <1>4, IdleCounts, QuietCounts DEF LoseTriage, EndSession
<1> QED BY <1>1, <1>2, <1>3, <1>4 DEF WorkerStep

LEMMA OwnerCounts == ASSUME IInv, CountInv, NEW o \in Owners, OwnerStep(o) PROVE CountInv'
<1> o \in Sessions /\ o \notin Hooks BY IncidentsAssumption DEF Sessions
<1>0. TypeOK /\ sess[o] \in SessState /\ sess[o].seen \in Row BY DEF IInv, TypeOK, SessState
<1>1. CASE (\E i \in Issues : LoadIssue(o, i)) \/ LockIssue(o)
  <2>1. PICK i \in Issues, at \in Steps : Read(o, i, at)
    BY <1>1 DEF LoadIssue, LockIssue, Steps, IInv, Fits
  <2>2. PICK x \in SessState : sess' = [sess EXCEPT ![o] = x] /\ x.seen = row[i] /\ x.new = row[i]
    BY <1>0, <2>1, ReadEffect
  <2>3. row' = row /\ received' = received BY <1>1 DEF LoadIssue, LockIssue
  <2> QED BY <1>0, <2>2, <2>3, QuietCounts DEF Counts
<1>2. CASE (\E m \in Items : Promote(o, m)) \/ Ignore(o) \/ Unignore(o) \/ Resolve(o)
  <2>1. EndSession(o) \/ \E new \in Row, at \in Steps : Flush(o, new, at) /\ new.count = sess[o].seen.count
    <3> DEFINE seen == sess[o].seen
               move(st) == [seen EXCEPT !.status = st]
               link(m) == [seen EXCEPT !.item = m, !.status = "linked"]
    <3>1. \A st \in IssueStatuses : move(st) \in Row /\ move(st).count = seen.count
      BY <1>0 DEF Row
    <3>2. \A m \in Items : link(m) \in Row /\ link(m).count = seen.count
      BY <1>0 DEF Row, IssueStatuses
    <3>3. \/ EndSession(o) \/ \E m \in Items : Flush(o, link(m), "flushed")
          \/ Flush(o, move("ignored"), "flushed") \/ Flush(o, move("new"), "flushed")
          \/ Flush(o, move("resolved"), "closing")
      BY <1>2 DEF Promote, Ignore, Unignore, Resolve
    <3>4. {"ignored", "new", "resolved"} \subseteq IssueStatuses /\ {"flushed", "closing"} \subseteq Steps
      BY DEF IssueStatuses, Steps
    <3> HIDE DEF move, link
    <3> QED BY <3>1, <3>2, <3>3, <3>4
  <2>2. row' = row /\ received' = received
    BY <1>2 DEF Promote, Ignore, Unignore, Resolve
  <2>3. CASE EndSession(o)
    BY <1>0, <2>2, <2>3, IdleCounts, QuietCounts DEF EndSession
  <2>4. CASE \E new \in Row, at \in Steps : Flush(o, new, at) /\ new.count = sess[o].seen.count
    <3>1. PICK new \in Row, at \in Steps : Flush(o, new, at) /\ new.count = sess[o].seen.count
      BY <2>4
    <3>2. PICK x \in SessState : sess' = [sess EXCEPT ![o] = x] /\ x.new = new /\ x.seen = sess[o].seen
      BY <1>0, <3>1, FlushEffect
    <3> QED BY <1>0, <2>2, <3>1, <3>2, QuietCounts DEF Counts
  <2> QED BY <2>1, <2>3, <2>4
<1>3. CASE CloseLinked(o)
  <2>1. PICK x : sess' = [sess EXCEPT ![o] = x] /\ x.seen = sess[o].seen /\ x.new = sess[o].new
    <3> DEFINE x == [sess[o] EXCEPT !.at = "flushed", !.closes =
                       IF sess[o].seen.item # None /\ itemAt[sess[o].seen.item] = "closable"
                       THEN sess[o].seen.item ELSE None]
    <3>1. sess' = [sess EXCEPT ![o] = x] BY <1>0, <1>3 DEF CloseLinked, TypeOK
    <3>2. x.seen = sess[o].seen /\ x.new = sess[o].new BY <1>0 DEF SessState
    <3> QED BY <3>1, <3>2
  <2>2. Counts(o, x) BY <2>1 DEF CountInv, Counts
  <2> QED BY <1>0, <1>3, <2>1, <2>2, QuietCounts DEF CloseLinked
<1>4. CASE CommitOwner(o)
  BY <1>4, CommitCounts DEF CommitOwner, EndSession
<1>5. CASE Rollback(o)
  BY <1>0, <1>5, IdleCounts, QuietCounts DEF Rollback, EndSession
<1> QED BY <1>1, <1>2, <1>3, <1>4, <1>5 DEF OwnerStep

(* As long as webhooks come one at a time, every occurrence is counted,    *)
(* whatever triage and owners write to the incident meanwhile.             *)
THEOREM IncidentsEventsCounted == ASSUME OneHook PROVE Spec => []EventsCounted
<1>1. Init => CountInv
  BY DEF Init, CountInv, EventsCounted, Counts, Idle, NoRow
<1>2. IInv /\ CountInv /\ [Next]_vars => CountInv'
  <2> SUFFICES ASSUME IInv, CountInv, [Next]_vars PROVE CountInv'
    OBVIOUS
  <2>1. CASE \E m \in Items, to \in ItemStates : MoveItem(m, to)
    BY <2>1 DEF MoveItem, CountInv, EventsCounted, Counts
  <2>2. CASE UNCHANGED vars
    BY <2>2 DEF vars, CountInv, EventsCounted, Counts
  <2> QED BY <2>1, <2>2, HookStepCounts, OwnerCounts, WorkerCounts DEF Next
<1>3. CountInv => EventsCounted
  BY DEF CountInv
<1> QED BY <1>1, <1>2, <1>3, IncidentsInductive, PTL DEF Spec
=============================================================================
