------------------------ MODULE ItemLifecycleProofs ------------------------
(***************************************************************************)
(* Theorems about ItemLifecycle: what holds however many sessions          *)
(* interleave (the types, and that a closing is dated), and what holds     *)
(* when requests come one at a time (the rest of the lifecycle).           *)
(***************************************************************************)
EXTENDS ItemLifecycle, TLAPS

(* What a flushed change can be, whatever its session read: a closing      *)
(* writes its date, and a date is only cleared by a move to an open status.*)
ChangeIsWhole(ch) ==
    /\ ch.status \in Terminal => ch.dated = "set"
    /\ ch.dated = "cleared" => ch.status \in Open

Inv ==
    /\ TypeOK
    /\ \A s \in Sessions : sess[s].at # "idle" => sess[s].item \in Items
    /\ \A s \in Sessions, i \in Items : ChangeIsWhole(sess[s].wrote[i])

(* The shape of Flush: one session moves on, with one more change. *)
LEMMA FlushKeepsInv ==
    ASSUME Inv, NEW s \in Sessions, NEW ch \in Change, ChangeIsWhole(ch),
           NEW at \in {"moved", "flushed"}, sess[s].at # "idle", Flush(s, ch, at)
    PROVE  Inv'
<1> DEFINE i == sess[s].item
<1>1. i \in Items /\ sess[s] \in SessState BY DEF Inv, TypeOK
<1> HIDE DEF i
<1>2. sess' = [sess EXCEPT ![s].at = at, ![s].wrote[i] = ch] BY DEF Flush, i
<1>3. [sess[s].wrote EXCEPT ![i] = ch] \in [Items -> Change] BY <1>1 DEF SessState
<1>4. /\ sess'[s] = [sess[s] EXCEPT !.at = at, !.wrote = [sess[s].wrote EXCEPT ![i] = ch]]
      /\ \A t \in Sessions : t # s => sess'[t] = sess[t]
      /\ DOMAIN sess' = Sessions
  BY <1>2 DEF Inv, TypeOK
<1>5. sess'[s] \in SessState BY <1>1, <1>3, <1>4 DEF SessState
<1>6. sess' \in [Sessions -> SessState] BY <1>2, <1>4, <1>5 DEF Inv, TypeOK
<1>7. TypeOK' BY <1>6 DEF Inv, TypeOK, Flush
<1>8. \A t \in Sessions : sess'[t].at # "idle" => sess'[t].item \in Items
  <2>1. sess'[s].item = i
    BY <1>1, <1>4 DEF SessState, i
  <2>2. \A t \in Sessions : sess[t].at # "idle" => sess[t].item \in Items
    BY DEF Inv
  <2> QED BY <1>1, <1>4, <2>1, <2>2
<1>9. \A t \in Sessions, k \in Items : ChangeIsWhole(sess'[t].wrote[k])
  <2> TAKE t \in Sessions, k \in Items
  <2>1. CASE t = s /\ k = i
    <3>1. sess'[t].wrote[k] = ch BY <1>1, <1>4, <2>1 DEF SessState
    <3> QED BY <3>1
  <2>2. CASE ~(t = s /\ k = i)
    <3>1. CASE t # s BY <1>4, <3>1 DEF Inv
    <3>2. CASE t = s /\ k # i
      <4>1. sess'[s].wrote = [sess[s].wrote EXCEPT ![i] = ch] BY <1>1, <1>4 DEF SessState
      <4>2. sess[s].wrote \in [Items -> Change] BY <1>1 DEF SessState
      <4>3. sess'[s].wrote[k] = sess[s].wrote[k] BY <3>2, <4>1, <4>2
      <4> QED BY <3>2, <4>3 DEF Inv
    <3> QED BY <2>2, <3>1, <3>2
  <2> QED BY <2>1, <2>2
<1> QED BY <1>7, <1>8, <1>9 DEF Inv, ChangeIsWhole

LEMMA LifecycleInductive == Spec => []Inv
<1>1. Init => Inv
  BY DEF Init, Inv, TypeOK, Idle, Unread, SessState, Seen, Change, NoChange, ChangeIsWhole,
         Statuses, Terminal, Open
<1>2. Inv /\ [Next]_vars => Inv'
  <2> SUFFICES ASSUME Inv, [Next]_vars PROVE Inv' OBVIOUS
  <2>1. CASE UNCHANGED vars BY <2>1 DEF vars, Inv, TypeOK, ChangeIsWhole
  <2>2. ASSUME NEW s \in Sessions, SessionStep(s) PROVE Inv'
    <3>0. sess[s] \in SessState BY DEF Inv, TypeOK
    <3>1. ASSUME NEW i \in Items, Load(s, i) PROVE Inv'
      <4> DEFINE new == [sess[s] EXCEPT !.at = IF @ = "idle" THEN "loaded" ELSE "again",
                            !.item = i, !.seen = [status |-> status[i], dated |-> dated[i]]]
      <4>1. sess' = [sess EXCEPT ![s] = new] BY <3>1 DEF Load
      <4>2. new \in SessState BY <3>0, <3>1 DEF Inv, TypeOK, SessState, Seen
      <4>3. new.item = i /\ new.wrote = sess[s].wrote BY <3>0 DEF SessState
      <4> HIDE DEF new
      <4>4. UNCHANGED <<status, dated, blocks>> BY <3>1 DEF Load
      <4>5. TypeOK' BY <4>1, <4>2, <4>4 DEF Inv, TypeOK
      <4> QED BY <4>1, <4>3, <4>5 DEF Inv, TypeOK, ChangeIsWhole
    <3>2. ASSUME NEW i \in Items, NEW to \in Statuses, Create(s, i, to) PROVE Inv'
      BY <3>2 DEF Create, Inv, TypeOK, ChangeIsWhole
    <3>3. ASSUME NEW i \in Items, NEW j \in Items,
                 CreateRelationship(s, i, j) \/ DeleteRelationship(s, i, j)
          PROVE  Inv'
      BY <3>3 DEF CreateRelationship, DeleteRelationship, Inv, TypeOK, ChangeIsWhole
    <3>4. ASSUME NEW to \in Open, ApplyTransition(s, to) PROVE Inv'
      <4> DEFINE ch == IF to = sess[s].seen.status THEN NoChange
                       ELSE [status |-> to,
                             dated |-> IF sess[s].seen.status \in Terminal THEN ClearDate(s)
                                       ELSE "same"]
      <4>1. Flush(s, ch, "moved") /\ sess[s].at # "idle" BY <3>4 DEF ApplyTransition
      <4>2. ch \in Change /\ ChangeIsWhole(ch)
        BY DEF Change, NoChange, ClearDate, ChangeIsWhole, Statuses, Open, Terminal
      <4> HIDE DEF ch
      <4> QED BY <4>1, <4>2, FlushKeepsInv
    <3>5. ASSUME NEW to \in Terminal, CloseItem(s, to) PROVE Inv'
      <4> DEFINE ch == [status |-> IF to = sess[s].seen.status THEN "same" ELSE to,
                        dated |-> "set"]
      <4>1. Flush(s, ch, "flushed") /\ sess[s].at # "idle" BY <3>5 DEF CloseItem
      <4>2. ch \in Change /\ ChangeIsWhole(ch) BY DEF Change, ChangeIsWhole, Statuses
      <4> HIDE DEF ch
      <4> QED BY <4>1, <4>2, FlushKeepsInv
    <3>6. CASE ReopenItem(s)
      <4> DEFINE ch == [status |-> "backlog", dated |-> ClearDate(s)]
      <4>1. Flush(s, ch, "moved") /\ sess[s].at # "idle" BY <3>6 DEF ReopenItem
      <4>2. ch \in Change /\ ChangeIsWhole(ch)
        BY DEF Change, ClearDate, ChangeIsWhole, Statuses, Open, Terminal
      <4> HIDE DEF ch
      <4> QED BY <4>1, <4>2, FlushKeepsInv
    <3>7. CASE SkipReference(s) \/ ReportUnblocked(s)
      <4>1. PICK rep \in SUBSET Items :
              sess' = [sess EXCEPT ![s] = [@ EXCEPT !.at = "closed", !.report = rep]]
        <5>1. CASE SkipReference(s)
          <6>1. sess' = [sess EXCEPT ![s] = [@ EXCEPT !.at = "closed", !.report = sess[s].report]]
            BY <3>0, <5>1 DEF SkipReference, SessState, Inv, TypeOK
          <6> QED BY <3>0, <6>1 DEF SessState
        <5>2. CASE ReportUnblocked(s)
          <6>1. UnblockedBy(s, sess[s].item) \subseteq Items BY DEF UnblockedBy
          <6> QED BY <3>0, <5>2, <6>1 DEF ReportUnblocked, SessState
        <5> QED BY <3>7, <5>1, <5>2
      <4>2. [sess[s] EXCEPT !.at = "closed", !.report = rep] \in SessState
        BY <3>0 DEF SessState
      <4>3. UNCHANGED <<status, dated, blocks>> BY <3>7 DEF SkipReference, ReportUnblocked
      <4>4. sess[s].at # "idle" BY <3>7 DEF SkipReference, ReportUnblocked
      <4>5. TypeOK' BY <4>1, <4>2, <4>3 DEF Inv, TypeOK
      <4>6. /\ sess'[s].item = sess[s].item /\ sess'[s].wrote = sess[s].wrote
            /\ \A t \in Sessions : t # s => sess'[t] = sess[t]
        BY <3>0, <4>1 DEF Inv, TypeOK, SessState
      <4> QED BY <4>4, <4>5, <4>6 DEF Inv, ChangeIsWhole
    <3>8. CASE Commit(s) \/ Rollback(s)
      <4>1. sess' = [sess EXCEPT ![s] = Idle] BY <3>8 DEF Commit, Rollback
      <4>2. Idle \in SessState /\ \A i \in Items : ChangeIsWhole(Idle.wrote[i])
        BY DEF Idle, SessState, Unread, Seen, Change, NoChange, ChangeIsWhole, Statuses,
               Terminal, Open
      <4>3. sess' \in [Sessions -> SessState] BY <4>1, <4>2 DEF Inv, TypeOK
      <4>4. status' \in [Items -> Statuses \cup {"absent"}] /\ dated' \in [Items -> BOOLEAN]
        <5>1. CASE Rollback(s) BY <5>1 DEF Rollback, Inv, TypeOK
        <5>2. CASE Commit(s)
          <6>1. \A i \in Items : sess[s].wrote[i] \in Change BY <3>0 DEF SessState
          <6>2. \A i \in Items : /\ StatusIn(s, i) \in Statuses \cup {"absent"}
                                 /\ DatedIn(s, i) \in BOOLEAN
            BY <6>1 DEF StatusIn, DatedIn, StatusAfter, DatedAfter, Change, Inv, TypeOK
          <6> QED BY <5>2, <6>2 DEF Commit
        <5> QED BY <3>8, <5>1, <5>2
      <4>5. TypeOK' BY <3>8, <4>3, <4>4 DEF Commit, Rollback, Inv, TypeOK
      <4>6. Idle.at = "idle" BY DEF Idle
      <4> QED BY <4>1, <4>2, <4>5, <4>6 DEF Inv, TypeOK, ChangeIsWhole
    <3> QED BY <2>2, <3>1, <3>2, <3>3, <3>4, <3>5, <3>6, <3>7, <3>8 DEF SessionStep
  <2> QED BY <2>1, <2>2 DEF Next
<1> QED BY <1>1, <1>2, PTL DEF Spec

(* Every variable keeps its type, for any number of items and sessions. *)
THEOREM LifecycleTypeCorrect == Spec => []TypeOK
<1>1. Inv => TypeOK BY DEF Inv
<1> QED BY <1>1, LifecycleInductive, PTL

(* However sessions interleave, a step that changes a row and leaves it    *)
(* closed leaves it dated.                                                 *)
THEOREM LifecycleClosuresAreDated == Spec => ClosuresAreDated
<1>1. Inv /\ Inv' /\ [Next]_vars =>
        [\A i \in Items :
            /\ Exists(i) /\ status'[i] \in Terminal
            /\ <<status'[i], dated'[i]>> # <<status[i], dated[i]>>
            => dated'[i]]_vars
  <2> SUFFICES ASSUME Inv, [Next]_vars, NEW i \in Items, Exists(i), status'[i] \in Terminal,
                      status'[i] # status[i] \/ dated'[i] # dated[i]
               PROVE  dated'[i]
    OBVIOUS
  <2>1. \E s \in Sessions : Commit(s)
    <3>1. PICK s \in Sessions : SessionStep(s) BY DEF Next, vars
    <3>2. ~\E k \in Items, to \in Statuses : Create(s, k, to)
      BY DEF Create, Exists, Inv, TypeOK
    <3> QED BY <3>1, <3>2 DEF SessionStep, Load, CreateRelationship, DeleteRelationship,
          ApplyTransition, CloseItem, ReopenItem, Flush, SkipReference, ReportUnblocked, Rollback
  <2>2. PICK s \in Sessions : Commit(s) BY <2>1
  <2> DEFINE ch == sess[s].wrote[i]
  <2>3. ChangeIsWhole(ch) /\ ch \in Change BY DEF Inv, TypeOK, SessState
  <2>4. /\ status'[i] = StatusAfter(ch, status[i])
        /\ dated'[i] = DatedAfter(ch, dated[i])
    BY <2>2 DEF Commit, StatusIn, DatedIn
  <2> HIDE DEF ch
  <2>5. ch.dated # "same"
    BY <2>3, <2>4 DEF StatusAfter, DatedAfter, ChangeIsWhole
  <2>6. ch.dated # "cleared"
    BY <2>3, <2>4 DEF StatusAfter, ChangeIsWhole, Change, Open, Terminal
  <2> QED BY <2>3, <2>4, <2>5, <2>6 DEF DatedAfter, Change
<1> QED BY <1>1, LifecycleInductive, PTL DEF Spec, ClosuresAreDated
-----------------------------------------------------------------------------
(***************************************************************************)
(* One request at a time.  What a session loaded is then still the row     *)
(* when it flushes and when it commits, so what it validated is what       *)
(* happens.                                                                *)
(***************************************************************************)
OneAtATime == \A s, t \in Sessions : s = t

(* The change session s has pending for item i is one it may make. *)
Sound(s, i) ==
    /\ DatedIn(s, i) => StatusIn(s, i) \in Terminal
    /\ StatusIn(s, i) # status[i] => <<status[i], StatusIn(s, i)>> \in Transitions

SerialInv ==
    /\ Inv
    /\ OpenIsUndated
    /\ \A s \in Sessions : sess[s].at \in {"idle", "loaded"} =>
            \A i \in Items : sess[s].wrote[i] = NoChange
    /\ \A s \in Sessions : sess[s].at \in {"loaded", "again"} =>
            /\ sess[s].seen = [status |-> status[sess[s].item], dated |-> dated[sess[s].item]]
            /\ sess[s].wrote[sess[s].item] = NoChange
    /\ \A s \in Sessions, i \in Items : Sound(s, i)

(* What a flush does to the rows as its session reads them. *)
LEMMA FlushEffect ==
    ASSUME Inv, NEW s \in Sessions, NEW ch \in Change, NEW at \in {"moved", "flushed"},
           sess[s].at # "idle", Flush(s, ch, at)
    PROVE  /\ sess'[s].at = at /\ sess'[s].item = sess[s].item
           /\ sess'[s].report = sess[s].report
           /\ sess[s].item \in Items
           /\ sess'[s].wrote[sess[s].item] = ch
           /\ \A k \in Items : k # sess[s].item => sess'[s].wrote[k] = sess[s].wrote[k]
           /\ status' = status /\ dated' = dated /\ blocks' = blocks
<1>1. sess[s] \in SessState /\ sess[s].item \in Items BY DEF Inv, TypeOK
<1>2. /\ sess'[s].at = at /\ sess'[s].item = sess[s].item
      /\ sess'[s].report = sess[s].report
      /\ sess'[s].wrote = [sess[s].wrote EXCEPT ![sess[s].item] = ch]
  BY <1>1 DEF Flush, Inv, TypeOK, SessState
<1>3. sess[s].wrote \in [Items -> Change] BY <1>1 DEF SessState
<1>4. status' = status /\ dated' = dated /\ blocks' = blocks BY DEF Flush
<1> QED BY <1>1, <1>2, <1>3, <1>4

(* A flush of a change that is sound for the row it was loaded from. *)
LEMMA FlushKeepsSerialInv ==
    ASSUME OneAtATime, SerialInv, Inv', NEW s \in Sessions,
           NEW ch \in Change, NEW at \in {"moved", "flushed"},
           sess[s].at # "idle", Flush(s, ch, at),
           DatedAfter(ch, dated[sess[s].item]) => StatusAfter(ch, status[sess[s].item]) \in Terminal,
           StatusAfter(ch, status[sess[s].item]) # status[sess[s].item] =>
               <<status[sess[s].item], StatusAfter(ch, status[sess[s].item])>> \in Transitions
    PROVE  SerialInv'
<1>1. Inv /\ \A t \in Sessions : t = s BY DEF OneAtATime, SerialInv
<1>2. /\ sess'[s].at = at /\ sess[s].item \in Items
      /\ sess'[s].wrote[sess[s].item] = ch
      /\ \A k \in Items : k # sess[s].item => sess'[s].wrote[k] = sess[s].wrote[k]
      /\ status' = status /\ dated' = dated /\ blocks' = blocks
  BY <1>1, FlushEffect
<1>3. \A k \in Items : Sound(s, k)'
  <2> TAKE k \in Items
  <2>1. CASE k = sess[s].item BY <1>2, <2>1 DEF Sound, StatusIn, DatedIn
  <2>2. CASE k # sess[s].item
    <3>1. Sound(s, k) BY DEF SerialInv
    <3>2. sess'[s].wrote[k] = sess[s].wrote[k] BY <1>2, <2>2
    <3> QED BY <1>2, <3>1, <3>2 DEF Sound, StatusIn, DatedIn
  <2> QED BY <2>1, <2>2
<1>4. \A t \in Sessions, k \in Items : Sound(t, k)' BY <1>1, <1>3
<1>5. OpenIsUndated' BY <1>2 DEF SerialInv, OpenIsUndated
<1>6. \A t \in Sessions : sess'[t].at \notin {"idle", "loaded", "again"} BY <1>1, <1>2
<1> QED BY <1>4, <1>5, <1>6 DEF SerialInv

LEMMA SerialInductive ==
    ASSUME OneAtATime
    PROVE  Spec => [](SerialInv /\ Inv)
<1>1. Init => SerialInv
  <2> SUFFICES ASSUME Init, Inv PROVE SerialInv
    BY DEF Init, Inv, TypeOK, Idle, Unread, SessState, Seen, Change, NoChange, ChangeIsWhole,
         Statuses, Terminal, Open
  <2> QED BY DEF Init, SerialInv, OpenIsUndated, Idle, NoChange, Sound, StatusIn, DatedIn,
                 StatusAfter, DatedAfter
<1>2. SerialInv /\ Inv' /\ [Next]_vars => SerialInv'
  <2> SUFFICES ASSUME SerialInv, Inv', [Next]_vars PROVE SerialInv' OBVIOUS
  <2>0. Inv BY DEF SerialInv
  <2>1. CASE UNCHANGED vars
    BY <2>1 DEF vars, SerialInv, OpenIsUndated, Sound, StatusIn, DatedIn
  <2>2. ASSUME NEW s \in Sessions, SessionStep(s) PROVE SerialInv'
    <3>0. sess[s] \in SessState /\ \A t \in Sessions : t = s
      BY <2>0 DEF Inv, TypeOK, OneAtATime
    <3>a. sess[s].at \in {"loaded", "again"} =>
            /\ sess[s].seen.status = status[sess[s].item]
            /\ sess[s].seen.dated = dated[sess[s].item]
            /\ sess[s].item \in Items
            /\ status[sess[s].item] \in Statuses \cup {"absent"}
            /\ dated[sess[s].item] \in BOOLEAN
            /\ dated[sess[s].item] => status[sess[s].item] \in Terminal
      <4> SUFFICES ASSUME sess[s].at \in {"loaded", "again"}
                   PROVE  /\ sess[s].seen.status = status[sess[s].item]
                          /\ sess[s].seen.dated = dated[sess[s].item]
                          /\ sess[s].item \in Items
                          /\ status[sess[s].item] \in Statuses \cup {"absent"}
                          /\ dated[sess[s].item] \in BOOLEAN
                          /\ dated[sess[s].item] => status[sess[s].item] \in Terminal
        OBVIOUS
      <4>1. sess[s].item \in Items BY <2>0 DEF Inv
      <4>2. sess[s].seen = [status |-> status[sess[s].item], dated |-> dated[sess[s].item]]
        BY DEF SerialInv
      <4>3. dated[sess[s].item] => status[sess[s].item] \in Terminal
        BY <4>1 DEF SerialInv, OpenIsUndated
      <4> QED BY <2>0, <4>1, <4>2, <4>3 DEF Inv, TypeOK
    <3>1. ASSUME NEW i \in Items, Load(s, i) PROVE SerialInv'
      <4>1. /\ sess'[s].at = IF sess[s].at = "idle" THEN "loaded" ELSE "again"
            /\ sess'[s].item = i /\ sess'[s].wrote = sess[s].wrote
            /\ sess'[s].seen = [status |-> status[i], dated |-> dated[i]]
        BY <2>0, <3>0, <3>1 DEF Load, Inv, TypeOK, SessState
      <4>2. sess[s].wrote[i] = NoChange /\ UNCHANGED <<status, dated, blocks>>
        BY <3>1 DEF Load
      <4>3. \A t \in Sessions, k \in Items : Sound(t, k)'
        BY <3>0, <4>1, <4>2 DEF SerialInv, Sound, StatusIn, DatedIn
      <4>4. OpenIsUndated' BY <4>2 DEF SerialInv, OpenIsUndated
      <4> QED BY <3>0, <4>1, <4>2, <4>3, <4>4 DEF SerialInv
    <3>2. ASSUME NEW i \in Items, NEW to \in Statuses, Create(s, i, to) PROVE SerialInv'
      <4>1. \A t \in Sessions, k \in Items : sess[t].wrote[k] = NoChange /\ sess[t].at = "idle"
        BY <3>0, <3>2 DEF Create, SerialInv
      <4>2. status[i] = "absent" /\ ~dated[i]
        BY <2>0, <3>2 DEF Create, SerialInv, OpenIsUndated, Inv, TypeOK, Terminal
      <4>3. OpenIsUndated' BY <2>0, <3>2, <4>2 DEF Create, SerialInv, OpenIsUndated, Inv, TypeOK
      <4>4. sess' = sess BY <3>2 DEF Create
      <4>5. \A t \in Sessions, k \in Items : Sound(t, k)'
        BY <4>1, <4>3, <4>4 DEF Sound, StatusIn, DatedIn, StatusAfter, DatedAfter, NoChange,
              OpenIsUndated
      <4> QED BY <4>1, <4>3, <4>4, <4>5 DEF SerialInv
    <3>3. ASSUME NEW i \in Items, NEW j \in Items,
                 CreateRelationship(s, i, j) \/ DeleteRelationship(s, i, j)
          PROVE  SerialInv'
      <4>1. UNCHANGED <<status, dated, sess>>
        BY <3>3 DEF CreateRelationship, DeleteRelationship
      <4> QED BY <4>1 DEF SerialInv, OpenIsUndated, Sound, StatusIn, DatedIn
    <3>4. ASSUME NEW to \in Open, ApplyTransition(s, to) PROVE SerialInv'
      <4> DEFINE ch == IF to = sess[s].seen.status THEN NoChange
                       ELSE [status |-> to,
                             dated |-> IF sess[s].seen.status \in Terminal THEN ClearDate(s)
                                       ELSE "same"]
      <4>1. Flush(s, ch, "moved") /\ sess[s].at = "loaded" /\ to # "same"
        BY <3>4 DEF ApplyTransition, Open
      <4>2. DatedAfter(ch, dated[sess[s].item]) =>
                StatusAfter(ch, status[sess[s].item]) \in Terminal
        BY <3>a, <4>1 DEF DatedAfter, StatusAfter, NoChange, ClearDate
      <4>3. StatusAfter(ch, status[sess[s].item]) # status[sess[s].item] =>
               <<status[sess[s].item], StatusAfter(ch, status[sess[s].item])>> \in Transitions
        BY <3>a, <3>4, <4>1 DEF ApplyTransition, ValidTransition, StatusAfter, NoChange
      <4>4. ch \in Change BY DEF Change, NoChange, ClearDate, Statuses
      <4> HIDE DEF ch
      <4> QED BY <4>1, <4>2, <4>3, <4>4, FlushKeepsSerialInv
    <3>5. ASSUME NEW to \in Terminal, CloseItem(s, to) PROVE SerialInv'
      <4> DEFINE ch == [status |-> IF to = sess[s].seen.status THEN "same" ELSE to,
                        dated |-> "set"]
      <4>1. /\ Flush(s, ch, "flushed") /\ sess[s].at \in {"loaded", "again"} /\ to # "same"
            /\ ValidTransition(sess[s].seen.status, to)
        BY <3>5 DEF CloseItem, Terminal
      <4>2. StatusAfter(ch, status[sess[s].item]) = to BY <3>a, <4>1 DEF StatusAfter
      <4>3. StatusAfter(ch, status[sess[s].item]) # status[sess[s].item] =>
               <<status[sess[s].item], StatusAfter(ch, status[sess[s].item])>> \in Transitions
        BY <3>a, <4>1, <4>2 DEF ValidTransition
      <4>4. ch \in Change BY DEF Change, Statuses
      <4> HIDE DEF ch
      <4> QED BY <4>1, <4>2, <4>3, <4>4, FlushKeepsSerialInv
    <3>6. CASE ReopenItem(s)
      <4> DEFINE ch == [status |-> "backlog", dated |-> ClearDate(s)]
      <4>1. /\ Flush(s, ch, "moved") /\ sess[s].at = "loaded"
            /\ sess[s].seen.status \in Terminal
        BY <3>6 DEF ReopenItem
      <4>2. StatusAfter(ch, status[sess[s].item]) = "backlog" BY DEF StatusAfter
      <4>3. ~DatedAfter(ch, dated[sess[s].item]) BY <3>a, <4>1 DEF DatedAfter, ClearDate
      <4>4. <<status[sess[s].item], "backlog">> \in Transitions
        BY <3>a, <4>1 DEF Transitions, Terminal
      <4>5. ch \in Change BY DEF Change, ClearDate, Statuses, Open
      <4> HIDE DEF ch
      <4> QED BY <4>1, <4>2, <4>3, <4>4, <4>5, FlushKeepsSerialInv
    <3>7. CASE SkipReference(s) \/ ReportUnblocked(s)
      <4>1. /\ sess'[s].at = "closed" /\ sess'[s].wrote = sess[s].wrote
            /\ UNCHANGED <<status, dated>>
        BY <2>0, <3>0, <3>7 DEF SkipReference, ReportUnblocked, Inv, TypeOK, SessState
      <4>2. \A t \in Sessions, k \in Items : Sound(t, k)'
        BY <3>0, <4>1 DEF SerialInv, Sound, StatusIn, DatedIn
      <4> QED BY <3>0, <4>1, <4>2 DEF SerialInv, OpenIsUndated
    <3>8. CASE Commit(s) \/ Rollback(s)
      <4>1. sess'[s] = Idle BY <2>0, <3>8 DEF Commit, Rollback, Inv, TypeOK
      <4>2. OpenIsUndated'
        BY <3>8, <3>0 DEF Commit, Rollback, SerialInv, OpenIsUndated, Sound
      <4>3. Idle.at = "idle" /\ \A i \in Items : Idle.wrote[i] = NoChange BY DEF Idle
      <4>4. \A t \in Sessions, k \in Items : Sound(t, k)'
        BY <3>0, <4>1, <4>2, <4>3 DEF Sound, StatusIn, DatedIn, StatusAfter, DatedAfter, NoChange,
              OpenIsUndated
      <4> QED BY <3>0, <4>1, <4>2, <4>3, <4>4 DEF SerialInv
    <3> QED BY <2>2, <3>1, <3>2, <3>3, <3>4, <3>5, <3>6, <3>7, <3>8 DEF SessionStep
  <2> QED BY <2>1, <2>2 DEF Next
<1> QED BY <1>1, <1>2, LifecycleInductive, PTL DEF Spec

(* An open item has no closing date, when requests come one at a time. *)
THEOREM SerialOpenIsUndated ==
    ASSUME OneAtATime
    PROVE  Spec => []OpenIsUndated
<1>1. SerialInv => OpenIsUndated BY DEF SerialInv
<1> QED BY <1>1, SerialInductive, PTL

(* With their types, that is all the soundness of the rows there is to     *)
(* have, when requests come one at a time.                                 *)
THEOREM SerialItemsAreSound ==
    ASSUME OneAtATime
    PROVE  Spec => []ItemsAreSound
<1>1. SerialInv => ItemsAreSound BY DEF SerialInv, Inv, ItemsAreSound
<1> QED BY <1>1, SerialInductive, PTL

(* Every move of a row is one the lifecycle allows, when requests come one *)
(* at a time.                                                              *)
THEOREM SerialLegalMoves ==
    ASSUME OneAtATime
    PROVE  Spec => LegalMoves
<1>1. SerialInv /\ [Next]_vars =>
        [\A i \in Items : Exists(i) /\ status'[i] # status[i]
                            => <<status[i], status'[i]>> \in Transitions]_vars
  <2> SUFFICES ASSUME SerialInv, [Next]_vars, NEW i \in Items, Exists(i),
                      status'[i] # status[i]
               PROVE  <<status[i], status'[i]>> \in Transitions
    OBVIOUS
  <2>1. PICK s \in Sessions : SessionStep(s) BY DEF Next, vars
  <2>2. ~\E k \in Items, to \in Statuses : Create(s, k, to)
    BY DEF Create, Exists, SerialInv, Inv, TypeOK
  <2>3. Commit(s)
    BY <2>1, <2>2 DEF SessionStep, Load, CreateRelationship, DeleteRelationship,
          ApplyTransition, CloseItem, ReopenItem, Flush, SkipReference, ReportUnblocked, Rollback
  <2>4. status'[i] = StatusIn(s, i) /\ Sound(s, i) BY <2>3 DEF Commit, SerialInv
  <2> QED BY <2>4 DEF Sound
<1> QED BY <1>1, SerialInductive, PTL DEF Spec, LegalMoves

(***************************************************************************)
(* What a closing reports.  Between its flush and its query the items it   *)
(* unblocks are those the query will find; afterwards they are reported.   *)
(***************************************************************************)
BlockedIn(s, t) ==
    /\ StatusIn(s, t) \in Open
    /\ \E b \in Items : <<b, t>> \in blocks /\ StatusIn(s, b) \in Open

Found(s, t) == sess[s].at = "flushed" /\ t \in UnblockedBy(s, sess[s].item)

ReportInv ==
    /\ SerialInv
    /\ \A s \in Sessions : sess[s].at \in {"idle", "loaded", "moved"} => sess[s].report = {}
    /\ \A s \in Sessions : sess[s].at = "flushed" => StatusIn(s, sess[s].item) \in Terminal
    /\ \A s \in Sessions, t \in Items : t \in sess[s].report => ~BlockedIn(s, t)
    /\ \A s \in Sessions, t \in Items :
            Blocked(t) /\ StatusIn(s, t) \in Open /\ ~BlockedIn(s, t)
                => t \in sess[s].report \/ Found(s, t)

(* A session without pending changes reads what is committed. *)
LEMMA CleanSession ==
    ASSUME NEW s \in Sessions, \A i \in Items : sess[s].wrote[i] = NoChange
    PROVE  /\ \A i \in Items : StatusIn(s, i) = status[i]
           /\ \A t \in Items : BlockedIn(s, t) <=> Blocked(t)
<1>1. \A i \in Items : StatusIn(s, i) = status[i] BY DEF StatusIn, StatusAfter, NoChange
<1> QED BY <1>1 DEF BlockedIn, Blocked

LEMMA ReportInductive ==
    ASSUME OneAtATime
    PROVE  Spec => []ReportInv
<1>1. Init /\ SerialInv => ReportInv
  <2> SUFFICES ASSUME Init, SerialInv PROVE ReportInv OBVIOUS
  <2>1. \A s \in Sessions : sess[s] = Idle /\ Idle.at = "idle" /\ Idle.report = {}
    BY DEF Init, Idle
  <2>2. \A s \in Sessions, t \in Items : BlockedIn(s, t) <=> Blocked(t)
    BY <2>1, CleanSession DEF SerialInv
  <2> QED BY <2>1, <2>2 DEF ReportInv
<1>2. ReportInv /\ SerialInv' /\ [Next]_vars => ReportInv'
  <2> SUFFICES ASSUME ReportInv, SerialInv', [Next]_vars PROVE ReportInv' OBVIOUS
  <2>0. SerialInv /\ Inv BY DEF ReportInv, SerialInv
  <2>1. CASE UNCHANGED vars
    BY <2>1 DEF vars, ReportInv, StatusIn, BlockedIn, Blocked, Found, UnblockedBy
  <2>2. ASSUME NEW s \in Sessions, SessionStep(s) PROVE ReportInv'
    <3>0. sess[s] \in SessState /\ \A t \in Sessions : t = s
      BY <2>0 DEF Inv, TypeOK, OneAtATime
    (* It is enough to look at the session that moves. *)
    <3>a. ASSUME
            sess'[s].at \in {"idle", "loaded", "moved"} => sess'[s].report = {},
            sess'[s].at = "flushed" => StatusIn(s, sess[s].item)' \in Terminal,
            \A t \in Items : t \in sess'[s].report => ~BlockedIn(s, t)',
            \A t \in Items : Blocked(t)' /\ StatusIn(s, t)' \in Open /\ ~BlockedIn(s, t)'
                  => t \in sess'[s].report \/ Found(s, t)'
          PROVE ReportInv'
      BY <3>0, <3>a DEF ReportInv
    <3>1. ASSUME NEW i \in Items, Load(s, i) PROVE ReportInv'
      <4>1. /\ sess'[s].at = IF sess[s].at = "idle" THEN "loaded" ELSE "again"
            /\ sess'[s].wrote = sess[s].wrote /\ sess'[s].report = sess[s].report
            /\ sess[s].at \in {"idle", "closed"}
            /\ status' = status /\ blocks' = blocks
        BY <2>0, <3>0, <3>1 DEF Load, Inv, TypeOK, SessState
      <4>2. /\ \A k \in Items : StatusIn(s, k)' = StatusIn(s, k)
            /\ \A k \in Items : BlockedIn(s, k)' <=> BlockedIn(s, k)
            /\ \A k \in Items : Blocked(k)' <=> Blocked(k)
        BY <4>1 DEF StatusIn, BlockedIn, Blocked
      <4>3. \A t \in Items : ~Found(s, t) BY <4>1 DEF Found
      <4> QED BY <3>a, <4>1, <4>2, <4>3 DEF ReportInv
    (* Idle before and after: nothing is pending, nothing is reported. *)
    <3>2. ASSUME sess' = sess, sess[s].at = "idle" PROVE ReportInv'
      <4>1. \A i \in Items : sess'[s].wrote[i] = NoChange BY <3>2, <2>0 DEF SerialInv
      <4>a. \A i \in Items : StatusIn(s, i)' = status'[i]
        BY <4>1 DEF StatusIn, StatusAfter, NoChange
      <4>2. \A t \in Items : BlockedIn(s, t)' <=> Blocked(t)'
        BY <4>a DEF BlockedIn, Blocked
      <4>3. sess'[s].report = {} /\ sess'[s].at = "idle" BY <3>2 DEF ReportInv
      <4> QED BY <3>a, <4>2, <4>3
    (* A move or a reopening leaves its item open: nothing is unblocked. *)
    <3>3. ASSUME NEW ch \in Change, Flush(s, ch, "moved"), sess[s].at = "loaded",
                 StatusAfter(ch, status[sess[s].item]) \in Open
          PROVE  ReportInv'
      <4>1. /\ sess'[s].at = "moved" /\ sess'[s].report = sess[s].report
            /\ sess'[s].wrote[sess[s].item] = ch
            /\ \A k \in Items : k # sess[s].item => sess'[s].wrote[k] = sess[s].wrote[k]
            /\ status' = status /\ blocks' = blocks
        BY <2>0, <3>3, FlushEffect
      <4>2. \A k \in Items : sess[s].wrote[k] = NoChange BY <2>0, <3>3 DEF SerialInv
      <4>3. \A k \in Items : status[k] \in Open => StatusIn(s, k)' \in Open
        BY <3>3, <4>1, <4>2 DEF StatusIn, StatusAfter, NoChange
      <4>4. \A t \in Items : Blocked(t)' => BlockedIn(s, t)'
        BY <4>1, <4>3 DEF Blocked, BlockedIn
      <4>5. sess'[s].report = {} BY <3>3, <4>1 DEF ReportInv
      <4> QED BY <3>a, <4>1, <4>4, <4>5
    <3>4. ASSUME NEW to \in Terminal, CloseItem(s, to) PROVE ReportInv'
      <4> DEFINE ch == [status |-> IF to = sess[s].seen.status THEN "same" ELSE to,
                        dated |-> "set"]
      <4>1. /\ Flush(s, ch, "flushed") /\ sess[s].at \in {"loaded", "again"} /\ to # "same"
            /\ ch \in Change
        BY <3>4 DEF CloseItem, Terminal, Change, Statuses
      <4>0. PICK i \in Items : i = sess[s].item BY <2>0, <4>1 DEF Inv
      <4>a. sess[s].seen = [status |-> status[sess[s].item], dated |-> dated[sess[s].item]]
        BY <2>0, <4>1 DEF SerialInv
      <4>b. sess[s].seen.status = status[i] BY <4>0, <4>a
      <4>2. StatusAfter(ch, status[i]) = to
        BY <4>1, <4>b DEF StatusAfter
      <4> HIDE DEF ch
      <4>3. /\ sess'[s].at = "flushed" /\ sess'[s].item = i /\ sess'[s].report = sess[s].report
            /\ sess'[s].wrote[i] = ch /\ i \in Items
            /\ \A k \in Items : k # i => sess'[s].wrote[k] = sess[s].wrote[k]
            /\ status' = status /\ blocks' = blocks
        BY <2>0, <4>0, <4>1, FlushEffect
      <4>4. /\ StatusIn(s, i)' = to /\ to \notin Open
            /\ \A k \in Items : k # i => StatusIn(s, k)' = StatusIn(s, k)
        BY <4>2, <4>3 DEF StatusIn, Open, Terminal
      <4>5. \A t \in Items : BlockedIn(s, t)' => BlockedIn(s, t)
        BY <4>3, <4>4 DEF BlockedIn
      <4>6. ASSUME NEW t \in Items, Blocked(t)', StatusIn(s, t)' \in Open, ~BlockedIn(s, t)'
            PROVE  t \in sess'[s].report \/ Found(s, t)'
        <5>1. t # i /\ StatusIn(s, t) \in Open /\ Blocked(t)
          BY <4>3, <4>4, <4>6 DEF Blocked
        <5>2. CASE ~BlockedIn(s, t)
          BY <4>1, <4>3, <5>1, <5>2 DEF ReportInv, Found
        <5>3. CASE BlockedIn(s, t)
          <6>1. ~\E b \in Items \ {i} : <<b, t>> \in blocks' /\ StatusIn(s, b)' \in Open
            BY <4>6 DEF BlockedIn
          <6>2. <<i, t>> \in blocks'
            BY <4>3, <4>4, <5>3, <6>1 DEF BlockedIn
          <6> QED BY <4>3, <4>6, <6>1, <6>2 DEF Found, UnblockedBy
        <5> QED BY <5>2, <5>3
      <4>7. \A t \in Items : t \in sess'[s].report => ~BlockedIn(s, t)'
        BY <4>3, <4>5 DEF ReportInv
      <4>8. StatusIn(s, sess[s].item)' \in Terminal BY <4>0, <4>3, <4>4
      <4> QED BY <3>a, <4>3, <4>6, <4>7, <4>8
    <3>5. CASE SkipReference(s)
      <4>1. /\ sess'[s].at = "closed" /\ sess'[s].wrote = sess[s].wrote
            /\ sess'[s].report = sess[s].report /\ sess[s].at = "again"
            /\ status' = status /\ blocks' = blocks
        BY <2>0, <3>0, <3>5 DEF SkipReference, Inv, TypeOK, SessState
      <4>2. /\ \A k \in Items : StatusIn(s, k)' = StatusIn(s, k)
            /\ \A k \in Items : BlockedIn(s, k)' <=> BlockedIn(s, k)
            /\ \A k \in Items : Blocked(k)' <=> Blocked(k)
        BY <4>1 DEF StatusIn, BlockedIn, Blocked
      <4>3. \A t \in Items : ~Found(s, t) BY <4>1 DEF Found
      <4> QED BY <3>a, <4>1, <4>2, <4>3 DEF ReportInv
    <3>6. CASE ReportUnblocked(s)
      <4> DEFINE found == UnblockedBy(s, sess[s].item)
      <4>1. /\ sess'[s].at = "closed" /\ sess'[s].wrote = sess[s].wrote
            /\ sess'[s].report = sess[s].report \cup found /\ sess[s].at = "flushed"
            /\ status' = status /\ blocks' = blocks
        BY <2>0, <3>0, <3>6 DEF ReportUnblocked, Inv, TypeOK, SessState
      <4>2. /\ \A k \in Items : StatusIn(s, k)' = StatusIn(s, k)
            /\ \A k \in Items : BlockedIn(s, k)' <=> BlockedIn(s, k)
            /\ \A k \in Items : Blocked(k)' <=> Blocked(k)
        BY <4>1 DEF StatusIn, BlockedIn, Blocked
      <4>3. \A t \in Items : Found(s, t) => t \in found BY DEF Found
      <4>4. \A t \in found : ~BlockedIn(s, t)
        BY <4>1 DEF UnblockedBy, BlockedIn, ReportInv, Open, Terminal
      <4> HIDE DEF found
      <4> QED BY <3>a, <4>1, <4>2, <4>3, <4>4 DEF ReportInv
    <3>7. CASE Commit(s) \/ Rollback(s)
      <4>1. sess'[s] = Idle BY <2>0, <3>7 DEF Commit, Rollback, Inv, TypeOK
      <4>2. Idle.at = "idle" /\ Idle.report = {} /\ \A i \in Items : Idle.wrote[i] = NoChange
        BY DEF Idle
      <4>a. \A i \in Items : StatusIn(s, i)' = status'[i]
        BY <4>1, <4>2 DEF StatusIn, StatusAfter, NoChange
      <4>3. \A t \in Items : BlockedIn(s, t)' <=> Blocked(t)'
        BY <4>a DEF BlockedIn, Blocked
      <4> QED BY <3>a, <4>1, <4>2, <4>3
    <3>8. ASSUME NEW to \in Open, ApplyTransition(s, to) PROVE ReportInv'
      <4> DEFINE ch == IF to = sess[s].seen.status THEN NoChange
                       ELSE [status |-> to,
                             dated |-> IF sess[s].seen.status \in Terminal THEN ClearDate(s)
                                       ELSE "same"]
      <4>1. Flush(s, ch, "moved") /\ sess[s].at = "loaded" /\ to # "same"
        BY <3>8 DEF ApplyTransition, Open
      <4>2. ch \in Change BY DEF Change, NoChange, ClearDate, Statuses
      <4>a. sess[s].seen = [status |-> status[sess[s].item], dated |-> dated[sess[s].item]]
        BY <2>0, <4>1 DEF SerialInv
      <4>b. sess[s].seen.status = status[sess[s].item] BY <4>a
      <4>3. StatusAfter(ch, status[sess[s].item]) = to
        BY <4>1, <4>b DEF StatusAfter, NoChange
      <4> HIDE DEF ch
      <4> QED BY <3>3, <4>1, <4>2, <4>3
    <3>9. CASE ReopenItem(s)
      <4> DEFINE ch == [status |-> "backlog", dated |-> ClearDate(s)]
      <4>1. Flush(s, ch, "moved") /\ sess[s].at = "loaded" BY <3>9 DEF ReopenItem
      <4>2. ch \in Change /\ StatusAfter(ch, status[sess[s].item]) \in Open
        BY DEF Change, ClearDate, StatusAfter, Statuses, Open
      <4> HIDE DEF ch
      <4> QED BY <3>3, <4>1, <4>2
    <3> QED
      BY <2>2, <3>1, <3>2, <3>4, <3>5, <3>6, <3>7, <3>8, <3>9
      DEF SessionStep, Create, CreateRelationship, DeleteRelationship
  <2> QED BY <2>1, <2>2 DEF Next
<1> QED BY <1>1, <1>2, SerialInductive, PTL DEF Spec

(* A closing that ends the last block of an item reports it, when requests *)
(* come one at a time.                                                     *)
THEOREM SerialNoMissedUnblock ==
    ASSUME OneAtATime
    PROVE  Spec => NoMissedUnblock
<1>1. ReportInv /\ [Next]_vars =>
        [\A s \in Sessions, t \in Items :
            Commit(s) /\ Blocked(t) /\ ~Blocked(t)' /\ status'[t] \in Open
                => t \in sess[s].report]_vars
  <2> SUFFICES ASSUME ReportInv, NEW s \in Sessions, NEW t \in Items,
                      Commit(s), Blocked(t), ~Blocked(t)', status'[t] \in Open
               PROVE  t \in sess[s].report
    OBVIOUS
  <2>1. \A k \in Items : status'[k] = StatusIn(s, k) BY DEF Commit
  <2>2. blocks' = blocks /\ sess[s].at # "flushed" BY DEF Commit
  <2>3. StatusIn(s, t) \in Open /\ ~BlockedIn(s, t) BY <2>1, <2>2 DEF Blocked, BlockedIn
  <2> QED BY <2>2, <2>3 DEF ReportInv, Found
<1> QED BY <1>1, ReportInductive, PTL DEF Spec, NoMissedUnblock

(* What a closing reports as unblocked is unblocked once it commits, when  *)
(* requests come one at a time.                                            *)
THEOREM SerialNoFalseUnblock ==
    ASSUME OneAtATime
    PROVE  Spec => NoFalseUnblock
<1>1. ReportInv /\ [Next]_vars =>
        [\A s \in Sessions, t \in Items :
            Commit(s) /\ t \in sess[s].report => ~Blocked(t)']_vars
  <2> SUFFICES ASSUME ReportInv, NEW s \in Sessions, NEW t \in Items,
                      Commit(s), t \in sess[s].report
               PROVE  ~Blocked(t)'
    OBVIOUS
  <2>1. \A k \in Items : status'[k] = StatusIn(s, k) BY DEF Commit
  <2>2. blocks' = blocks BY DEF Commit
  <2>3. ~BlockedIn(s, t) BY DEF ReportInv
  <2> QED BY <2>1, <2>2, <2>3 DEF Blocked, BlockedIn
<1> QED BY <1>1, ReportInductive, PTL DEF Spec, NoFalseUnblock
=============================================================================
