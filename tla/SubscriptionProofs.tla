------------------------- MODULE SubscriptionProofs -------------------------
(***************************************************************************)
(* The mirror and the limits of an account, for any number of webhooks,    *)
(* requests, contracts and events, delivered in any order and any number   *)
(* of times.                                                               *)
(***************************************************************************)
EXTENDS Subscription, FiniteSetTheorems, TLAPS

Reads == {"delivered", "editing", "counting", "granted"}

(* Events have times of their own, the later the newer, and the last event *)
(* of a contract tells how it stands.                                      *)
PaddleInv ==
    /\ IsFiniteSet(sent)
    /\ \A e \in sent : e.at <= Now
    /\ \A e, f \in sent : e.at = f.at => e = f
    /\ \A e \in sent : e.status # "absent" /\ paddle[e.contract].status # "absent"
    /\ \A e \in sent : e.status = "canceled" => paddle[e.contract].status = "canceled"
    /\ \A c \in Contracts : paddle[c].status # "absent" => paddle[c].plan \in PaidPlans
    /\ \A c \in Contracts : paddle[c].status = "canceled" =>
          \E e \in sent : e.contract = c /\ e.status = "canceled"
    /\ \A e, f \in sent : e.contract = f.contract /\ e.status = "canceled" => f.at <= e.at

(* The cancellation of the contract that is shown is yet to come, or too late. *)
Awaited ==
    \A e \in sent : e.contract = mirror.contract /\ e.status = "canceled" =>
        e.at > mirror.eventAt \/ Overtaken(e)

MirrorInv ==
    /\ mirror.exists => mirror.plan \in Plans
    /\ ~mirror.exists => mirror = NoRow
    /\ mirror.eventAt <= Now
    /\ mirror.contract # None => paddle[mirror.contract].status # "absent"
    /\ \A e \in acked : e.at <= mirror.eventAt
    /\ Awaited

(* A session knows the row it holds as it is, and holds the row that there *)
(* is; without a row it saw that there was none.                           *)
Fits(x) ==
    /\ x.at \in Reads => IF x.seen.exists THEN x.seen = mirror /\ mirror.exists
                         ELSE x.seen = NoRow /\ ~mirror.original
    /\ x.at = "delivered" => x.event \in sent
    /\ x.at = "counting" => LimitFor(x.seen, x.kind) # Unlimited
    /\ x.at \in {"counting", "granted"} /\ x.seen.exists => x.seen.status = "active"
    /\ x.at = "granted" /\ x.seen.exists /\ mirror.original =>
          LimitFor(x.seen, x.kind) = Unlimited \/ used[x.kind] < LimitFor(x.seen, x.kind)

SessInv ==
    /\ \A s \in Sessions : Fits(sess[s])
    /\ \A s, t \in Sessions : Locks(s) /\ Locks(t) => s = t

IInv == TypeOK /\ PaddleInv /\ MirrorInv /\ SessInv

-----------------------------------------------------------------------------
(* What a session is from where it is. *)
LEMMA SessFields ==
    ASSUME NEW x \in SessState
    PROVE  /\ x.at \in {"idle", "asking"} \cup Reads
           /\ x.at = "idle" => x = Idle
           /\ x.at \in Reads => x.seen \in Row
           /\ x.at = "delivered" => x.event \in Event
           /\ x.at \in {"counting", "granted"} => x.kind \in Kinds
BY DEF SessState, Idle, Reads

LEMMA IdleFits == Fits(Idle) /\ Idle \in SessState
BY DEF Fits, Idle, Reads, SessState

LEMMA RowTyped == NoRow \in Row
BY SubscriptionAssumption DEF NoRow, Row, Statuses

LEMMA NowIsNat == IsFiniteSet(sent) => Now \in Nat
BY FS_CardinalityType DEF Now

(* The limit is a number or none. *)
LEMMA LimitTyped ==
    ASSUME NEW r \in Row, r.exists => r.plan \in Plans, NEW k \in Kinds
    PROVE  LimitFor(r, k) \in Nat \cup {Unlimited}
BY SubscriptionAssumption DEF LimitFor, Plans

LEMMA AppliedTyped ==
    ASSUME TypeOK, NEW seen \in Row, NEW e \in Event, e.status # "absent"
    PROVE  Applied(seen, e) \in Row /\ Applied(seen, e).plan \in Plans
<1>1. StatusOf(e.status) \in Statuses
  BY DEF Event, PaddleStatuses, StatusOf, Statuses
<1>2. e.at \in 0..MaxTime /\ e.contract \in Contracts /\ e.plan \in Plans
  BY SubscriptionAssumption DEF Event, Times, Plans
<1>3. "active" \in Statuses /\ "free" \in Plans
  BY DEF Statuses, Plans
<1> QED BY <1>1, <1>2, <1>3 DEF Applied, Row

-----------------------------------------------------------------------------
(* A step that moves one session and nothing else. *)
LEMMA SessionMoves ==
    ASSUME IInv, NEW s \in Sessions, NEW x \in SessState,
           sess' = [sess EXCEPT ![s] = x], UNCHANGED <<mirror, used, paddle, sent, acked>>,
           Fits(x),
           x.at \in Reads /\ x.seen.exists => \A t \in Sessions : Locks(t) => t = s
    PROVE  IInv'
<1>1. TypeOK'
  BY DEF IInv, TypeOK
<1>2. PaddleInv' /\ MirrorInv'
  BY DEF IInv, PaddleInv, MirrorInv, Awaited, Overtaken, Now
<1>3. \A t \in Sessions : sess'[t] = IF t = s THEN x ELSE sess[t]
  BY DEF IInv, TypeOK
<1>4. ASSUME NEW t \in Sessions PROVE Fits(sess[t])'
  BY <1>3 DEF IInv, SessInv, Fits, LimitFor
<1>5. ASSUME NEW t \in Sessions, NEW u \in Sessions, Locks(t)', Locks(u)' PROVE t = u
  BY <1>3, <1>5 DEF IInv, SessInv, Locks, Reads
<1> QED BY <1>1, <1>2, <1>4, <1>5 DEF IInv, SessInv

(* The row may be read when nobody holds it. *)
LEMMA Readable ==
    ASSUME IInv, NEW s \in Sessions, CanRead(s)
    PROVE  /\ IF mirror.exists THEN TRUE ELSE mirror = NoRow /\ ~mirror.original
           /\ mirror.exists => \A t \in Sessions : Locks(t) => t = s
           /\ mirror \in Row
BY DEF IInv, TypeOK, CanRead, MirrorInv, NoRow

LEMMA DeliverSafe ==
    ASSUME IInv, NEW h \in Hooks, NEW e \in sent, Deliver(h, e)
    PROVE  IInv'
<1> DEFINE x == [at |-> "delivered", event |-> e, seen |-> mirror]
<1>1. h \in Sessions /\ e \in Event /\ CanRead(h)
  BY DEF Sessions, Deliver, IInv, TypeOK
<1>2. x \in SessState
  BY <1>1 DEF SessState, IInv, TypeOK
<1>3. Fits(x)
  BY <1>1, Readable DEF Fits, Reads
<1> QED BY <1>1, <1>2, <1>3, SessionMoves, Readable DEF Deliver

LEMMA FailSafe ==
    ASSUME IInv, NEW s \in Sessions, Fail(s)
    PROVE  IInv'
<1>1. ~(Idle.at \in Reads)
  BY DEF Idle, Reads
<1> QED BY <1>1, IdleFits, SessionMoves DEF Fail, End

LEMMA EnsureCapacitySafe ==
    ASSUME IInv, NEW r \in Requests, NEW k \in Kinds, EnsureCapacity(r, k)
    PROVE  IInv'
<1> DEFINE x == [at |-> IF LimitFor(mirror, k) = Unlimited THEN "granted" ELSE "counting",
                 kind |-> k, seen |-> mirror]
<1>1. r \in Sessions /\ CanRead(r) /\ CanLogIn
  BY DEF Sessions, EnsureCapacity
<1>2. x \in SessState
  BY <1>1, Readable DEF SessState
<1>3. Fits(x)
  BY <1>1, Readable DEF Fits, Reads, CanLogIn
<1> QED BY <1>1, <1>2, <1>3, SessionMoves, Readable DEF EnsureCapacity

LEMMA CountSafe ==
    ASSUME IInv, NEW r \in Requests, Count(r)
    PROVE  IInv'
<1> DEFINE y == sess[r]
           k == y.kind
           x == [y EXCEPT !.at = "granted"]
<1>1. r \in Sessions /\ y \in SessState /\ y.at = "counting" /\ k \in Kinds /\ y.seen \in Row
  BY SessFields DEF Sessions, Count, IInv, TypeOK, Reads
<1>2. CASE used[k] >= Limit[y.seen.plan][k]
  <2>1. sess' = [sess EXCEPT ![r] = Idle]
    BY <1>2 DEF Count
  <2> QED BY <1>1, <2>1, IdleFits, SessionMoves DEF Count, Idle, Reads
<1>3. CASE ~(used[k] >= Limit[y.seen.plan][k])
  <2>1. sess' = [sess EXCEPT ![r] = x]
    BY <1>3 DEF Count
  <2>2. y \in [at : {"counting", "granted"}, kind : Kinds, seen : Row]
    BY <1>1 DEF SessState, Idle
  <2>3. x \in SessState /\ x.at = "granted" /\ x.kind = k /\ x.seen = y.seen
    BY <2>2 DEF SessState
  <2>4. Fits(y)
    BY <1>1 DEF IInv, SessInv
  <2>5. y.seen.exists => y.seen.plan \in Plans
    BY <2>4, <1>1 DEF Fits, Reads, IInv, MirrorInv
  <2>6. LimitFor(y.seen, k) \in Nat
    BY <2>4, <2>5, <1>1, LimitTyped DEF Fits
  <2>7. LimitFor(y.seen, k) = Limit[y.seen.plan][k]
    BY <2>4, <1>1 DEF Fits, LimitFor
  <2>8. used[k] \in Nat
    BY <1>1 DEF IInv, TypeOK
  <2>9. used[k] < LimitFor(x.seen, x.kind)
    BY <1>3, <2>3, <2>6, <2>7, <2>8
  <2>10. Fits(x)
    BY <2>3, <2>4, <2>9, <1>1 DEF Fits, Reads
  <2>11. x.seen.exists => \A t \in Sessions : Locks(t) => t = r
    BY <2>3, <1>1 DEF IInv, SessInv, Locks
  <2> QED BY <1>1, <2>1, <2>3, <2>10, <2>11, SessionMoves DEF Count
<1> QED BY <1>2, <1>3

LEMMA OpenUpdateSafe ==
    ASSUME IInv, NEW r \in Requests, OpenUpdate(r)
    PROVE  IInv'
<1> DEFINE x == [at |-> "editing", seen |-> mirror]
<1>1. r \in Sessions /\ CanRead(r)
  BY DEF Sessions, OpenUpdate
<1>2. x \in SessState
  BY <1>1, Readable DEF SessState
<1>3. Fits(x)
  BY <1>1, Readable DEF Fits, Reads
<1> QED BY <1>1, <1>2, <1>3, SessionMoves, Readable DEF OpenUpdate

LEMMA OpenBillingSafe ==
    ASSUME IInv, NEW r \in Requests, OpenBilling(r)
    PROVE  IInv'
<1> DEFINE x == [at |-> "asking", contract |-> mirror.contract]
<1>1. r \in Sessions /\ mirror \in Row
  BY DEF Sessions, IInv, TypeOK
<1>2. x \in SessState
  BY <1>1 DEF SessState, Row
<1>3. Fits(x) /\ ~(x.at \in Reads)
  BY DEF Fits, Reads
<1> QED BY <1>1, <1>2, <1>3, SessionMoves DEF OpenBilling
-----------------------------------------------------------------------------
(* A resource is added within the limit of the row as it is. *)
LEMMA InsertGrows ==
    ASSUME IInv, NEW r \in Requests, Insert(r)
    PROVE  /\ IInv'
           /\ \A k \in Kinds : mirror.original /\ used'[k] > used[k] =>
                /\ mirror.status = "active"
                /\ LimitFor(mirror, k) = Unlimited \/ used'[k] <= LimitFor(mirror, k)
<1> DEFINE y == sess[r]
           k == y.kind
<1>1. r \in Sessions /\ y \in SessState /\ y.at = "granted" /\ k \in Kinds /\ y.seen \in Row
  BY SessFields DEF Sessions, Insert, IInv, TypeOK, Reads
<1>2. used' = [used EXCEPT ![k] = @ + 1] /\ used[k] \in Nat /\ used[k] < MaxUsed
  BY <1>1 DEF Insert, IInv, TypeOK
<1>3. Fits(y)
  BY <1>1 DEF IInv, SessInv
<1>4. mirror.original => y.seen = mirror /\ mirror.exists
  BY <1>1, <1>3 DEF Fits, Reads
<1>5. mirror.original => LimitFor(mirror, k) = Unlimited \/ used[k] < LimitFor(mirror, k)
  BY <1>1, <1>3, <1>4 DEF Fits
<1>6. mirror.exists => LimitFor(mirror, k) \in Nat \cup {Unlimited}
  BY <1>1, LimitTyped DEF IInv, MirrorInv, TypeOK
<1>7. TypeOK'
  BY <1>1, <1>2, IdleFits, SubscriptionAssumption DEF Insert, End, IInv, TypeOK
<1>8. PaddleInv' /\ MirrorInv'
  BY DEF Insert, IInv, PaddleInv, MirrorInv, Awaited, Overtaken, Now
<1>9. \A t \in Sessions : sess'[t] = IF t = r THEN Idle ELSE sess[t]
  BY <1>1 DEF Insert, End, IInv, TypeOK
<1>10. ASSUME NEW t \in Sessions PROVE Fits(sess[t])'
  <2>1. CASE t = r
    BY <2>1, <1>9, IdleFits DEF Fits, Idle, Reads
  <2>2. CASE t # r
    <3>1. sess'[t] = sess[t] /\ sess[t] \in SessState /\ Fits(sess[t])
      BY <2>2, <1>9 DEF IInv, SessInv, TypeOK
    <3>2. ~(sess[t].at = "granted" /\ sess[t].seen.exists /\ mirror.original)
      BY <2>2, <1>1, <1>4 DEF IInv, SessInv, Locks
    <3> QED BY <3>1, <3>2 DEF Fits, Insert, LimitFor
  <2> QED BY <2>1, <2>2
<1>11. ASSUME NEW t \in Sessions, NEW u \in Sessions, Locks(t)', Locks(u)' PROVE t = u
  BY <1>9, <1>11 DEF IInv, SessInv, Locks, Idle
<1>12. ASSUME NEW j \in Kinds, mirror.original, used'[j] > used[j]
       PROVE  /\ mirror.status = "active"
              /\ LimitFor(mirror, j) = Unlimited \/ used'[j] <= LimitFor(mirror, j)
  <2>1. j = k /\ used'[j] = used[k] + 1
    BY <1>1, <1>2, <1>12 DEF IInv, TypeOK
  <2>2. mirror.status = "active"
    BY <1>1, <1>3, <1>4, <1>12 DEF Fits
  <2> QED BY <2>1, <2>2, <1>2, <1>4, <1>5, <1>6, <1>12
<1> QED BY <1>7, <1>8, <1>10, <1>11, <1>12 DEF IInv, SessInv

LEMMA RevokeSafe ==
    ASSUME IInv, NEW k \in Kinds, RevokeApiToken(k)
    PROVE  IInv' /\ \A j \in Kinds : ~(used'[j] > used[j])
<1>1. \A j \in Kinds : used[j] \in 0..MaxUsed /\ used'[j] = IF j = k THEN used[j] - 1 ELSE used[j]
  BY DEF RevokeApiToken, IInv, TypeOK
<1>2. used[k] > 0 /\ used' \in [Kinds -> 0..MaxUsed]
  BY <1>1, SubscriptionAssumption DEF RevokeApiToken, IInv, TypeOK
<1>3. \A j \in Kinds : used'[j] <= used[j] /\ used[j] \in Nat /\ used'[j] \in Nat
  BY <1>1, <1>2, SubscriptionAssumption
<1>4. TypeOK'
  BY <1>2 DEF RevokeApiToken, IInv, TypeOK
<1>5. PaddleInv' /\ MirrorInv'
  BY DEF RevokeApiToken, IInv, PaddleInv, MirrorInv, Awaited, Overtaken, Now
<1>6. ASSUME NEW t \in Sessions PROVE Fits(sess[t])'
  <2> DEFINE x == sess[t]
  <2>1. x \in SessState /\ Fits(x) /\ UNCHANGED <<mirror, sess, sent>>
    BY DEF RevokeApiToken, IInv, SessInv, TypeOK
  <2>2. x.at = "granted" /\ x.seen.exists /\ mirror.original =>
          LimitFor(x.seen, x.kind) = Unlimited \/ used'[x.kind] < LimitFor(x.seen, x.kind)
    <3> SUFFICES ASSUME x.at = "granted", x.seen.exists, mirror.original
                 PROVE  LimitFor(x.seen, x.kind) = Unlimited \/ used'[x.kind] < LimitFor(x.seen, x.kind)
      OBVIOUS
    <3>1. x.kind \in Kinds /\ x.seen = mirror /\ mirror.plan \in Plans /\ mirror \in Row
      BY <2>1, SessFields DEF Fits, Reads, IInv, MirrorInv, TypeOK
    <3>2. LimitFor(x.seen, x.kind) \in Nat \cup {Unlimited}
      BY <3>1, LimitTyped
    <3> QED BY <2>1, <3>1, <3>2, <1>3 DEF Fits
  <2> QED BY <2>1, <2>2 DEF Fits, LimitFor
<1>7. ASSUME NEW t \in Sessions, NEW u \in Sessions, Locks(t)', Locks(u)' PROVE t = u
  BY <1>7 DEF RevokeApiToken, IInv, SessInv, Locks
<1> QED BY <1>3, <1>4, <1>5, <1>6, <1>7 DEF IInv, SessInv

-----------------------------------------------------------------------------
(* The session that holds the row, or found none, writes it and ends. *)
LEMMA WriteMirror ==
    ASSUME IInv, NEW s \in Sessions, sess[s].at \in Reads,
           sess[s].seen.exists \/ ~mirror.exists,
           mirror' \in Row, mirror'.original = mirror.original,
           End(s), UNCHANGED <<used, sent>>
    PROVE  sess' \in [Sessions -> SessState] /\ SessInv'
<1>1. \A t \in Sessions : sess'[t] = IF t = s THEN Idle ELSE sess[t]
  BY DEF End, IInv, TypeOK
<1>2. sess' \in [Sessions -> SessState]
  BY IdleFits DEF End, IInv, TypeOK
<1>3. Fits(sess[s]) /\ \A t \in Sessions : Fits(sess[t])
  BY DEF IInv, SessInv
<1>4. ASSUME NEW t \in Sessions PROVE Fits(sess[t])'
  <2>1. CASE t = s
    BY <2>1, <1>1 DEF Fits, Idle, Reads
  <2>2. CASE t # s
    <3>1. sess'[t] = sess[t] /\ Fits(sess[t])
      BY <2>2, <1>1, <1>3
    <3>2. ~(sess[t].at \in Reads /\ sess[t].seen.exists)
      <4> SUFFICES ASSUME sess[t].at \in Reads, sess[t].seen.exists PROVE FALSE
        OBVIOUS
      <4>1. mirror.exists /\ Locks(t)
        BY <3>1 DEF Fits, Locks, Reads
      <4>2. Locks(s)
        BY <4>1 DEF Locks, Reads
      <4> QED BY <4>1, <4>2, <2>2 DEF IInv, SessInv
    <3> QED BY <3>1, <3>2 DEF Fits, LimitFor, Reads
  <2> QED BY <2>1, <2>2
<1>5. ASSUME NEW t \in Sessions, NEW u \in Sessions, Locks(t)', Locks(u)' PROVE t = u
  BY <1>1, <1>5 DEF IInv, SessInv, Locks, Idle
<1> QED BY <1>2, <1>4, <1>5 DEF SessInv

LEMMA UpdateSafe ==
    ASSUME IInv, NEW r \in Requests, NEW plan \in Plans, NEW status \in Statuses,
           UpdateSubscription(r, plan, status)
    PROVE  IInv' /\ UNCHANGED <<used, mirror.eventAt>>
<1>1. r \in Sessions /\ sess[r].at \in Reads /\ mirror \in Row
  BY DEF Sessions, UpdateSubscription, Reads, IInv, TypeOK
<1>2. mirror' = [mirror EXCEPT !.exists = TRUE, !.plan = plan, !.status = status, !.byPaddle = FALSE]
  BY DEF UpdateSubscription
<1>3. mirror' \in Row /\ mirror'.exists /\ mirror'.plan \in Plans
  BY <1>1, <1>2 DEF Row
<1>4. /\ mirror'.original = mirror.original
      /\ mirror'.eventAt = mirror.eventAt /\ mirror'.contract = mirror.contract
  BY <1>1, <1>2 DEF Row
<1>5. UNCHANGED <<used, paddle, sent, acked>> /\ End(r) /\ (sess[r].seen.exists \/ ~mirror.exists)
  BY DEF UpdateSubscription
<1>6. sess' \in [Sessions -> SessState] /\ SessInv'
  BY <1>1, <1>3, <1>4, <1>5, WriteMirror
<1>7. TypeOK' /\ PaddleInv'
  BY <1>3, <1>5, <1>6 DEF IInv, TypeOK, PaddleInv, Now
<1>8. MirrorInv'
  BY <1>3, <1>4, <1>5 DEF IInv, MirrorInv, Awaited, Overtaken, Now
<1> QED BY <1>4, <1>5, <1>6, <1>7, <1>8 DEF IInv

(* An event is applied once, and only to an older row. *)
LEMMA ApplySafe ==
    ASSUME IInv, NEW h \in Hooks, ApplyPaddleSubscription(h)
    PROVE  /\ IInv' /\ UNCHANGED used
           /\ \/ mirror'.eventAt = mirror.eventAt
              \/ mirror'.eventAt > mirror.eventAt /\ mirror'.eventAt \in Times
<1> DEFINE y == sess[h]
           seen == y.seen
           e == y.event
           clash == ~seen.exists /\ mirror.exists
           late == seen.exists /\ Stale(seen, e)
<1>1. h \in Sessions /\ y \in SessState /\ y.at = "delivered" /\ y.at \in Reads
  BY DEF Sessions, ApplyPaddleSubscription, IInv, TypeOK, Reads
<1>2. Fits(y) /\ e \in Event /\ seen \in Row
  BY <1>1, SessFields DEF IInv, SessInv, Reads
<1>3. e \in sent /\ e.status # "absent" /\ e.at \in Times /\ e.contract \in Contracts
  BY <1>1, <1>2 DEF Fits, IInv, PaddleInv, Event
<1>4. IF seen.exists THEN seen = mirror /\ mirror.exists ELSE seen = NoRow /\ ~mirror.original
  BY <1>1, <1>2 DEF Fits
<1>5. End(h) /\ UNCHANGED <<used, paddle, sent>>
  BY DEF ApplyPaddleSubscription
<1>6. PaddleInv'
  BY <1>5 DEF IInv, PaddleInv, Now
<1>7. CASE clash \/ late
  <2>1. mirror' = mirror /\ acked' = IF clash THEN acked ELSE acked \cup {e}
    BY <1>7 DEF ApplyPaddleSubscription
  <2>2. sess' = [sess EXCEPT ![h] = Idle]
    BY DEF ApplyPaddleSubscription, End
  <2>3. TypeOK'
    BY <1>3, <1>5, <2>1, <2>2, IdleFits DEF IInv, TypeOK
  <2>4. \A t \in Sessions : sess'[t] = IF t = h THEN Idle ELSE sess[t]
    BY <2>2 DEF IInv, TypeOK
  <2>5. ASSUME NEW t \in Sessions PROVE Fits(sess[t])'
    BY <1>5, <2>1, <2>4 DEF IInv, SessInv, Fits, LimitFor, Idle, Reads
  <2>6. ASSUME NEW t \in Sessions, NEW u \in Sessions, Locks(t)', Locks(u)' PROVE t = u
    BY <2>4, <2>6 DEF IInv, SessInv, Locks, Idle
  <2>7. ~clash => e.at <= mirror.eventAt
    BY <1>4, <1>7 DEF Stale
  <2>8. MirrorInv'
    BY <1>5, <2>1, <2>7 DEF IInv, MirrorInv, Awaited, Overtaken, Now
  <2> QED BY <1>5, <1>6, <2>1, <2>3, <2>5, <2>6, <2>8 DEF IInv, SessInv
<1>8. CASE ~clash /\ ~late
  <2> DEFINE m == Applied(seen, e)
  <2>1. mirror' = m /\ acked' = acked \cup {e}
    BY <1>8 DEF ApplyPaddleSubscription
  <2>2. m \in Row /\ m.plan \in Plans
    BY <1>2, <1>3, AppliedTyped DEF IInv
  <2>3. m.exists /\ m.eventAt = e.at /\ m.original = seen.original
    BY DEF Applied
  <2>4. seen.exists \/ ~mirror.exists
    BY <1>8
  <2>5. /\ seen.exists => seen = mirror
        /\ ~seen.exists => seen = NoRow /\ mirror = NoRow
    BY <1>4, <2>4 DEF IInv, MirrorInv
  <2>6. seen = mirror
    BY <2>5
  <2>7. mirror.eventAt \in Nat /\ e.at \in Nat /\ e.at > 0
    BY <1>3, SubscriptionAssumption DEF IInv, TypeOK, Row, Times
  <2>8. e.at > mirror.eventAt
    <3>1. CASE seen.exists BY <3>1, <1>8, <2>6, <2>7 DEF Stale
    <3>2. CASE ~seen.exists BY <3>2, <2>5, <2>7 DEF NoRow
    <3> QED BY <3>1, <3>2
  <2>9. sess' \in [Sessions -> SessState] /\ SessInv'
    BY <1>1, <1>5, <2>1, <2>2, <2>3, <2>4, <2>6, WriteMirror
  <2>10. TypeOK'
    BY <1>3, <1>5, <2>1, <2>2, <2>9 DEF IInv, TypeOK
  <2>11. \A a \in acked : a.at \in Nat /\ a.at <= mirror.eventAt
    BY SubscriptionAssumption DEF IInv, TypeOK, MirrorInv, Event, Times
  <2>12. \A a \in acked' : a.at <= m.eventAt
    BY <2>1, <2>3, <2>7, <2>8, <2>11
  <2>13. \/ m.contract = e.contract /\ e.status # "canceled"
         \/ m.contract = mirror.contract /\ mirror.contract # e.contract
         \/ m.contract = None
    BY <2>6 DEF Applied
  <2>14. m.contract # None => paddle[m.contract].status # "absent"
    BY <1>3, <2>13 DEF IInv, PaddleInv, MirrorInv
  <2>15. ASSUME NEW f \in sent, f.contract = m.contract, f.status = "canceled"
         PROVE  f.at > m.eventAt \/ Overtaken(f)
    <3>1. f.at \in Nat /\ f.contract \in Contracts
      BY SubscriptionAssumption DEF IInv, TypeOK, Event, Times
    <3>2. f.at = e.at => f = e
      BY <1>3 DEF IInv, PaddleInv
    <3>3. CASE m.contract = e.contract /\ e.status # "canceled"
      <4>1. e.at <= f.at
        BY <3>3, <2>15, <1>3 DEF IInv, PaddleInv
      <4> QED BY <3>1, <3>2, <3>3, <4>1, <2>3, <2>7, <2>15
    <3>4. CASE mirror.contract # e.contract /\ m.contract = mirror.contract
      BY <3>1, <3>2, <3>4, <1>3, <2>3, <2>7, <2>15 DEF Overtaken
    <3>5. CASE m.contract = None
      BY <3>1, <3>5, <2>15, SubscriptionAssumption
    <3> QED BY <3>3, <3>4, <3>5, <2>13
  <2>16. MirrorInv'
    BY <1>3, <1>5, <2>1, <2>2, <2>3, <2>12, <2>14, <2>15
       DEF IInv, PaddleInv, MirrorInv, Awaited, Overtaken, Now
  <2> QED BY <1>3, <1>5, <1>6, <2>1, <2>3, <2>8, <2>9, <2>10, <2>16 DEF IInv
<1> QED BY <1>7, <1>8

-----------------------------------------------------------------------------
(* Paddle and the billing screen, which leave the row alone. *)
LEMMA PaddleMoves ==
    ASSUME IInv, UNCHANGED <<mirror, used, acked>>, sent \subseteq sent',
           sess' = sess \/ \E r \in Requests : End(r),
           paddle' \in [Contracts -> Contract], sent' \subseteq Event, PaddleInv', MirrorInv'
    PROVE  IInv'
<1>1. sess' \in [Sessions -> SessState] /\ \A t \in Sessions : sess'[t] \in {sess[t], Idle}
  BY IdleFits DEF End, Sessions, IInv, TypeOK
<1>2. TypeOK'
  BY <1>1 DEF IInv, TypeOK
<1>3. ASSUME NEW t \in Sessions PROVE Fits(sess[t])'
  BY <1>1 DEF IInv, SessInv, Fits, LimitFor, Idle, Reads
<1>4. ASSUME NEW t \in Sessions, NEW u \in Sessions, Locks(t)', Locks(u)' PROVE t = u
  <2>1. sess'[t] = sess[t] /\ sess'[u] = sess[u]
    BY <1>1, <1>4 DEF Locks, Idle
  <2> QED BY <2>1, <1>4 DEF IInv, SessInv, Locks
<1> QED BY <1>2, <1>3, <1>4 DEF IInv, SessInv

(* A contract that had not ended changes, and the event that tells it is   *)
(* the newest.                                                             *)
LEMMA TellSafe ==
    ASSUME IInv, NEW c \in Contracts, NEW new \in Contract, Tell(c, new),
           new.status # "absent", new.plan \in PaidPlans, paddle[c].status # "canceled",
           sess' = sess \/ \E r \in Requests : End(r), UNCHANGED <<mirror, used, acked>>
    PROVE  IInv'
<1> DEFINE e == [at |-> Now + 1, contract |-> c, plan |-> new.plan, status |-> new.status]
<1>1. sent' = sent \cup {e} /\ paddle' = [paddle EXCEPT ![c] = new] /\ Now < MaxTime
  BY DEF Tell
<1>2. IsFiniteSet(sent) /\ Now \in Nat /\ \A f \in sent : f.at <= Now /\ f.at \in Nat
  BY NowIsNat, SubscriptionAssumption DEF IInv, PaddleInv, TypeOK, Event, Times
<1>3. e \notin sent
  BY <1>2
<1>4. IsFiniteSet(sent') /\ Now' = Now + 1
  BY <1>1, <1>2, <1>3, FS_AddElement DEF Now
<1>5. \A d \in Contracts : paddle'[d] = IF d = c THEN new ELSE paddle[d]
  BY <1>1 DEF IInv, TypeOK
<1>6. e \in Event
  BY <1>1, <1>2, SubscriptionAssumption DEF Event, Contract, Times
<1>7. \A f \in sent : f.contract \in Contracts /\ (f.contract = c => f.status # "canceled")
  BY DEF IInv, PaddleInv, TypeOK, Event
<1>8. PaddleInv'
  <2>1. \A f \in sent' : f.at <= Now'
    BY <1>1, <1>2, <1>4
  <2>2. \A f, g \in sent' : f.at = g.at => f = g
    BY <1>1, <1>2 DEF IInv, PaddleInv
  <2>3. \A f \in sent' : f.status # "absent" /\ paddle'[f.contract].status # "absent"
    BY <1>1, <1>5, <1>7 DEF IInv, PaddleInv
  <2>4. \A f \in sent' : f.status = "canceled" => paddle'[f.contract].status = "canceled"
    BY <1>1, <1>5, <1>7 DEF IInv, PaddleInv
  <2>5. \A d \in Contracts : paddle'[d].status # "absent" => paddle'[d].plan \in PaidPlans
    BY <1>5 DEF IInv, PaddleInv
  <2>6. \A d \in Contracts : paddle'[d].status = "canceled" =>
           \E f \in sent' : f.contract = d /\ f.status = "canceled"
    <3> SUFFICES ASSUME NEW d \in Contracts, paddle'[d].status = "canceled"
                 PROVE  \E f \in sent' : f.contract = d /\ f.status = "canceled"
      OBVIOUS
    <3>1. CASE d = c
      <4>1. e \in sent' /\ e.contract = d /\ e.status = "canceled"
        BY <3>1, <1>1, <1>5
      <4> QED BY <4>1
    <3>2. CASE d # c
      BY <3>2, <1>1, <1>5 DEF IInv, PaddleInv
    <3> QED BY <3>1, <3>2
  <2>7. \A f, g \in sent' : f.contract = g.contract /\ f.status = "canceled" => g.at <= f.at
    BY <1>1, <1>2, <1>7 DEF IInv, PaddleInv
  <2> QED BY <1>4, <2>1, <2>2, <2>3, <2>4, <2>5, <2>6, <2>7 DEF PaddleInv
<1>9. mirror.eventAt \in Nat /\ mirror.eventAt <= Now /\ mirror.contract \in Contracts \cup {None}
  BY SubscriptionAssumption DEF IInv, TypeOK, Row, MirrorInv
<1>10. Awaited'
  <2> SUFFICES ASSUME NEW f \in sent', f.contract = mirror.contract, f.status = "canceled"
               PROVE  f.at > mirror.eventAt \/ Overtaken(f)'
    BY DEF Awaited
  <2>1. CASE f = e BY <2>1, <1>2, <1>9
  <2>2. CASE f \in sent BY <2>2, <1>1 DEF IInv, MirrorInv, Awaited, Overtaken
  <2> QED BY <2>1, <2>2, <1>1
<1>11. MirrorInv'
  BY <1>2, <1>4, <1>5, <1>9, <1>10 DEF IInv, MirrorInv
<1>12. paddle' \in [Contracts -> Contract] /\ sent' \subseteq Event /\ sent \subseteq sent'
  BY <1>1, <1>6 DEF IInv, TypeOK
<1> QED BY <1>8, <1>11, <1>12, PaddleMoves

LEMMA CheckoutSafe ==
    ASSUME IInv, NEW r \in Requests, NEW c \in Contracts, NEW plan \in PaidPlans,
           Checkout(r, c, plan) \/ BillingChange(r, c, plan)
    PROVE  IInv'
<1>1. CASE Checkout(r, c, plan)
  <2> DEFINE new == [status |-> "active", plan |-> plan, leaving |-> FALSE]
  <2>1. new \in Contract /\ Tell(c, new) /\ paddle[c].status # "canceled"
    BY <1>1 DEF Checkout, Contract, PaddleStatuses
  <2> QED BY <1>1, <2>1, TellSafe DEF Checkout
<1>2. CASE BillingChange(r, c, plan)
  <2> DEFINE new == [paddle[c] EXCEPT !.plan = plan]
  <2>1. Tell(c, new) /\ Live(c) /\ paddle[c] \in Contract
    BY <1>2 DEF BillingChange, Asks, IInv, TypeOK
  <2>2. new \in Contract /\ new.plan = plan /\ new.status = paddle[c].status
    BY <2>1 DEF Contract
  <2>3. new.status # "absent" /\ paddle[c].status # "canceled"
    BY <2>1, <2>2 DEF Live
  <2> QED BY <1>2, <2>1, <2>2, <2>3, TellSafe DEF BillingChange
<1> QED BY <1>1, <1>2

LEMMA LeavingSafe ==
    ASSUME IInv, NEW r \in Requests, NEW c \in Contracts,
           BillingCancel(r, c) \/ BillingResume(r, c)
    PROVE  IInv'
<1>1. PICK b \in BOOLEAN : paddle' = [paddle EXCEPT ![c].leaving = b]
  BY DEF BillingCancel, BillingResume
<1>2. UNCHANGED <<mirror, used, acked, sent>> /\ End(r)
  BY DEF BillingCancel, BillingResume
<1>3. paddle' \in [Contracts -> Contract]
  BY <1>1 DEF IInv, TypeOK, Contract
<1>4. \A d \in Contracts : paddle'[d].status = paddle[d].status /\ paddle'[d].plan = paddle[d].plan
  BY <1>1 DEF IInv, TypeOK, Contract
<1>5. \A f \in sent : f.contract \in Contracts
  BY DEF IInv, TypeOK, Event
<1>6. PaddleInv'
  BY <1>2, <1>4, <1>5 DEF IInv, PaddleInv, Now
<1>7. mirror.contract \in Contracts \cup {None}
  BY DEF IInv, TypeOK, Row
<1>8. MirrorInv'
  BY <1>2, <1>4, <1>7 DEF IInv, MirrorInv, Awaited, Overtaken, Now
<1> QED BY <1>2, <1>3, <1>6, <1>8, PaddleMoves DEF IInv, TypeOK

LEMMA PaddleActsSafe ==
    ASSUME IInv, NEW c \in Contracts, PaddleActs(c)
    PROVE  IInv'
<1>1. PICK status \in {"active", "past_due", "paused", "canceled"} :
         Tell(c, [paddle[c] EXCEPT !.status = status])
  BY DEF PaddleActs
<1> DEFINE new == [paddle[c] EXCEPT !.status = status]
<1>2. Live(c) /\ paddle[c] \in Contract
  BY DEF PaddleActs, IInv, TypeOK
<1>3. new \in Contract /\ new.status = status /\ new.plan = paddle[c].plan
  BY <1>2 DEF Contract, PaddleStatuses
<1>4. new.plan \in PaidPlans /\ new.status # "absent" /\ paddle[c].status # "canceled"
  BY <1>2, <1>3 DEF Live, IInv, PaddleInv
<1> QED BY <1>1, <1>3, <1>4, TellSafe DEF PaddleActs

-----------------------------------------------------------------------------
LEMMA FirstRow ==
    ASSUME Init
    PROVE  /\ mirror \in Row /\ mirror.eventAt = 0 /\ mirror.contract = None
           /\ mirror.exists => mirror.plan \in Plans
<1> DEFINE new == NewRow("free")
<1>1. new \in Row /\ new.eventAt = 0 /\ new.contract = None /\ new.plan \in Plans
  BY RowTyped, SubscriptionAssumption DEF NewRow, NoRow, Row, Plans
<1>2. NoRow \in Row /\ NoRow.eventAt = 0 /\ NoRow.contract = None /\ ~NoRow.exists
  BY RowTyped DEF NoRow
<1>3. mirror = NoRow \/ mirror = new
  BY DEF Init
<1> HIDE DEF new
<1>4. CASE mirror = NoRow BY <1>2, <1>4
<1>5. CASE mirror = new BY <1>1, <1>5
<1> QED BY <1>3, <1>4, <1>5

LEMMA InitInv == Init => IInv
<1> SUFFICES ASSUME Init PROVE IInv
  OBVIOUS
<1>1. mirror \in Row /\ mirror.eventAt = 0 /\ mirror.contract = None
  BY FirstRow
<1>2. mirror.exists => mirror.plan \in Plans
  BY FirstRow
<1>3. ~mirror.exists => mirror = NoRow
  BY DEF Init, NewRow, NoRow
<1>4. sent = {} /\ acked = {} /\ IsFiniteSet(sent) /\ Now = 0
  BY FS_EmptySet DEF Init, Now
<1>5. \A s \in Sessions : sess[s] = Idle
  BY DEF Init
<1>6. TypeOK
  BY <1>1, IdleFits, SubscriptionAssumption
     DEF Init, TypeOK, Contract, NoContract, PaddleStatuses
<1>7. PaddleInv
  BY <1>4 DEF Init, PaddleInv, NoContract
<1>8. MirrorInv
  BY <1>1, <1>2, <1>3, <1>4 DEF MirrorInv, Awaited
<1>9. SessInv
  BY <1>5, IdleFits DEF SessInv, Locks, Idle
<1> QED BY <1>6, <1>7, <1>8, <1>9 DEF IInv

(* What a step does: it preserves the invariant, adds a resource only      *)
(* within the plan, and shows the event it showed or a newer one.          *)
Grows ==
    \A k \in Kinds : mirror.original /\ used'[k] > used[k] =>
        /\ mirror.status = "active"
        /\ LimitFor(mirror, k) = Unlimited \/ used'[k] <= LimitFor(mirror, k)

Shows ==
    \/ mirror'.eventAt = mirror.eventAt
    \/ mirror'.eventAt > mirror.eventAt /\ mirror'.eventAt \in Times

LEMMA NothingGrows ==
    ASSUME IInv, UNCHANGED used
    PROVE  Grows
BY SubscriptionAssumption DEF Grows, IInv, TypeOK

LEMMA StepSafe ==
    ASSUME IInv, [Next]_vars
    PROVE  IInv' /\ Grows /\ Shows
<1>1. CASE UNCHANGED vars
  <2>1. TypeOK' /\ PaddleInv'
    BY <1>1 DEF vars, IInv, TypeOK, PaddleInv, Now
  <2>2. MirrorInv'
    BY <1>1 DEF vars, IInv, MirrorInv, Awaited, Overtaken, Now
  <2>3. SessInv'
    BY <1>1 DEF vars, IInv, SessInv, Fits, Locks, LimitFor
  <2> QED BY <1>1, <2>1, <2>2, <2>3, NothingGrows DEF vars, IInv, Shows
<1>2. ASSUME NEW h \in Hooks, HookStep(h) PROVE IInv' /\ Grows /\ Shows
  <2>1. CASE \E e \in sent : Deliver(h, e)
    BY <2>1, DeliverSafe, NothingGrows DEF Deliver, Shows
  <2>2. CASE ApplyPaddleSubscription(h)
    BY <2>2, ApplySafe, NothingGrows DEF Shows
  <2>3. CASE Fail(h)
    BY <2>3, FailSafe, NothingGrows DEF Fail, Shows, Sessions
  <2> QED BY <1>2, <2>1, <2>2, <2>3 DEF HookStep
<1>3. ASSUME NEW r \in Requests, RequestStep(r) PROVE IInv' /\ Grows /\ Shows
  <2>1. CASE \E k \in Kinds : EnsureCapacity(r, k)
    BY <2>1, EnsureCapacitySafe, NothingGrows DEF EnsureCapacity, Shows
  <2>2. CASE Count(r)
    BY <2>2, CountSafe, NothingGrows DEF Count, Shows
  <2>3. CASE Insert(r)
    BY <2>3, InsertGrows DEF Insert, Shows, Grows
  <2>4. CASE OpenUpdate(r)
    BY <2>4, OpenUpdateSafe, NothingGrows DEF OpenUpdate, Shows
  <2>5. CASE \E plan \in Plans, status \in Statuses : UpdateSubscription(r, plan, status)
    BY <2>5, UpdateSafe, NothingGrows DEF Shows
  <2>6. CASE OpenBilling(r)
    BY <2>6, OpenBillingSafe, NothingGrows DEF OpenBilling, Shows
  <2>7. ASSUME NEW c \in Contracts, NEW plan \in PaidPlans,
               Checkout(r, c, plan) \/ BillingChange(r, c, plan)
        PROVE  IInv' /\ Grows /\ Shows
    BY <2>7, CheckoutSafe, NothingGrows DEF Checkout, BillingChange, Shows
  <2>8. ASSUME NEW c \in Contracts, BillingCancel(r, c) \/ BillingResume(r, c)
        PROVE  IInv' /\ Grows /\ Shows
    BY <2>8, LeavingSafe, NothingGrows DEF BillingCancel, BillingResume, Shows
  <2>9. CASE Fail(r)
    BY <2>9, FailSafe, NothingGrows DEF Fail, Shows, Sessions
  <2> QED BY <1>3, <2>1, <2>2, <2>3, <2>4, <2>5, <2>6, <2>7, <2>8, <2>9 DEF RequestStep
<1>4. ASSUME NEW k \in Kinds, RevokeApiToken(k) PROVE IInv' /\ Grows /\ Shows
  <2>1. Grows
    BY <1>4, RevokeSafe DEF Grows
  <2> QED BY <1>4, <2>1, RevokeSafe DEF RevokeApiToken, Shows
<1>5. ASSUME NEW c \in Contracts, PaddleActs(c) PROVE IInv' /\ Grows /\ Shows
  BY <1>5, PaddleActsSafe, NothingGrows DEF PaddleActs, Shows
<1> QED BY <1>1, <1>2, <1>3, <1>4, <1>5 DEF Next

LEMMA SubscriptionInductive == Spec => []IInv
<1>1. IInv /\ [Next]_vars => IInv'
  BY StepSafe
<1> QED BY <1>1, InitInv, PTL DEF Spec

(* Once every event is answered, the row names a contract that lives, or   *)
(* one whose end another contract overtook.                                *)
LEMMA InvGivesSound == IInv => MirrorIsSound
<1> SUFFICES ASSUME IInv, sent = acked, NEW c \in Contracts, mirror.contract = c, ~Live(c)
             PROVE  \E e \in sent : e.contract = c /\ e.status = "canceled" /\ Overtaken(e)
  BY DEF MirrorIsSound, NoDeadContract, IInv
<1>1. paddle[c].status = "canceled"
  BY SubscriptionAssumption DEF Live, IInv, TypeOK, MirrorInv, Contract, PaddleStatuses
<1>2. PICK e \in sent : e.contract = c /\ e.status = "canceled"
  BY <1>1 DEF IInv, PaddleInv
<1>3. e.at \in Nat /\ mirror.eventAt \in Nat /\ e.at <= mirror.eventAt
  BY <1>2, SubscriptionAssumption DEF IInv, TypeOK, MirrorInv, Event, Times, Row
<1>4. Overtaken(e)
  BY <1>2, <1>3 DEF IInv, MirrorInv, Awaited
<1> QED BY <1>2, <1>4

(* The row is typed and, once Paddle has every answer, names no contract   *)
(* that ended but one whose end was overtaken.                             *)
THEOREM SubscriptionMirrorIsSound == Spec => []MirrorIsSound
BY InvGivesSound, SubscriptionInductive, PTL

(* No interleaving of requests, webhooks and super-admin adds a resource   *)
(* beyond the limit of the plan that the account has at that moment.       *)
THEOREM SubscriptionGrowthWithinLimit == Spec => GrowthWithinLimit
<1>1. IInv /\ [Next]_vars =>
        [\A k \in Kinds : mirror.original /\ used'[k] > used[k] =>
            /\ mirror.status = "active"
            /\ LimitFor(mirror, k) = Unlimited \/ used'[k] <= LimitFor(mirror, k)]_vars
  BY StepSafe DEF Grows
<1> QED BY <1>1, SubscriptionInductive, PTL DEF Spec, GrowthWithinLimit

(* Lost, repeated and reordered as events are, the row implements the      *)
(* promise to show ever newer ones.                                        *)
THEOREM SubscriptionShowsNewestEvent == Spec => ShowsNewestEvent
<1>1. Init => Newest!Init
  BY FirstRow DEF Newest!Init
<1>2. IInv /\ [Next]_vars => [Newest!Next]_(mirror.eventAt)
  BY StepSafe DEF Shows, Newest!Next, Newest!Apply
<1> QED BY <1>1, <1>2, SubscriptionInductive, PTL DEF Spec, ShowsNewestEvent, Newest!Spec
=============================================================================
