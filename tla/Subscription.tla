---------------------------- MODULE Subscription ----------------------------
(***************************************************************************)
(* The subscription of one account: the mirror of what Paddle sold, which  *)
(* webhooks write, and the limits of the plan it shows, which every        *)
(* request that adds a project, a member or a token checks first           *)
(* (accounts/plans.py, billing/router.py, webhooks/router.py).             *)
(*                                                                         *)
(* Paddle keeps the contracts and tells of every change by an event, which *)
(* it delivers at least once, in any order, until it is answered 2xx.      *)
(* A row that exists is locked from its first read to the commit; a row    *)
(* that does not exist cannot be locked.                                   *)
(***************************************************************************)
EXTENDS Naturals, FiniteSets

CONSTANTS
    Contracts,   \* subscriptions at Paddle whose custom_data names the account
    Hooks,       \* sessions of the Paddle webhook
    Requests,    \* sessions of the owner and of the super-admin
    Kinds,       \* what a plan limits: projects, members, tokens
    PaidPlans,   \* the plans of the catalog
    Limit,       \* per plan and kind, how many
    Unlimited,   \* the limit of what a plan does not meter
    None,        \* a NULL column, a contract or a plan that is not there
    MaxTime,     \* bound: events of the account
    MaxUsed      \* bound: resources of a kind that is not metered

Sessions == Hooks \cup Requests

(* PLAN_CODES *)
Plans == {"free", "self_hosted"} \cup PaidPlans

(* SUBSCRIPTION_STATUSES *)
Statuses == {"active", "suspended", "canceled"}

Times == 1..MaxTime

ASSUME SubscriptionAssumption ==
    /\ Hooks \cap Requests = {}
    /\ MaxTime \in Nat /\ MaxUsed \in Nat
    /\ None \notin Contracts /\ None \notin Plans
    /\ {"free", "self_hosted"} \cap PaidPlans = {}
    /\ Limit \in [PaidPlans \cup {"free"} -> [Kinds -> Nat \cup {Unlimited}]]
    /\ Unlimited \notin Nat

VARIABLES
    mirror,   \* account_subscriptions
    used,     \* rows of each kind
    sess,     \* the transaction of each session
    paddle,   \* the contracts as Paddle has them
    sent,     \* events that Paddle sent
    acked     \* the events it had a 2xx for

vars == <<mirror, used, sess, paddle, sent, acked>>

Row == [exists : BOOLEAN, plan : Plans \cup {None}, status : Statuses,
        contract : Contracts \cup {None}, eventAt : 0..MaxTime,
        byPaddle : BOOLEAN,   \* observation: who wrote the plan last
        original : BOOLEAN]   \* observation: inserted with the account

NoRow == [exists |-> FALSE, plan |-> None, status |-> "active", contract |-> None,
          eventAt |-> 0, byPaddle |-> FALSE, original |-> FALSE]

(* A new account is free when it signs up and self-hosted otherwise;       *)
(* accounts older than the table have no row (add_subscription).           *)
NewRow(plan) == [NoRow EXCEPT !.exists = TRUE, !.plan = plan, !.original = TRUE]

(* A contract on trial is treated as an active one everywhere. *)
PaddleStatuses == {"absent", "active", "past_due", "paused", "canceled"}

Contract == [status : PaddleStatuses, plan : PaidPlans \cup {None}, leaving : BOOLEAN]

NoContract == [status |-> "absent", plan |-> None, leaving |-> FALSE]

(* PaddleSubscription, the event as parse_paddle_subscription reads it.    *)
Event == [at : Times, contract : Contracts, plan : PaidPlans, status : PaddleStatuses]

Idle == [at |-> "idle"]

SessState ==
    {Idle}
    \cup [at : {"delivered"}, event : Event, seen : Row]
    \cup [at : {"editing"}, seen : Row]
    \cup [at : {"counting", "granted"}, kind : Kinds, seen : Row]
    \cup [at : {"asking"}, contract : Contracts \cup {None}]

TypeOK ==
    /\ mirror \in Row
    /\ used \in [Kinds -> 0..MaxUsed]
    /\ sess \in [Sessions -> SessState]
    /\ paddle \in [Contracts -> Contract]
    /\ sent \subseteq Event
    /\ acked \subseteq sent

Init ==
    /\ mirror \in {NoRow, NewRow("free")}
    /\ used = [k \in Kinds |-> 0]
    /\ sess = [s \in Sessions |-> Idle]
    /\ paddle = [c \in Contracts |-> NoContract]
    /\ sent = {} /\ acked = {}

(***************************************************************************)
(* The locked row.                                                         *)
(***************************************************************************)

(* Only a row that a session saw can be locked by it. *)
Locks(s) == sess[s].at \in {"delivered", "editing", "counting", "granted"} /\ sess[s].seen.exists

(* Mutant of CanRead: the row is read without the lock. *)
ReadUnlocked(s) == sess[s] = Idle

(* subscription_for(for_update=True) waits for the lock, then reads. *)
CanRead(s) == sess[s] = Idle /\ (mirror.exists => \A t \in Sessions : ~Locks(t))

End(s) == sess' = [sess EXCEPT ![s] = Idle]

(* Sessions of a suspended account are refused (auth/service.py:48-60).    *)
CanLogIn == mirror.exists => mirror.status = "active"

(***************************************************************************)
(* Webhooks.                                                               *)
(***************************************************************************)

(* Mutant of StatusOf: the account of a retried payment is locked out. *)
StatusOfDunning(paddleStatus) ==
    IF paddleStatus = "past_due" THEN "suspended"
    ELSE IF paddleStatus = "paused" THEN "suspended"
    ELSE IF paddleStatus = "canceled" THEN "canceled" ELSE "active"

(* PADDLE_STATUS: a payment that is retried keeps its access. *)
StatusOf(paddleStatus) ==
    CASE paddleStatus \in {"active", "past_due"} -> "active"
      [] paddleStatus = "paused" -> "suspended"
      [] paddleStatus = "canceled" -> "canceled"

(* Paddle delivers e, perhaps again; the handler reads the row.            *)
Deliver(h, e) ==
    /\ CanRead(h)
    /\ e \in sent
    /\ sess' = [sess EXCEPT ![h] = [at |-> "delivered", event |-> e, seen |-> mirror]]
    /\ UNCHANGED <<mirror, used, paddle, sent, acked>>

(* Mutant of Stale: events are applied in the order they arrive. *)
NeverStale(seen, e) == FALSE

Stale(seen, e) == seen.eventAt >= e.at

(* Mutant of Applied: the id of a contract that ended is kept. *)
AppliedKeepsId(seen, e) ==
    [exists |-> TRUE,
     plan |-> IF e.status = "canceled" THEN "free" ELSE e.plan,
     status |-> IF e.status = "canceled" THEN "active" ELSE StatusOf(e.status),
     contract |-> e.contract,
     eventAt |-> e.at,
     byPaddle |-> TRUE,
     original |-> seen.original]

(* A contract that ended leaves the free plan behind, and the pointer of   *)
(* another contract alone.                                                 *)
Applied(seen, e) ==
    LET canceled == e.status = "canceled"
        other == seen.contract # e.contract
    IN [exists |-> TRUE,
        plan |-> IF canceled THEN "free" ELSE e.plan,
        status |-> IF canceled THEN "active" ELSE StatusOf(e.status),
        contract |-> IF ~canceled THEN e.contract
                     ELSE IF other THEN seen.contract ELSE None,
        eventAt |-> e.at,
        byPaddle |-> TRUE,
        original |-> seen.original]

(* Answered 2xx: the event is written, or is older than what is shown.     *)
(* Two sessions that saw no row both insert one; the unique account_id     *)
(* fails the second, whose event Paddle sends again.                       *)
ApplyPaddleSubscription(h) ==
    LET seen == sess[h].seen
        e == sess[h].event
        clash == ~seen.exists /\ mirror.exists
    IN
    /\ sess[h].at = "delivered"
    /\ mirror' = IF clash \/ (seen.exists /\ Stale(seen, e)) THEN mirror ELSE Applied(seen, e)
    /\ acked' = IF clash THEN acked ELSE acked \cup {e}
    /\ End(h)
    /\ UNCHANGED <<used, paddle, sent>>

(* The session is lost with its process, or its commit fails: no 2xx.      *)
Fail(s) ==
    /\ sess[s] # Idle
    /\ End(s)
    /\ UNCHANGED <<mirror, used, paddle, sent, acked>>

(***************************************************************************)
(* Limits.                                                                 *)
(***************************************************************************)

(* limits_for(active_plan_code()): no row is a private install. *)
LimitFor(row, k) ==
    IF row.exists /\ row.plan # "self_hosted" THEN Limit[row.plan][k] ELSE Unlimited

(* A suspended account is refused with a limit of 0. *)
EnsureCapacity(r, k) ==
    /\ CanRead(r) /\ CanLogIn
    /\ sess' = [sess EXCEPT ![r] =
          [at |-> IF LimitFor(mirror, k) = Unlimited THEN "granted" ELSE "counting",
           kind |-> k, seen |-> mirror]]
    /\ UNCHANGED <<mirror, used, paddle, sent, acked>>

(* The count is a statement of its own, under the lock. *)
Count(r) ==
    LET k == sess[r].kind IN
    /\ sess[r].at = "counting"
    /\ sess' = [sess EXCEPT ![r] =
          IF used[k] >= Limit[sess[r].seen.plan][k] THEN Idle ELSE [@ EXCEPT !.at = "granted"]]
    /\ UNCHANGED <<mirror, used, paddle, sent, acked>>

(* create_project, create_member, create_api_token insert and commit. *)
Insert(r) ==
    /\ sess[r].at = "granted"
    /\ used[sess[r].kind] < MaxUsed
    /\ used' = [used EXCEPT ![sess[r].kind] = @ + 1]
    /\ End(r)
    /\ UNCHANGED <<mirror, paddle, sent, acked>>

(* revoke_api_token needs no lock; projects and members are never removed. *)
RevokeApiToken(k) ==
    /\ k = "tokens" /\ CanLogIn /\ used[k] > 0
    /\ used' = [used EXCEPT ![k] = @ - 1]
    /\ UNCHANGED <<mirror, sess, paddle, sent, acked>>

(* The super-admin's form. *)
OpenUpdate(r) ==
    /\ CanRead(r)
    /\ sess' = [sess EXCEPT ![r] = [at |-> "editing", seen |-> mirror]]
    /\ UNCHANGED <<mirror, used, paddle, sent, acked>>

UpdateSubscription(r, plan, status) ==
    LET seen == sess[r].seen IN
    /\ sess[r].at = "editing"
    /\ ~seen.exists => ~mirror.exists   \* the unique account_id fails the INSERT
    /\ mirror' = [mirror EXCEPT !.exists = TRUE, !.plan = plan, !.status = status,
                                !.byPaddle = FALSE]
    /\ End(r)
    /\ UNCHANGED <<used, paddle, sent, acked>>

(***************************************************************************)
(* The billing screen, which writes nothing here, and Paddle.              *)
(***************************************************************************)

(* Every action takes the contract from the account's own row; the screen  *)
(* offers a checkout only when the row names none (has_subscription), and  *)
(* a self-hosted account has no screen.                                    *)
OpenBilling(r) ==
    /\ sess[r] = Idle /\ CanLogIn
    /\ mirror.exists /\ mirror.plan # "self_hosted"
    /\ sess' = [sess EXCEPT ![r] = [at |-> "asking", contract |-> mirror.contract]]
    /\ UNCHANGED <<mirror, used, paddle, sent, acked>>

Live(c) == paddle[c].status \in {"active", "past_due", "paused"}

Now == Cardinality(sent)

(* Paddle changes a contract and sends an event that tells the new state.  *)
Tell(c, new) ==
    /\ Now < MaxTime
    /\ paddle' = [paddle EXCEPT ![c] = new]
    /\ sent' = sent \cup {[at |-> Now + 1, contract |-> c, plan |-> new.plan,
                           status |-> new.status]}

Asks(r, c) == sess[r].at = "asking" /\ sess[r].contract = c /\ Live(c)

(* The customer pays in the checkout of a screen that offered one. *)
Checkout(r, c, plan) ==
    /\ sess[r].at = "asking" /\ sess[r].contract = None
    /\ paddle[c].status = "absent"
    /\ Tell(c, [status |-> "active", plan |-> plan, leaving |-> FALSE])
    /\ End(r)
    /\ UNCHANGED <<mirror, used, acked>>

BillingChange(r, c, plan) ==
    /\ Asks(r, c) /\ plan # paddle[c].plan
    /\ Tell(c, [paddle[c] EXCEPT !.plan = plan])
    /\ End(r)
    /\ UNCHANGED <<mirror, used, acked>>

(* A cancellation is scheduled; it takes effect when the period ends. *)
BillingCancel(r, c) ==
    /\ Asks(r, c)
    /\ paddle' = [paddle EXCEPT ![c].leaving = TRUE]
    /\ End(r)
    /\ UNCHANGED <<mirror, used, sent, acked>>

BillingResume(r, c) ==
    /\ Asks(r, c)
    /\ paddle' = [paddle EXCEPT ![c].leaving = FALSE]
    /\ End(r)
    /\ UNCHANGED <<mirror, used, sent, acked>>

(* The period ends, a payment fails or recovers, support pauses. *)
PaddleActs(c) ==
    /\ Live(c)
    /\ \/ paddle[c].leaving /\ Tell(c, [paddle[c] EXCEPT !.status = "canceled"])
       \/ \E status \in {"active", "past_due", "paused"} \ {paddle[c].status} :
             Tell(c, [paddle[c] EXCEPT !.status = status])
    /\ UNCHANGED <<mirror, used, sess, acked>>

HookStep(h) ==
    \/ \E e \in sent : Deliver(h, e)
    \/ ApplyPaddleSubscription(h)
    \/ Fail(h)

RequestStep(r) ==
    \/ \E k \in Kinds : EnsureCapacity(r, k)
    \/ Count(r)
    \/ Insert(r)
    \/ OpenUpdate(r)
    \/ \E plan \in Plans, status \in Statuses : UpdateSubscription(r, plan, status)
    \/ OpenBilling(r)
    \/ \E c \in Contracts :
          \/ \E plan \in PaidPlans : Checkout(r, c, plan) \/ BillingChange(r, c, plan)
          \/ BillingCancel(r, c)
          \/ BillingResume(r, c)
    \/ Fail(r)

Next ==
    \/ \E h \in Hooks : HookStep(h)
    \/ \E r \in Requests : RequestStep(r)
    \/ \E k \in Kinds : RevokeApiToken(k)
    \/ \E c \in Contracts : PaddleActs(c)

Spec == Init /\ [][Next]_vars

(* Paddle delivers an event until it is answered (webhooks/router.py:113), *)
(* PostgreSQL grants a row lock in the order of arrival, and a session     *)
(* ends: the pool, the statements and the lock waits have time-outs.       *)
Unanswered(t) == \E e \in sent \ acked : e.at = t /\ \E h \in Hooks : Deliver(h, e)

Answered(t) == \E h \in Hooks :
    sess[h].at = "delivered" /\ sess[h].event.at = t /\ ApplyPaddleSubscription(h)

Fairness ==
    /\ \A t \in Times : SF_vars(Unanswered(t)) /\ SF_vars(Answered(t))
    /\ \A s \in Sessions : WF_vars(Fail(s) \/ (s \in Requests /\ Insert(s)))

FairSpec == Spec /\ Fairness

(***************************************************************************)
(* Properties.                                                             *)
(***************************************************************************)

(* The mirror shows ever newer events, in whatever order they come         *)
(* (apply_paddle_subscription, plans.py:148-154).                          *)
Newest == INSTANCE NewestEvent WITH shown <- mirror.eventAt

ShowsNewestEvent == Newest!Spec

(* However requests interleave with each other, with the webhooks and with *)
(* the super-admin, a resource is added only to an account that is active  *)
(* and within the limit of the plan it has at that moment.  Accounts whose *)
(* row came later than they did are not held to it: a request that found   *)
(* no row has no lock and no limit (ensure_*_capacity, plans.py:229-268).  *)
GrowthWithinLimit ==
    [][\A k \in Kinds : mirror.original /\ used'[k] > used[k] =>
        /\ mirror.status = "active"
        /\ LimitFor(mirror, k) = Unlimited \/ used'[k] <= LimitFor(mirror, k)]_vars

(* Overtaken by an event of another contract, it is dropped as stale.      *)
Overtaken(e) == \E f \in sent : f.contract # e.contract /\ f.at > e.at

(* Once Paddle has an answer for every event, the row does not name a      *)
(* contract that ended, which the screen would offer changes of, unless    *)
(* the end was overtaken by news of another contract (plans.py:148-170).   *)
NoDeadContract ==
    sent = acked => \A c \in Contracts : mirror.contract = c =>
        Live(c) \/ \E e \in sent : e.contract = c /\ e.status = "canceled" /\ Overtaken(e)

(* The mirror is typed and, when all is said, names no dead contract but   *)
(* for that case.                                                          *)
MirrorIsSound == TypeOK /\ NoDeadContract

(* An account that only ever had one contract, and whose plan no person    *)
(* overrides, ends up with the plan and the status of that contract,       *)
(* whatever is lost, repeated or reordered on the way.                     *)
Mirrors(c) ==
    /\ \A d \in Contracts \ {c} : paddle[d].status = "absent"
    /\ paddle[c].status # "absent" /\ mirror.byPaddle
    => IF paddle[c].status = "canceled"
       THEN mirror.plan = "free" /\ mirror.contract = None
       ELSE /\ mirror.plan = paddle[c].plan /\ mirror.contract = c
            /\ mirror.status = "suspended" <=> paddle[c].status = "paused"

MirrorConverges == <>[](\A c \in Contracts : Mirrors(c))
=============================================================================
