---------------------------- MODULE SignInProofs ----------------------------
(***************************************************************************)
(* Tenants, identities and limits: for any number of requests, addresses,  *)
(* identities and replicas, no tenant is half made, no identity comes in   *)
(* as two users, and tokens, members and attempts stay below their limits. *)
(***************************************************************************)
EXTENDS SignIn, TLAPS, FiniteSetTheorems

(* The counter of a window that is not deleted yet covers what it let in. *)
RateInv ==
    /\ now \in 0..MaxNow
    /\ attempts \in [Keys -> [Starts -> Nat]] /\ allowed \in [Keys -> [Starts -> Nat]]
    /\ \A k \in Keys : \A t \in Starts :
          /\ allowed[k][t] <= Limit
          /\ ~Expired(t) => allowed[k][t] <= attempts[k][t]

Request == [
    stage : {"new", "asking", "unlinked", "looking", "unknown", "creating", "linking", "inserting",
             "resolving", "done", "welcome", "onboarding", "in", "refused", "failed"},
    op : {None, "callback", "setup", "member", "welcome"},
    mail : Mails \cup {None}, link : Identities \cup {None}, user : Mails \cup {None},
    account : Mails \cup {None}, staged : BOOLEAN, inserts : BOOLEAN]

(* What the stage of a request says of it. *)
Local(q) ==
    /\ q \in Request
    /\ q.stage \in {"asking", "unlinked", "looking", "unknown", "resolving"} => q.op = "callback"
    /\ q.stage = "creating" => q.op \in {"callback", "setup", "member"} /\ q.mail \in Mails
    /\ q.stage \in {"linking", "inserting"} => q.op = "callback" /\ q.user = q.mail
    /\ q.stage = "done" => /\ q.op \in {"callback", "setup", "member"}
                           /\ q.user = q.mail /\ q.mail \in Mails
                           /\ q.op # "callback" => q.staged
    /\ q.stage \in {"welcome", "onboarding"} => q.op = "welcome" /\ q.user \in Mails
    /\ q.op = "callback" /\ q.stage \notin {"in", "refused", "failed"} =>
          q.link \in Identities /\ q.mail = MailOf[q.link]
    /\ q.op = "callback" /\ q.stage = "in" => q.link \in Identities
    /\ q.stage = "in" => q.user \in Mails
    /\ q.staged => q.stage \in {"linking", "inserting", "done"}
    /\ q.inserts => q.stage = "done" /\ q.op = "callback"
    /\ q.account # None <=> \/ q.op = "member" /\ q.stage \in {"creating", "done"}
                            \/ q.stage = "onboarding"
    /\ q.stage = "onboarding" => q.account = q.user

(* What a request has found out and its keys and locks keep true. *)
Facts(q) ==
    /\ q.staged => users[q.user] = None
    /\ q.inserts => ~Linked(q.link, q.user)
    /\ q.stage = "done" /\ q.op = "callback" => q.inserts \/ links[q.link] = q.user
    /\ q.stage = "in" /\ q.op = "callback" => links[q.link] = q.user
    /\ q.op = "member" /\ q.account # None =>
          /\ accounts[q.account] # None
          /\ accounts[q.account].free => Cardinality(MembersOf(q.account)) < MemberLimit
    /\ q.stage \in {"welcome", "onboarding"} => accounts[q.user] # None
    /\ q.stage = "onboarding" => accounts[q.user].tokens < TokenLimit

(* No two requests hold one unique key or one subscription. *)
Compatible(q, p) ==
    /\ ~(q.staged /\ p.staged /\ q.user = p.user)
    /\ ~(/\ q.inserts /\ p.inserts
         /\ q.link = p.link \/ (q.user = p.user /\ ProviderOf[q.link] = ProviderOf[p.link]))
    /\ ~(q.account # None /\ q.account = p.account)

TablesInv ==
    /\ users \in [Mails -> User \cup {None}] /\ links \in [Identities -> Mails \cup {None}]
    /\ accounts \in [Mails -> Account \cup {None}]
    /\ \A m \in Mails :
          /\ accounts[m] # None <=> users[m] # None /\ users[m].account = m
          /\ users[m] # None =>
               /\ accounts[users[m].account] # None
               /\ users[m].password \/ \E i \in Identities : links[i] = m
    /\ \A i, j \in Identities :
         links[i] # None => /\ links[i] = MailOf[i]
                            /\ i # j /\ ProviderOf[i] = ProviderOf[j] => links[j] # links[i]
    /\ WithinPlan

RequestsInv ==
    /\ DOMAIN req = Requests
    /\ \A r \in Requests : Local(req[r]) /\ Facts(req[r])
    /\ \A r, o \in Requests : r # o => Compatible(req[r], req[o])

IInv == RateInv /\ TablesInv /\ RequestsInv

-----------------------------------------------------------------------------
(* The limiter. *)
LEMMA WindowNotExpired ==
    ASSUME RateInv
    PROVE  WindowStart \in Int /\ ~Expired(WindowStart)
<1>1. now \in Nat /\ Window \in Nat \ {0} /\ Retention \in Nat /\ Window <= Retention
  BY RateAssumption DEF RateInv
<1>2. now % Window \in 0..(Window - 1)
  BY <1>1
<1> QED BY <1>1, <1>2 DEF WindowStart, Expired

LEMMA CountedFields ==
    ASSUME NEW f \in [Keys -> [Starts -> Nat]], NEW ks
    PROVE  /\ Counted(f, ks) \in [Keys -> [Starts -> Nat]]
           /\ \A k \in Keys : \A t \in Starts :
                Counted(f, ks)[k][t] = IF k \in ks /\ t = WindowStart THEN f[k][t] + 1 ELSE f[k][t]
<1> DEFINE w == WindowStart
           g(k) == [f[k] EXCEPT ![w] = f[k][w] + 1]
<1>1. ASSUME NEW k \in Keys
      PROVE  /\ g(k) \in [Starts -> Nat]
             /\ \A t \in Starts : g(k)[t] = IF t = w THEN f[k][t] + 1 ELSE f[k][t]
  <2>1. f[k] \in [Starts -> Nat] /\ DOMAIN g(k) = Starts
    OBVIOUS
  <2> HIDE DEF w
  <2>2. \A t \in Starts : g(k)[t] = IF t = w THEN f[k][t] + 1 ELSE f[k][t]
    BY <2>1
  <2>3. \A t \in Starts : g(k)[t] \in Nat
    BY <2>1, <2>2
  <2> QED BY <2>1, <2>2, <2>3
<1>2. Counted(f, ks) = [k \in Keys |-> IF k \in ks THEN g(k) ELSE f[k]]
  BY DEF Counted
<1> HIDE DEF g
<1> QED BY <1>1, <1>2

LEMMA ConsumeSafe ==
    ASSUME RateInv, NEW ks, NEW ok, Consume(ks, ok)
    PROVE  RateInv'
<1>1. now' = now /\ attempts' = Counted(attempts, ks) /\ (allowed' = Counted(allowed, ks) \/ allowed' = allowed)
  BY DEF Consume
<1>2. attempts' \in [Keys -> [Starts -> Nat]] /\ allowed' \in [Keys -> [Starts -> Nat]]
  BY <1>1, CountedFields DEF RateInv
<1>3. ASSUME NEW k \in Keys, NEW t \in Starts
      PROVE  /\ allowed'[k][t] <= Limit
             /\ ~Expired(t)' => allowed'[k][t] <= attempts'[k][t]
  <2>1. /\ attempts[k][t] \in Nat /\ allowed[k][t] \in Nat /\ Limit \in Nat
        /\ allowed[k][t] <= Limit /\ (~Expired(t) => allowed[k][t] <= attempts[k][t])
    BY <1>3, RateAssumption DEF RateInv
  <2>2. Expired(t)' <=> Expired(t)
    BY <1>1 DEF Expired
  <2>3. attempts'[k][t] = IF k \in ks /\ t = WindowStart THEN attempts[k][t] + 1 ELSE attempts[k][t]
    BY <1>1, CountedFields DEF RateInv
  <2>4. CASE ok /\ k \in ks /\ t = WindowStart
    <3>1. attempts'[k][t] <= Limit
      BY <2>4 DEF Consume, Admits
    <3>2. ~Expired(t)
      BY <2>4, WindowNotExpired
    <3>3. allowed' = Counted(allowed, ks)
      BY <2>4 DEF Consume
    <3>4. allowed'[k][t] = allowed[k][t] + 1
      BY <2>4, <3>3, CountedFields DEF RateInv
    <3> QED BY <2>1, <2>2, <2>3, <2>4, <3>1, <3>2, <3>4
  <2>5. CASE ~(ok /\ k \in ks /\ t = WindowStart)
    <3>1. allowed'[k][t] = allowed[k][t]
      <4>1. CASE ok
        <5>1. allowed' = Counted(allowed, ks) /\ ~(k \in ks /\ t = WindowStart)
          BY <4>1, <2>5 DEF Consume
        <5> QED BY <5>1, CountedFields DEF RateInv
      <4>2. CASE ~ok
        BY <4>2 DEF Consume
      <4> QED BY <4>1, <4>2
    <3> QED BY <2>1, <2>2, <2>3, <3>1
  <2> QED BY <2>4, <2>5
<1> QED BY <1>1, <1>2, <1>3 DEF RateInv

LEMMA TimeSafe ==
    ASSUME RateInv, Tick \/ Prune
    PROVE  RateInv'
<1>1. CASE Tick
  <2>1. now' = now + 1 /\ now' \in 0..MaxNow /\ attempts' = attempts /\ allowed' = allowed
    BY <1>1, RateAssumption DEF Tick, RateInv
  <2>2. \A t \in Starts : Expired(t) => Expired(t)'
    BY <2>1, RateAssumption DEF Expired, Starts, RateInv
  <2> QED BY <2>1, <2>2 DEF RateInv
<1>2. CASE Prune
  <2>1. /\ now' = now /\ allowed' = allowed
        /\ attempts' = [k \in Keys |-> [t \in Starts |-> IF Expired(t) THEN 0 ELSE attempts[k][t]]]
    BY <1>2 DEF Prune
  <2>2. \A t \in Starts : Expired(t)' <=> Expired(t)
    BY <2>1 DEF Expired
  <2> QED BY <2>1, <2>2 DEF RateInv
<1> QED BY <1>1, <1>2

-----------------------------------------------------------------------------
(* A statement that writes nothing yet: the request goes on as q, which    *)
(* has what its stage says and collides with nobody.                       *)
LEMMA StepSafe ==
    ASSUME TablesInv, RequestsInv, UNCHANGED base, NEW r \in Requests, NEW q, Go(r, q),
           Local(q), Facts(q), \A o \in Requests \ {r} : Compatible(q, req[o]) /\ Compatible(req[o], q)
    PROVE  TablesInv' /\ RequestsInv'
<1>1. users' = users /\ links' = links /\ accounts' = accounts
  BY DEF base
<1>2. DOMAIN req' = Requests /\ \A o \in Requests : req'[o] = IF o = r THEN q ELSE req[o]
  BY DEF Go, RequestsInv
<1>3. TablesInv'
  BY <1>1 DEF TablesInv, WithinPlan, MembersOf
<1>4. \A p : Facts(p) => Facts(p)'
  BY <1>1 DEF Facts, Linked, MembersOf
<1> QED BY <1>2, <1>3, <1>4 DEF RequestsInv

(* A request that holds nothing goes on. *)
LEMMA LightSafe ==
    ASSUME TablesInv, RequestsInv, UNCHANGED base, NEW r \in Requests, NEW q, Go(r, q),
           Local(q), ~q.staged, ~q.inserts, q.account = None, q.stage # "done",
           q.stage = "welcome" => accounts[q.user] # None,
           q.stage = "in" /\ q.op = "callback" => links[q.link] = q.user
    PROVE  TablesInv' /\ RequestsInv'
<1>1. q.stage # "onboarding"
  BY SignInAssumption DEF Local, Request
<1>2. Facts(q)
  BY <1>1 DEF Facts
<1>3. \A o \in Requests : Compatible(q, req[o]) /\ Compatible(req[o], q)
  BY DEF Compatible
<1> QED BY <1>2, <1>3, StepSafe

LEMMA BlankFields ==
    /\ Blank \in Request /\ Blank.stage = "new" /\ Blank.op = None /\ Blank.mail = None /\ Blank.link = None
    /\ Blank.user = None /\ Blank.account = None /\ Blank.staged = FALSE /\ Blank.inserts = FALSE
BY DEF Blank, Request

(* The ends of a request. *)
LEMMA EndSafe ==
    ASSUME TablesInv, RequestsInv, UNCHANGED base, NEW r \in Requests,
           NEW stage \in {"refused", "failed"}, NEW op \in {None, "callback", "setup", "member", "welcome"},
           Go(r, [Blank EXCEPT !.stage = stage, !.op = op])
    PROVE  TablesInv' /\ RequestsInv'
<1> DEFINE q == [Blank EXCEPT !.stage = stage, !.op = op]
<1>1. /\ q \in Request /\ q.stage = stage /\ q.op = op /\ q.account = None
      /\ q.staged = FALSE /\ q.inserts = FALSE
  BY DEF Blank, Request
<1>2. Go(r, q)
  OBVIOUS
<1> HIDE DEF q
<1>3. Local(q)
  BY <1>1 DEF Local
<1> QED BY <1>1, <1>2, <1>3, LightSafe

LEMMA Turned == [Blank EXCEPT !.stage = "refused"] = [Blank EXCEPT !.stage = "refused", !.op = None]
BY BlankFields DEF Request

LEMMA EnterSafe ==
    ASSUME TablesInv, RequestsInv, UNCHANGED base, NEW r \in Requests, NEW u \in Mails, Enter(r, u),
           req[r].op = "callback" => req[r].link \in Identities /\ links[req[r].link] = u
    PROVE  TablesInv' /\ RequestsInv'
<1> DEFINE q == [Blank EXCEPT !.stage = "in", !.op = req[r].op, !.link = req[r].link, !.user = u]
<1>1. req[r] \in Request
  BY DEF RequestsInv, Local
<1>2. /\ q \in Request /\ q.stage = "in" /\ q.op = req[r].op /\ q.link = req[r].link
      /\ q.user = u /\ q.account = None /\ q.staged = FALSE /\ q.inserts = FALSE
  BY <1>1 DEF Blank, Request
<1>3. Go(r, q)
  BY DEF Enter
<1> HIDE DEF q
<1>4. Local(q)
  BY <1>2 DEF Local
<1> QED BY <1>2, <1>3, <1>4, LightSafe

(* The next stage of a callback that holds nothing. *)
LEMMA CallbackGoesOn ==
    ASSUME TablesInv, RequestsInv, UNCHANGED base, NEW r \in Requests,
           req[r].op = "callback", ~req[r].staged,
           req[r].stage \in {"asking", "unlinked", "looking", "unknown", "creating", "linking", "inserting"},
           NEW stage \in {"unlinked", "looking", "unknown", "creating", "linking", "inserting", "resolving"},
           NEW user \in Mails \cup {None}, stage \in {"linking", "inserting"} => user = req[r].mail,
           Go(r, [req[r] EXCEPT !.stage = stage, !.user = user])
    PROVE  TablesInv' /\ RequestsInv'
<1> DEFINE q == [req[r] EXCEPT !.stage = stage, !.user = user]
<1>1. req[r] \in Request /\ Local(req[r])
  BY DEF RequestsInv, Local
<1>2. /\ q \in Request /\ q.stage = stage /\ q.user = user /\ q.op = "callback"
      /\ q.mail = req[r].mail /\ q.link = req[r].link /\ q.account = req[r].account
      /\ q.staged = FALSE /\ q.inserts = req[r].inserts
  BY <1>1 DEF Request
<1>3. /\ req[r].account = None /\ req[r].inserts = FALSE
      /\ req[r].link \in Identities /\ req[r].mail = MailOf[req[r].link] /\ req[r].mail \in Mails
  BY <1>1, SignInAssumption DEF Local, Request
<1>4. Go(r, q)
  OBVIOUS
<1> HIDE DEF q
<1>5. Local(q)
  BY <1>2, <1>3 DEF Local
<1> QED BY <1>2, <1>3, <1>4, <1>5, LightSafe

LEMMA ToSafe ==
    ASSUME TablesInv, RequestsInv, UNCHANGED base, NEW r \in Requests,
           req[r].stage \in {"asking", "unlinked", "looking", "unknown"},
           NEW stage \in {"unlinked", "looking", "unknown", "creating"}, To(r, stage)
    PROVE  TablesInv' /\ RequestsInv'
<1>1. req[r] \in Request /\ req[r].op = "callback" /\ ~req[r].staged /\ req[r].user \in Mails \cup {None}
  BY DEF RequestsInv, Local, Request
<1>2. [req[r] EXCEPT !.stage = stage] = [req[r] EXCEPT !.stage = stage, !.user = req[r].user]
  BY <1>1 DEF Request
<1>3. Go(r, [req[r] EXCEPT !.stage = stage, !.user = req[r].user])
  BY <1>2 DEF To
<1> QED BY <1>1, <1>3, CallbackGoesOn

LEMMA EndOfSafe ==
    ASSUME TablesInv, RequestsInv, UNCHANGED base, NEW r \in Requests,
           NEW stage \in {"refused", "failed"}, End(r, stage)
    PROVE  TablesInv' /\ RequestsInv'
<1>1. req[r].op \in {None, "callback", "setup", "member", "welcome"}
  BY DEF RequestsInv, Local, Request
<1> QED BY <1>1, EndSafe DEF End

(* Looking up: an identity, a link, an address. *)
LEMMA LookingSafe ==
    ASSUME TablesInv, RequestsInv, NEW r \in Requests,
           \/ NotVouched(r) \/ LookUpIdentity(r) \/ CheckLinked(r) \/ LookUpMail(r)
           \/ \E signup \in BOOLEAN : CheckRegistered(r, signup)
           \/ ResolveWinner(r)
    PROVE  TablesInv' /\ RequestsInv'
<1>1. Local(req[r]) /\ req[r] \in Request
  BY DEF RequestsInv, Local
<1>2. CASE NotVouched(r)
  BY <1>2, EndOfSafe DEF NotVouched
<1>3. CASE LookUpIdentity(r)
  <2>1. req[r].stage = "asking" /\ UNCHANGED base
    BY <1>3 DEF LookUpIdentity, At
  <2>2. req[r].op = "callback" /\ req[r].link \in Identities
    BY <1>1, <2>1 DEF Local
  <2>3. CASE Usable(links[req[r].link])
    <3>1. links[req[r].link] \in Mails
      BY <2>2, <2>3 DEF TablesInv, Usable
    <3>2. Enter(r, links[req[r].link])
      BY <1>3, <2>3 DEF LookUpIdentity
    <3> QED BY <2>1, <2>2, <3>1, <3>2, EnterSafe
  <2>4. CASE ~Usable(links[req[r].link])
    BY <1>3, <2>1, <2>4, ToSafe DEF LookUpIdentity
  <2> QED BY <2>3, <2>4
<1>4. CASE CheckLinked(r)
  <2>1. req[r].stage = "unlinked" /\ UNCHANGED base
    BY <1>4 DEF CheckLinked, At
  <2> QED BY <1>4, <2>1, EndOfSafe, ToSafe DEF CheckLinked
<1>5. CASE LookUpMail(r)
  <2>1. req[r].stage = "looking" /\ UNCHANGED base
    BY <1>5 DEF LookUpMail, At
  <2>2. req[r].op = "callback" /\ ~req[r].staged /\ req[r].mail \in Mails \cup {None}
    BY <1>1, <2>1 DEF Local, Request
  <2>3. CASE Usable(req[r].mail)
    <3>1. Go(r, [req[r] EXCEPT !.stage = "linking", !.user = req[r].mail])
      BY <1>5, <2>3 DEF LookUpMail
    <3> QED BY <2>1, <2>2, <3>1, CallbackGoesOn
  <2>4. CASE ~Usable(req[r].mail)
    BY <1>5, <2>1, <2>4, ToSafe DEF LookUpMail
  <2> QED BY <2>3, <2>4
<1>6. CASE \E signup \in BOOLEAN : CheckRegistered(r, signup)
  <2>1. req[r].stage = "unknown" /\ UNCHANGED base /\ (End(r, "refused") \/ To(r, "creating"))
    BY <1>6 DEF CheckRegistered, At
  <2> QED BY <2>1, EndOfSafe, ToSafe
<1>7. CASE ResolveWinner(r)
  <2>1. req[r].stage = "resolving" /\ UNCHANGED base
    BY <1>7 DEF ResolveWinner, At
  <2>2. req[r].op = "callback" /\ req[r].link \in Identities
    BY <1>1, <2>1 DEF Local
  <2>3. CASE Usable(links[req[r].link])
    <3>1. links[req[r].link] \in Mails
      BY <2>2, <2>3 DEF TablesInv, Usable
    <3>2. Enter(r, links[req[r].link])
      BY <1>7, <2>3 DEF ResolveWinner
    <3> QED BY <2>1, <2>2, <3>1, <3>2, EnterSafe
  <2>4. CASE ~Usable(links[req[r].link])
    BY <1>7, <2>1, <2>4, EndOfSafe DEF ResolveWinner
  <2> QED BY <2>3, <2>4
<1> QED BY <1>2, <1>3, <1>4, <1>5, <1>6, <1>7

(* The owner or member is staged under an address that nobody else holds. *)
LEMMA CreateAccountSafe ==
    ASSUME TablesInv, RequestsInv, NEW r \in Requests, CreateAccount(r)
    PROVE  TablesInv' /\ RequestsInv'
<1> DEFINE q == [req[r] EXCEPT !.staged = TRUE, !.user = req[r].mail,
                               !.stage = IF req[r].op = "callback" THEN "linking" ELSE "done"]
<1>1. /\ Local(req[r]) /\ Facts(req[r]) /\ req[r] \in Request /\ UNCHANGED base
      /\ req[r].stage = "creating" /\ ~MailHeld(r, req[r].mail)
  BY DEF RequestsInv, Local, CreateAccount, At
<1>2. CASE users[req[r].mail] # None
  BY <1>1, <1>2, EndOfSafe DEF CreateAccount
<1>3. CASE users[req[r].mail] = None
  <2>1. Go(r, q)
    BY <1>3 DEF CreateAccount
  <2>2. /\ req[r].mail \in Mails /\ req[r].op \in {"callback", "setup", "member"}
        /\ req[r].inserts = FALSE
        /\ req[r].op = "callback" => req[r].link \in Identities /\ req[r].mail = MailOf[req[r].link]
        /\ req[r].account # None <=> req[r].op = "member"
    BY <1>1 DEF Local, Request
  <2>3. /\ q \in Request /\ q.stage = (IF req[r].op = "callback" THEN "linking" ELSE "done")
        /\ q.op = req[r].op /\ q.mail = req[r].mail /\ q.link = req[r].link
        /\ q.user = req[r].mail /\ q.account = req[r].account
        /\ q.staged = TRUE /\ q.inserts = FALSE
    BY <1>1, <2>2 DEF Request
  <2> HIDE DEF q
  <2>4. Local(q)
    BY <2>2, <2>3 DEF Local
  <2>5. Facts(q)
    BY <1>1, <1>3, <2>2, <2>3 DEF Facts
  <2>6. ASSUME NEW o \in Requests \ {r} PROVE Compatible(q, req[o]) /\ Compatible(req[o], q)
    <3>1. Compatible(req[r], req[o])
      BY <2>6 DEF RequestsInv
    <3>2. ~(req[o].staged /\ req[o].user = req[r].mail)
      BY <1>1, <2>6 DEF MailHeld, Others
    <3> QED BY <2>3, <3>1, <3>2 DEF Compatible
  <2> QED BY <1>1, <2>1, <2>4, <2>5, <2>6, StepSafe
<1> QED BY <1>2, <1>3

LEMMA FindLinkSafe ==
    ASSUME TablesInv, RequestsInv, NEW r \in Requests, FindLink(r)
    PROVE  TablesInv' /\ RequestsInv'
<1> DEFINE stage == IF links[req[r].link] # None THEN "done" ELSE "inserting"
           q == [req[r] EXCEPT !.stage = stage]
<1>1. /\ Local(req[r]) /\ Facts(req[r]) /\ req[r] \in Request /\ UNCHANGED base
      /\ req[r].stage = "linking" /\ Go(r, q)
  BY DEF RequestsInv, Local, FindLink, At, To
<1>2. /\ req[r].op = "callback" /\ req[r].user = req[r].mail /\ req[r].link \in Identities
      /\ req[r].mail = MailOf[req[r].link] /\ req[r].mail \in Mails
      /\ req[r].account = None /\ req[r].inserts = FALSE
  BY <1>1, SignInAssumption DEF Local, Request
<1>3. stage \in {"done", "inserting"} /\ (stage = "done" => links[req[r].link] = req[r].user)
  BY <1>2 DEF TablesInv
<1> HIDE DEF stage
<1>4. /\ q \in Request /\ q.stage = stage
      /\ q.op = req[r].op /\ q.mail = req[r].mail /\ q.link = req[r].link
      /\ q.user = req[r].user /\ q.account = req[r].account
      /\ q.staged = req[r].staged /\ q.inserts = req[r].inserts
  BY <1>1, <1>3 DEF Request
<1> HIDE DEF q
<1>5. Local(q)
  BY <1>2, <1>3, <1>4 DEF Local
<1>6. Facts(q)
  BY <1>1, <1>2, <1>3, <1>4 DEF Facts
<1>7. \A o \in Requests \ {r} : Compatible(q, req[o]) /\ Compatible(req[o], q)
  BY <1>4 DEF RequestsInv, Compatible
<1> QED BY <1>1, <1>5, <1>6, <1>7, StepSafe

(* A link is staged where nothing links and nobody else is about to. *)
LEMMA InsertLinkSafe ==
    ASSUME TablesInv, RequestsInv, NEW r \in Requests, InsertLink(r)
    PROVE  TablesInv' /\ RequestsInv'
<1>1. /\ Local(req[r]) /\ Facts(req[r]) /\ req[r] \in Request /\ UNCHANGED base
      /\ req[r].stage = "inserting" /\ ~LinkHeld(r, req[r].link, req[r].user)
  BY DEF RequestsInv, Local, InsertLink, At
<1>2. /\ req[r].op = "callback" /\ req[r].user = req[r].mail /\ req[r].link \in Identities
      /\ req[r].mail = MailOf[req[r].link] /\ req[r].mail \in Mails
      /\ req[r].account = None /\ req[r].inserts = FALSE
  BY <1>1, SignInAssumption DEF Local, Request
<1>3. CASE Linked(req[r].link, req[r].user)
  <2> DEFINE q == [req[r] EXCEPT !.stage = "resolving", !.user = None, !.staged = FALSE]
  <2>1. Go(r, q)
    BY <1>3 DEF InsertLink
  <2>2. /\ q \in Request /\ q.stage = "resolving" /\ q.user = None /\ q.staged = FALSE
        /\ q.op = req[r].op /\ q.mail = req[r].mail /\ q.link = req[r].link
        /\ q.account = req[r].account /\ q.inserts = req[r].inserts
    BY <1>1 DEF Request
  <2> HIDE DEF q
  <2>3. Local(q)
    BY <1>2, <2>2 DEF Local
  <2> QED BY <1>1, <1>2, <2>1, <2>2, <2>3, LightSafe
<1>4. CASE ~Linked(req[r].link, req[r].user)
  <2> DEFINE q == [req[r] EXCEPT !.stage = "done", !.inserts = TRUE]
  <2>1. Go(r, q)
    BY <1>4 DEF InsertLink
  <2>2. /\ q \in Request /\ q.stage = "done" /\ q.inserts = TRUE
        /\ q.op = req[r].op /\ q.mail = req[r].mail /\ q.link = req[r].link
        /\ q.user = req[r].user /\ q.account = req[r].account /\ q.staged = req[r].staged
    BY <1>1 DEF Request
  <2> HIDE DEF q
  <2>3. Local(q)
    BY <1>2, <2>2 DEF Local
  <2>4. Facts(q)
    BY <1>1, <1>2, <1>4, <2>2 DEF Facts
  <2>5. ASSUME NEW o \in Requests \ {r} PROVE Compatible(q, req[o]) /\ Compatible(req[o], q)
    <3>1. Compatible(req[r], req[o]) /\ Compatible(req[o], req[r])
      BY <2>5 DEF RequestsInv
    <3>2. ~(/\ req[o].inserts
            /\ \/ req[o].link = req[r].link
               \/ req[o].user = req[r].user /\ ProviderOf[req[o].link] = ProviderOf[req[r].link])
      BY <1>1, <2>5 DEF LinkHeld, Others
    <3> QED BY <2>2, <3>1, <3>2 DEF Compatible
  <2> QED BY <1>1, <2>1, <2>3, <2>4, <2>5, StepSafe
<1> QED BY <1>3, <1>4

-----------------------------------------------------------------------------
(* The first statement of a request. *)
LEMMA StartSafe ==
    ASSUME TablesInv, RequestsInv, NEW r \in Requests, Start(r)
    PROVE  TablesInv' /\ RequestsInv'
<1>1. UNCHANGED base
  BY DEF Start, StartCallback, StartSetup, StartMember, Login, StartWelcome
<1>2. ASSUME NEW i \in Identities, StartCallback(r, i) PROVE TablesInv' /\ RequestsInv'
  <2> DEFINE q == [Blank EXCEPT !.stage = "asking", !.op = "callback", !.mail = MailOf[i], !.link = i]
  <2>1. MailOf[i] \in Mails
    BY SignInAssumption
  <2>2. /\ q \in Request /\ q.stage = "asking" /\ q.op = "callback" /\ q.mail = MailOf[i]
        /\ q.link = i /\ q.account = None /\ q.staged = FALSE /\ q.inserts = FALSE
    BY <2>1 DEF Blank, Request
  <2>4. Go(r, q) \/ Go(r, [Blank EXCEPT !.stage = "refused", !.op = None])
    BY <1>2, Turned DEF StartCallback
  <2> HIDE DEF q
  <2>5. Local(q)
    BY <2>2 DEF Local
  <2> QED BY <1>1, <2>2, <2>4, <2>5, LightSafe, EndSafe
<1>3. ASSUME NEW m \in Mails, StartSetup(r, m) PROVE TablesInv' /\ RequestsInv'
  <2> DEFINE q == [Blank EXCEPT !.stage = "creating", !.op = "setup", !.mail = m]
  <2>1. /\ q \in Request /\ q.stage = "creating" /\ q.op = "setup" /\ q.mail = m
        /\ q.account = None /\ q.staged = FALSE /\ q.inserts = FALSE
    BY DEF Blank, Request
  <2>2. Go(r, q)
    BY <1>3 DEF StartSetup
  <2> HIDE DEF q
  <2>3. Local(q)
    BY <2>1 DEF Local
  <2> QED BY <1>1, <2>1, <2>2, <2>3, LightSafe
<1>4. ASSUME NEW o \in Mails, NEW m \in Mails, StartMember(r, o, m) PROVE TablesInv' /\ RequestsInv'
  <2> DEFINE q == [Blank EXCEPT !.stage = "creating", !.op = "member", !.mail = m, !.account = o]
  <2>1. /\ q \in Request /\ q.stage = "creating" /\ q.op = "member" /\ q.mail = m
        /\ q.account = o /\ q.staged = FALSE /\ q.inserts = FALSE
    BY DEF Blank, Request
  <2>2. o # None
    BY SignInAssumption
  <2>3. CASE users[m] = None /\ (accounts[o].free => Cardinality(MembersOf(o)) < MemberLimit)
    <3>1. Go(r, q)
      BY <1>4, <2>3 DEF StartMember
    <3> HIDE DEF q
    <3>2. Local(q)
      BY <2>1, <2>2 DEF Local
    <3>3. accounts[o] # None
      BY <1>4 DEF StartMember, Usable, TablesInv
    <3>4. Facts(q)
      BY <2>1, <2>3, <3>3 DEF Facts
    <3>5. ASSUME NEW x \in Requests \ {r} PROVE Compatible(q, req[x]) /\ Compatible(req[x], q)
      <4>1. ~(req[x].account = o /\ req[x].stage \notin Ended)
        BY <1>4, <3>5 DEF StartMember, SubscriptionHeld, Others
      <4>2. req[x].account # None => req[x].stage \notin Ended
        BY <3>5 DEF RequestsInv, Local, Ended
      <4> QED BY <2>1, <2>2, <4>1, <4>2 DEF Compatible
    <3> QED BY <1>1, <3>1, <3>2, <3>4, <3>5, StepSafe
  <2>4. CASE ~(users[m] = None /\ (accounts[o].free => Cardinality(MembersOf(o)) < MemberLimit))
    <3>2. Go(r, [Blank EXCEPT !.stage = "refused", !.op = None])
      BY <1>4, <2>4, Turned DEF StartMember
    <3> QED BY <1>1, <3>2, EndSafe
  <2> QED BY <2>3, <2>4
<1>5. ASSUME NEW m \in Mails, NEW right \in BOOLEAN, Login(r, m, right) PROVE TablesInv' /\ RequestsInv'
  <2> DEFINE q == [Blank EXCEPT !.stage = "in", !.user = m]
  <2>1. /\ q \in Request /\ q.stage = "in" /\ q.op = None /\ q.user = m
        /\ q.account = None /\ q.staged = FALSE /\ q.inserts = FALSE
    BY DEF Blank, Request
  <2>3. Go(r, q) \/ Go(r, [Blank EXCEPT !.stage = "refused", !.op = None])
    BY <1>5, Turned DEF Login
  <2> HIDE DEF q
  <2>4. CASE Go(r, q)
    <3>1. Local(q)
      BY <2>1, SignInAssumption DEF Local
    <3>2. q.op # "callback"
      BY <2>1, SignInAssumption
    <3> QED BY <1>1, <2>1, <2>4, <3>1, <3>2, LightSafe
  <2> QED BY <1>1, <2>3, <2>4, EndSafe
<1>6. ASSUME NEW o \in Mails, StartWelcome(r, o) PROVE TablesInv' /\ RequestsInv'
  <2> DEFINE q == [Blank EXCEPT !.stage = "welcome", !.op = "welcome", !.user = o]
  <2>1. /\ q \in Request /\ q.stage = "welcome" /\ q.op = "welcome" /\ q.user = o
        /\ q.account = None /\ q.staged = FALSE /\ q.inserts = FALSE
    BY DEF Blank, Request
  <2>2. Go(r, q)
    BY <1>6 DEF StartWelcome
  <2> HIDE DEF q
  <2>3. Local(q)
    BY <2>1 DEF Local
  <2>4. accounts[o] # None
    BY <1>6 DEF StartWelcome, Usable, TablesInv
  <2> QED BY <1>1, <2>1, <2>2, <2>3, <2>4, LightSafe
<1> QED BY <1>2, <1>3, <1>4, <1>5, <1>6 DEF Start

(* The subscription is locked and has a token left. *)
LEMMA LockCapacitySafe ==
    ASSUME TablesInv, RequestsInv, NEW r \in Requests, LockCapacity(r)
    PROVE  TablesInv' /\ RequestsInv'
<1> DEFINE o == req[r].user
           q == [req[r] EXCEPT !.stage = "onboarding", !.account = o]
<1>1. /\ Local(req[r]) /\ Facts(req[r]) /\ req[r] \in Request /\ UNCHANGED base
      /\ req[r].stage = "welcome" /\ ~SubscriptionHeld(r, o)
  BY DEF RequestsInv, Local, LockCapacity, At
<1>2. CASE accounts[o].active /\ accounts[o].tokens < TokenLimit
  <2>1. /\ req[r].op = "welcome" /\ o \in Mails /\ o # None /\ accounts[o] # None
        /\ req[r].staged = FALSE /\ req[r].inserts = FALSE
    BY <1>1, SignInAssumption DEF Local, Facts, Request
  <2>2. Go(r, q)
    BY <1>2 DEF LockCapacity
  <2>3. /\ q \in Request /\ q.stage = "onboarding" /\ q.account = o /\ q.user = o
        /\ q.op = req[r].op /\ q.staged = req[r].staged /\ q.inserts = req[r].inserts
    BY <1>1, <2>1 DEF Request
  <2> HIDE DEF q
  <2>4. Local(q)
    BY <2>1, <2>3 DEF Local
  <2>5. Facts(q)
    BY <1>2, <2>1, <2>3 DEF Facts
  <2>6. ASSUME NEW x \in Requests \ {r} PROVE Compatible(q, req[x]) /\ Compatible(req[x], q)
    <3>1. ~(req[x].account = o /\ req[x].stage \notin Ended)
      BY <1>1, <2>6 DEF SubscriptionHeld, Others
    <3>2. req[x].account # None => req[x].stage \notin Ended
      BY <2>6 DEF RequestsInv, Local, Ended
    <3> QED BY <2>1, <2>3, <3>1, <3>2 DEF Compatible
  <2> QED BY <1>1, <2>2, <2>4, <2>5, <2>6, StepSafe
<1>3. CASE ~(accounts[o].active /\ accounts[o].tokens < TokenLimit)
  BY <1>1, <1>3, EndOfSafe DEF LockCapacity
<1> QED BY <1>2, <1>3

LEMMA AbortSafe ==
    ASSUME TablesInv, RequestsInv, NEW r \in Requests, Abort(r)
    PROVE  TablesInv' /\ RequestsInv'
<1>1. [Blank EXCEPT !.stage = "failed"] = [Blank EXCEPT !.stage = "failed", !.op = None]
  BY BlankFields DEF Request
<1> QED BY <1>1, EndSafe DEF Abort

-----------------------------------------------------------------------------
(* What a request holds keeps its facts true through another's commit. *)
LEMMA FactsKept ==
    ASSUME NEW p, Local(p), Facts(p),
           p.staged => users'[p.user] = None,
           p.inserts => ~Linked(p.link, p.user)',
           p.op = "callback" /\ p.stage \in {"done", "in"} /\ links[p.link] = p.user => links'[p.link] = p.user,
           p.op = "member" /\ p.account # None =>
              /\ accounts'[p.account] # None /\ (accounts'[p.account].free => accounts[p.account].free)
              /\ MembersOf(p.account)' = MembersOf(p.account),
           p.stage \in {"welcome", "onboarding"} => accounts'[p.user] # None,
           p.stage = "onboarding" => accounts'[p.user].tokens = accounts[p.user].tokens
    PROVE  Facts(p)'
BY DEF Facts

(* The request that commits lets go of everything. *)
LEMMA InSafe ==
    ASSUME TablesInv', RequestsInv, NEW r \in Requests, NEW q, Go(r, q), Local(q), q.stage = "in",
           ~q.staged, ~q.inserts, q.account = None,
           q.op = "callback" => links'[q.link] = q.user,
           \A x \in Requests \ {r} : Facts(req[x])'
    PROVE  RequestsInv'
<1>1. DOMAIN req' = Requests /\ \A x \in Requests : req'[x] = IF x = r THEN q ELSE req[x]
  BY DEF Go, RequestsInv
<1>2. Facts(q)'
  BY DEF Facts
<1>3. \A x \in Requests : Facts(req[x])'
  BY <1>1, <1>2
<1>4. \A x, y \in Requests : x # y => Compatible(req'[x], req'[y])
  BY <1>1 DEF Compatible, RequestsInv
<1>5. \A x \in Requests : Local(req'[x])
  BY <1>1 DEF RequestsInv
<1> QED BY <1>1, <1>3, <1>4, <1>5 DEF RequestsInv

(* A statement that writes accounts only, which keep their owners, their   *)
(* plans and their members.                                                *)
LEMMA AccountsOnly ==
    ASSUME TablesInv, NEW o \in Mails, accounts[o] # None, NEW a \in Account,
           a.free = accounts[o].free, a.free => a.tokens <= TokenLimit,
           accounts' = [accounts EXCEPT ![o] = a], UNCHANGED <<users, links>>
    PROVE  /\ TablesInv'
           /\ \A m \in Mails : accounts'[m] = (IF m = o THEN a ELSE accounts[m])
           /\ \A m \in Mails : accounts'[m] # None <=> accounts[m] # None
<1>1. \A m \in Mails : accounts'[m] = IF m = o THEN a ELSE accounts[m]
  BY DEF TablesInv
<1>2. a # None
  BY SignInAssumption
<1>3. \A m \in Mails : accounts'[m] # None <=> accounts[m] # None
  BY <1>1, <1>2
<1>4. \A m : MembersOf(m)' = MembersOf(m)
  BY DEF MembersOf
<1>5. WithinPlan'
  BY <1>1, <1>3, <1>4 DEF TablesInv, WithinPlan
<1>6. accounts' \in [Mails -> Account \cup {None}]
  BY DEF TablesInv
<1>7. \A m \in Mails : users[m] # None => users[m].account \in Mails
  BY DEF TablesInv, User
<1>8. ASSUME NEW m \in Mails
      PROVE  /\ accounts'[m] # None <=> users'[m] # None /\ users'[m].account = m
             /\ users'[m] # None =>
                  /\ accounts'[users'[m].account] # None
                  /\ users'[m].password \/ \E i \in Identities : links'[i] = m
  BY <1>3, <1>7 DEF TablesInv
<1>9. \A i, j \in Identities :
         links'[i] # None => /\ links'[i] = MailOf[i]
                             /\ i # j /\ ProviderOf[i] = ProviderOf[j] => links'[j] # links'[i]
  BY DEF TablesInv
<1>10. users' \in [Mails -> User \cup {None}] /\ links' \in [Identities -> Mails \cup {None}]
  BY DEF TablesInv
<1>11. TablesInv'
  BY <1>5, <1>6, <1>8, <1>9, <1>10 DEF TablesInv
<1>12. /\ \A m \in Mails : accounts'[m] = (IF m = o THEN a ELSE accounts[m])
       /\ \A m \in Mails : accounts'[m] # None <=> accounts[m] # None
  BY <1>1, <1>3
<1> QED BY <1>11, <1>12

LEMMA SetActiveSafe ==
    ASSUME TablesInv, RequestsInv, NEW o \in Mails, NEW on \in BOOLEAN, SetActive(o, on)
    PROVE  TablesInv' /\ RequestsInv'
<1> DEFINE a == [accounts[o] EXCEPT !.active = on]
<1>1. accounts[o] # None /\ accounts[o] \in Account
  BY DEF SetActive, TablesInv
<1>2. a \in Account /\ a.free = accounts[o].free /\ a.tokens = accounts[o].tokens
  BY <1>1 DEF Account
<1>3. accounts' = [accounts EXCEPT ![o] = a] /\ UNCHANGED <<users, links, req>>
  BY DEF SetActive, TablesInv
<1> HIDE DEF a
<1>4. a.free => a.tokens <= TokenLimit
  BY <1>1, <1>2 DEF TablesInv, WithinPlan
<1>5. /\ TablesInv'
      /\ \A m \in Mails : accounts'[m] = (IF m = o THEN a ELSE accounts[m])
      /\ \A m \in Mails : accounts'[m] # None <=> accounts[m] # None
  BY <1>1, <1>2, <1>3, <1>4, AccountsOnly
<1>6. ASSUME NEW r \in Requests PROVE Facts(req[r])'
  <2>0. PICK p : p = req[r]
    OBVIOUS
  <2>1. Facts(p) /\ Local(p)
    BY <2>0 DEF RequestsInv
  <2>2. /\ p.account # None => p.account \in Mails
        /\ p.stage \in {"welcome", "onboarding"} => p.user \in Mails
    BY <2>1 DEF Local, Request
  <2>3. p.inserts => ~(Linked(p.link, p.user)')
    BY <1>3, <2>1 DEF Facts, Linked
  <2>4. p.staged => users'[p.user] = None
    BY <1>3, <2>1 DEF Facts
  <2>5. req'[r] = p
    BY <2>0, <1>3
  <2>6. p.op = "member" /\ p.account # None =>
           /\ accounts'[p.account] # None /\ (accounts'[p.account].free => accounts[p.account].free)
           /\ MembersOf(p.account)' = MembersOf(p.account)
    <3>1. MembersOf(p.account)' = MembersOf(p.account)
      BY <1>3 DEF MembersOf
    <3>2. ASSUME p.op = "member", p.account # None PROVE accounts'[p.account] # None
      BY <1>5, <2>1, <2>2, <3>2 DEF Facts
    <3>3. ASSUME p.account # None, accounts'[p.account].free PROVE accounts[p.account].free
      BY <1>2, <1>5, <2>2, <3>3
    <3> QED BY <3>1, <3>2, <3>3
  <2>7. /\ p.stage \in {"welcome", "onboarding"} => accounts'[p.user] # None
        /\ p.stage = "onboarding" => accounts'[p.user].tokens = accounts[p.user].tokens
    BY <1>2, <1>5, <2>1, <2>2 DEF Facts
  <2>8. p.op = "callback" /\ p.stage \in {"done", "in"} /\ links[p.link] = p.user => links'[p.link] = p.user
    BY <1>3
  <2>9. Facts(p)'
    BY <2>1, <2>3, <2>4, <2>6, <2>7, <2>8, FactsKept
  <2> QED BY <2>5, <2>9
<1> QED BY <1>3, <1>5, <1>6 DEF RequestsInv

LEMMA CommitWelcomeSafe ==
    ASSUME TablesInv, RequestsInv, NEW r \in Requests, CommitWelcome(r)
    PROVE  TablesInv' /\ RequestsInv'
<1> DEFINE o == req[r].user
           a == [accounts[o] EXCEPT !.tokens = accounts[o].tokens + 1, !.onboarded = TRUE]
           q == [Blank EXCEPT !.stage = "in", !.op = req[r].op, !.link = req[r].link, !.user = o]
<1>1. Local(req[r]) /\ Facts(req[r]) /\ req[r] \in Request /\ req[r].stage = "onboarding"
  BY DEF RequestsInv, Local, CommitWelcome, At
<1>2. /\ o \in Mails /\ req[r].op = "welcome" /\ req[r].account = o
      /\ accounts[o] # None /\ accounts[o] \in Account /\ accounts[o].tokens < TokenLimit
  BY <1>1 DEF Local, Facts, TablesInv
<1>3. a \in Account /\ a.free = accounts[o].free /\ a.tokens <= TokenLimit
  <2>1. accounts[o].tokens \in Nat /\ accounts[o].tokens + 1 \in Nat
    BY <1>2 DEF Account
  <2>2. a \in Account /\ a.free = accounts[o].free /\ a.tokens = accounts[o].tokens + 1
    BY <1>2, <2>1 DEF Account
  <2> QED BY <1>2, <2>1, <2>2, SignInAssumption
<1>4. accounts' = [accounts EXCEPT ![o] = a] /\ UNCHANGED <<users, links>> /\ Go(r, q)
  BY <1>2 DEF CommitWelcome, TablesInv, Enter
<1>5. /\ q \in Request /\ q.stage = "in" /\ q.op = "welcome" /\ q.user = o /\ q.account = None
      /\ q.staged = FALSE /\ q.inserts = FALSE
  BY <1>1, <1>2 DEF Blank, Request
<1> HIDE DEF a, q
<1>6. /\ TablesInv'
      /\ \A m \in Mails : accounts'[m] = (IF m = o THEN a ELSE accounts[m])
      /\ \A m \in Mails : accounts'[m] # None <=> accounts[m] # None
  BY <1>2, <1>3, <1>4, AccountsOnly
<1>7. Local(q)
  BY <1>2, <1>5, SignInAssumption DEF Local
<1>8. ASSUME NEW x \in Requests \ {r} PROVE Facts(req[x])'
  <2>0. PICK p : p = req[x]
    OBVIOUS
  <2>1. Facts(p) /\ Local(p) /\ Compatible(req[r], p)
    BY <1>8, <2>0 DEF RequestsInv
  <2>2. /\ p.account # None => p.account \in Mails
        /\ p.stage \in {"welcome", "onboarding"} => p.user \in Mails
        /\ p.stage = "onboarding" => p.account = p.user
        /\ p.account # o
    BY <1>2, <2>1, SignInAssumption DEF Local, Request, Compatible
  <2>3. p.inserts => ~(Linked(p.link, p.user)')
    BY <1>4, <2>1 DEF Facts, Linked
  <2>4. p.staged => users'[p.user] = None
    BY <1>4, <2>1 DEF Facts
  <2>5. req'[x] = p
    BY <2>0, <1>4, <1>8 DEF Go, RequestsInv
  <2>6. p.op = "member" /\ p.account # None =>
           /\ accounts'[p.account] # None /\ (accounts'[p.account].free => accounts[p.account].free)
           /\ MembersOf(p.account)' = MembersOf(p.account)
    <3>1. MembersOf(p.account)' = MembersOf(p.account)
      BY <1>4 DEF MembersOf
    <3>2. ASSUME p.op = "member", p.account # None PROVE accounts'[p.account] # None
      BY <1>6, <2>1, <2>2, <3>2 DEF Facts
    <3>3. ASSUME p.account # None, accounts'[p.account].free PROVE accounts[p.account].free
      BY <1>3, <1>6, <2>2, <3>3
    <3> QED BY <3>1, <3>2, <3>3
  <2>7. /\ p.stage \in {"welcome", "onboarding"} => accounts'[p.user] # None
        /\ p.stage = "onboarding" => accounts'[p.user].tokens = accounts[p.user].tokens
    BY <1>6, <2>1, <2>2 DEF Facts
  <2>8. p.op = "callback" /\ p.stage \in {"done", "in"} /\ links[p.link] = p.user => links'[p.link] = p.user
    BY <1>4
  <2>9. Facts(p)'
    BY <2>1, <2>3, <2>4, <2>6, <2>7, <2>8, FactsKept
  <2> QED BY <2>5, <2>9
<1>9. PICK c : c = q
  OBVIOUS
<1>10. Go(r, c) /\ Local(c) /\ c.stage = "in" /\ ~c.staged /\ ~c.inserts /\ c.account = None /\ c.op # "callback"
  BY <1>4, <1>5, <1>7, <1>9
<1>11. RequestsInv'
  BY <1>6, <1>8, <1>10, InSafe
<1> QED BY <1>6, <1>11

-----------------------------------------------------------------------------
(* What a commit makes of the tables.  A staged user is new, and so is the *)
(* account a of an owner.                                                  *)
Effect(q, a) ==
    /\ \A m \in Mails : users'[m] = (IF q.staged /\ m = q.user THEN NewUser(q) ELSE users[m])
    /\ \A m \in Mails : accounts'[m] = (IF q.staged /\ q.op # "member" /\ m = q.user THEN a ELSE accounts[m])
    /\ \A i \in Identities : links'[i] = (IF q.inserts /\ i = q.link THEN q.user ELSE links[i])
    /\ users' \in [Mails -> User \cup {None}] /\ links' \in [Identities -> Mails \cup {None}]
    /\ accounts' \in [Mails -> Account \cup {None}]

Unknown(q) ==
    /\ q.staged => /\ users[q.user] = None /\ accounts[q.user] = None
                   /\ \A m \in Mails : users[m] # None => users[m].account # q.user
                   /\ NewUser(q) \in User /\ NewUser(q) # None
                   /\ NewUser(q).account = (IF q.op = "member" THEN q.account ELSE q.user)
    /\ q.op = "member" => q.staged /\ q.account \in Mails /\ q.account # q.user

LEMMA CommitTables ==
    ASSUME TablesInv, RequestsInv, NEW r \in Requests, Commit(r), NEW q, q = req[r]
    PROVE  /\ Local(q) /\ Facts(q) /\ q.stage = "done" /\ q.user = q.mail /\ q.user \in Mails
           /\ Go(r, [Blank EXCEPT !.stage = "in", !.op = q.op, !.link = q.link, !.user = q.user])
           /\ Unknown(q)
           /\ \E a \in Account : (a.free => a.tokens <= TokenLimit) /\ Effect(q, a)
<1>1. Local(q) /\ Facts(q) /\ q \in Request /\ q.stage = "done"
  BY DEF RequestsInv, Local, Commit, At
<1>2. /\ q.user = q.mail /\ q.user \in Mails /\ q.op \in {"callback", "setup", "member"}
      /\ q.op # "callback" => q.staged
      /\ q.op = "member" => q.account # None /\ q.account \in Mails
      /\ q.inserts => q.op = "callback" /\ q.link \in Identities
  BY <1>1 DEF Local, Request
<1>3. Go(r, [Blank EXCEPT !.stage = "in", !.op = q.op, !.link = q.link, !.user = q.user])
  BY DEF Commit, Enter
<1>4. q.staged => users[q.user] = None
  BY <1>1 DEF Facts
<1>5. q.staged => accounts[q.user] = None /\ \A m \in Mails : users[m] # None => users[m].account # q.user
  BY <1>2, <1>4 DEF TablesInv
<1>6. /\ NewUser(q) \in User
      /\ NewUser(q).account = IF q.op = "member" THEN q.account ELSE q.user
  BY <1>2 DEF NewUser, User
<1>7. NewUser(q) # None
  BY <1>6, SignInAssumption
<1>8. q.op = "member" => q.account # q.user
  BY <1>1, <1>2, <1>5 DEF Facts
<1>9. users' = IF q.staged THEN [users EXCEPT ![q.user] = NewUser(q)] ELSE users
  BY DEF Commit
<1>10. /\ users' \in [Mails -> User \cup {None}]
       /\ \A m \in Mails : users'[m] = (IF q.staged /\ m = q.user THEN NewUser(q) ELSE users[m])
  BY <1>2, <1>6, <1>9 DEF TablesInv
<1>11. links' = IF q.inserts THEN [links EXCEPT ![q.link] = q.user] ELSE links
  BY DEF Commit
<1>12. /\ links' \in [Identities -> Mails \cup {None}]
       /\ \A i \in Identities : links'[i] = (IF q.inserts /\ i = q.link THEN q.user ELSE links[i])
  BY <1>2, <1>11 DEF TablesInv
<1> DEFINE a == NewAccount(q.op = "callback", IF q.op = "setup" THEN 1 ELSE 0)
<1>13. a \in Account /\ a.tokens <= TokenLimit
  BY SignInAssumption DEF NewAccount, Account
<1>14. accounts' = IF q.staged /\ q.op # "member" THEN [accounts EXCEPT ![q.user] = a] ELSE accounts
  BY DEF Commit
<1> HIDE DEF a
<1>15. /\ accounts' \in [Mails -> Account \cup {None}]
       /\ \A m \in Mails : accounts'[m] = (IF q.staged /\ q.op # "member" /\ m = q.user THEN a ELSE accounts[m])
  BY <1>2, <1>13, <1>14 DEF TablesInv
<1>16. Effect(q, a)
  BY <1>10, <1>12, <1>15 DEF Effect
<1>17. Unknown(q)
  BY <1>2, <1>4, <1>5, <1>6, <1>7, <1>8 DEF Unknown
<1> QED BY <1>1, <1>2, <1>3, <1>13, <1>16, <1>17

(* The members of an account are those there were and a staged one. *)
LEMMA CommitMembers ==
    ASSUME TablesInv, RequestsInv, NEW r \in Requests, Commit(r), NEW q, q = req[r], NEW o \in Mails
    PROVE  /\ MembersOf(o)' = IF q.op = "member" /\ q.account = o THEN MembersOf(o) \cup {q.user} ELSE MembersOf(o)
           /\ q.staged /\ o = q.user => MembersOf(o) = {}
<1>0. PICK a \in Account : Effect(q, a) /\ Unknown(q) /\ q.user \in Mails
  BY CommitTables
<1>1. /\ \A m \in Mails : users'[m] = (IF q.staged /\ m = q.user THEN NewUser(q) ELSE users[m])
      /\ q.user \in Mails
      /\ q.staged => /\ users[q.user] = None
                     /\ \A m \in Mails : users[m] # None => users[m].account # q.user
                     /\ NewUser(q) # None
                     /\ NewUser(q).account = IF q.op = "member" THEN q.account ELSE q.user
      /\ q.op = "member" => q.staged /\ q.account # q.user
  BY <1>0 DEF Effect, Unknown
<1>2. q.staged /\ o = q.user => MembersOf(o) = {}
  BY <1>1 DEF MembersOf
<1>3. ASSUME NEW m \in Mails
      PROVE  m \in MembersOf(o)' <=> m \in MembersOf(o) \/ (q.op = "member" /\ q.account = o /\ m = q.user)
  <2>1. m \in MembersOf(o)' <=> m # o /\ users'[m] # None /\ users'[m].account = o
    BY DEF MembersOf
  <2>2. m \in MembersOf(o) <=> m # o /\ users[m] # None /\ users[m].account = o
    BY DEF MembersOf
  <2>3. CASE q.staged /\ m = q.user
    BY <1>1, <2>1, <2>2, <2>3
  <2>4. CASE ~(q.staged /\ m = q.user)
    BY <1>1, <2>1, <2>2, <2>4
  <2> QED BY <2>3, <2>4
<1>4. MembersOf(o) \subseteq Mails /\ MembersOf(o)' \subseteq Mails
  BY DEF MembersOf
<1> QED BY <1>1, <1>2, <1>3, <1>4

LEMMA CommitKeepsTables ==
    ASSUME TablesInv, RequestsInv, NEW r \in Requests, Commit(r)
    PROVE  TablesInv'
<1>0. PICK q : q = req[r]
  OBVIOUS
<1>01. Local(q) /\ Facts(q) /\ q.stage = "done" /\ q.user = q.mail /\ q.user \in Mails /\ Unknown(q)
  BY <1>0, CommitTables
<1>02. PICK a \in Account : (a.free => a.tokens <= TokenLimit) /\ Effect(q, a)
  BY <1>0, CommitTables
<1>1. /\ Local(q) /\ Facts(q) /\ q.stage = "done" /\ q.user = q.mail /\ q.user \in Mails
      /\ \A m \in Mails : users'[m] = (IF q.staged /\ m = q.user THEN NewUser(q) ELSE users[m])
      /\ \A i \in Identities : links'[i] = (IF q.inserts /\ i = q.link THEN q.user ELSE links[i])
      /\ users' \in [Mails -> User \cup {None}] /\ links' \in [Identities -> Mails \cup {None}]
      /\ accounts' \in [Mails -> Account \cup {None}]
      /\ q.staged => /\ users[q.user] = None /\ accounts[q.user] = None
                     /\ \A m \in Mails : users[m] # None => users[m].account # q.user
                     /\ NewUser(q) \in User /\ NewUser(q) # None
                     /\ NewUser(q).account = IF q.op = "member" THEN q.account ELSE q.user
      /\ q.op = "member" => q.staged /\ q.account \in Mails /\ q.account # q.user
  BY <1>01, <1>02 DEF Effect, Unknown
<1>2. /\ a.free => a.tokens <= TokenLimit
      /\ \A m \in Mails : accounts'[m] = (IF q.staged /\ q.op # "member" /\ m = q.user THEN a ELSE accounts[m])
  BY <1>02 DEF Effect
<1>3. a # None
  BY SignInAssumption
<1>4. q.op = "callback" => q.link \in Identities /\ q.user = MailOf[q.link]
  BY <1>1 DEF Local
<1>5. q.inserts => /\ q.op = "callback" /\ links[q.link] = None
                   /\ ~\E j \in Identities : links[j] = q.user /\ ProviderOf[j] = ProviderOf[q.link]
  BY <1>1 DEF Local, Facts, Linked
<1>6. q.op = "callback" => links'[q.link] = q.user
  BY <1>1, <1>4 DEF Facts
<1>7. q.op = "member" => accounts[q.account] # None
  BY <1>1, SignInAssumption DEF Facts
<1>8. ASSUME NEW m \in Mails
      PROVE  accounts'[m] # None <=> users'[m] # None /\ users'[m].account = m
  <2>1. accounts[m] # None <=> users[m] # None /\ users[m].account = m
    BY DEF TablesInv
  <2>2. CASE q.staged /\ m = q.user
    BY <1>1, <1>2, <1>3, <2>1, <2>2
  <2>3. CASE ~(q.staged /\ m = q.user)
    BY <1>1, <1>2, <2>1, <2>3
  <2> QED BY <2>2, <2>3
<1>9. ASSUME NEW m \in Mails, users'[m] # None
      PROVE  /\ accounts'[users'[m].account] # None
             /\ users'[m].password \/ \E i \in Identities : links'[i] = m
  <2>1. \A o \in Mails : accounts[o] # None => accounts'[o] # None
    BY <1>2, <1>3
  <2>2. CASE q.staged /\ m = q.user
    <3>1. accounts'[users'[m].account] # None
      <4>1. CASE q.op = "member"
        BY <4>1, <2>1, <2>2, <1>1, <1>7
      <4>2. CASE q.op # "member"
        BY <4>2, <2>2, <1>1, <1>2, <1>3
      <4> QED BY <4>1, <4>2
    <3>2. users'[m].password \/ \E i \in Identities : links'[i] = m
      <4>1. CASE q.op = "callback"
        BY <4>1, <2>2, <1>4, <1>6
      <4>2. CASE q.op # "callback"
        <5>1. users'[m] = NewUser(q)
          BY <2>2, <1>1
        <5>2. NewUser(q).password = (q.op # "callback")
          BY DEF NewUser
        <5> QED BY <4>2, <5>1, <5>2
      <4> QED BY <4>1, <4>2
    <3> QED BY <3>1, <3>2
  <2>3. CASE ~(q.staged /\ m = q.user)
    <3>1. users'[m] = users[m] /\ users[m] \in User
      BY <2>3, <1>1, <1>9 DEF TablesInv
    <3>2. /\ accounts[users[m].account] # None /\ users[m].account \in Mails
          /\ users[m].password \/ \E i \in Identities : links[i] = m
      BY <3>1, <1>9 DEF TablesInv, User
    <3>3. ASSUME NEW i \in Identities, links[i] = m PROVE links'[i] = m
      BY <3>3, <1>1, <1>5, SignInAssumption
    <3> QED BY <3>1, <3>2, <3>3, <2>1
  <2> QED BY <2>2, <2>3
<1>10. ASSUME NEW i \in Identities, NEW j \in Identities, links'[i] # None
       PROVE  /\ links'[i] = MailOf[i]
              /\ i # j /\ ProviderOf[i] = ProviderOf[j] => links'[j] # links'[i]
  <2>1. links'[i] = MailOf[i]
    BY <1>1, <1>4, <1>5, <1>10 DEF TablesInv
  <2>2. ASSUME i # j, ProviderOf[i] = ProviderOf[j] PROVE links'[j] # links'[i]
    <3>1. links[i] # None => links[j] # links[i]
      BY <2>2 DEF TablesInv
    <3>2. CASE q.inserts /\ i = q.link
      BY <3>2, <2>2, <1>1, <1>5
    <3>3. CASE q.inserts /\ j = q.link
      BY <3>3, <2>2, <1>1, <1>5
    <3>4. CASE ~(q.inserts /\ i = q.link) /\ ~(q.inserts /\ j = q.link)
      BY <3>1, <3>4, <1>1, <1>10
    <3> QED BY <3>2, <3>3, <3>4
  <2> QED BY <2>1, <2>2
<1>11. ASSUME NEW o \in Mails, accounts'[o] # None, accounts'[o].free
       PROVE  accounts'[o].tokens <= TokenLimit /\ Cardinality(MembersOf(o))' <= MemberLimit
  <2>1. /\ MembersOf(o)' = IF q.op = "member" /\ q.account = o THEN MembersOf(o) \cup {q.user} ELSE MembersOf(o)
        /\ q.staged /\ o = q.user => MembersOf(o) = {}
    BY <1>0, CommitMembers
  <2>2. CASE q.staged /\ q.op # "member" /\ o = q.user
    <3>1. MembersOf(o)' = {} /\ accounts'[o] = a
      BY <2>1, <2>2, <1>1, <1>2
    <3>2. Cardinality({}) = 0
      BY FS_EmptySet
    <3> QED BY <3>1, <3>2, <1>2, <1>11, SignInAssumption
  <2>3. CASE ~(q.staged /\ q.op # "member" /\ o = q.user)
    <3>1. accounts'[o] = accounts[o]
      BY <2>3, <1>1, <1>2
    <3>2. accounts[o].tokens <= TokenLimit /\ Cardinality(MembersOf(o)) <= MemberLimit
      BY <3>1, <1>11 DEF TablesInv, WithinPlan
    <3>3. CASE q.op = "member" /\ q.account = o
      <4>1. Cardinality(MembersOf(o)) < MemberLimit
        BY <3>1, <3>3, <1>1, <1>11, SignInAssumption DEF Facts
      <4>2. IsFiniteSet(MembersOf(o))
        <5>1. MembersOf(o) \subseteq Mails
          BY DEF MembersOf
        <5> QED BY <5>1, SignInAssumption, FS_Subset
      <4>3. Cardinality(MembersOf(o) \cup {q.user}) <= Cardinality(MembersOf(o)) + 1
        <5>1. CASE q.user \in MembersOf(o)
          <6>1. MembersOf(o) \cup {q.user} = MembersOf(o)
            BY <5>1
          <6>2. Cardinality(MembersOf(o)) \in Nat
            BY <4>2, FS_CardinalityType
          <6>3. Cardinality(MembersOf(o) \cup {q.user}) = Cardinality(MembersOf(o))
            BY ONLY <6>1
          <6> QED BY <6>2, <6>3
        <5>2. CASE q.user \notin MembersOf(o)
          <6>1. Cardinality(MembersOf(o) \cup {q.user}) = Cardinality(MembersOf(o)) + 1
            BY <5>2, <4>2, FS_AddElement
          <6>2. Cardinality(MembersOf(o)) \in Nat
            BY <4>2, FS_CardinalityType
          <6> QED BY <6>1, <6>2
        <5> QED BY <5>1, <5>2
      <4>4. Cardinality(MembersOf(o)) \in Nat /\ Cardinality(MembersOf(o) \cup {q.user}) \in Nat
        BY <4>2, FS_CardinalityType, FS_AddElement
      <4>5. MembersOf(o)' = MembersOf(o) \cup {q.user}
        BY <2>1, <3>3
      <4> QED BY <3>1, <3>2, <4>1, <4>3, <4>4, <4>5, SignInAssumption
    <3>4. CASE ~(q.op = "member" /\ q.account = o)
      BY <2>1, <3>1, <3>2, <3>4
    <3> QED BY <3>3, <3>4
  <2> QED BY <2>2, <2>3
<1>12. WithinPlan'
  BY <1>11 DEF WithinPlan
<1> QED BY <1>1, <1>8, <1>9, <1>10, <1>12 DEF TablesInv

LEMMA CommitSafe ==
    ASSUME TablesInv, RequestsInv, NEW r \in Requests, Commit(r)
    PROVE  TablesInv' /\ RequestsInv'
<1>1. TablesInv'
  BY CommitKeepsTables
<1>2. PICK q : q = req[r]
  OBVIOUS
<1>3. /\ Local(q) /\ Facts(q) /\ q.stage = "done" /\ q.user = q.mail /\ q.user \in Mails /\ Unknown(q)
      /\ Go(r, [Blank EXCEPT !.stage = "in", !.op = q.op, !.link = q.link, !.user = q.user])
  BY <1>2, CommitTables
<1>4. PICK a \in Account : Effect(q, a)
  BY <1>2, CommitTables
<1>5. a # None
  BY SignInAssumption
<1>6. /\ q.op = "callback" => q.link \in Identities
      /\ q.inserts => q.op = "callback" /\ ~Linked(q.link, q.user)
  BY <1>3 DEF Local, Facts
<1>7. ASSUME NEW x \in Requests \ {r} PROVE Facts(req[x])'
  <2>0. PICK p : p = req[x]
    OBVIOUS
  <2>1. Facts(p) /\ Local(p) /\ Compatible(q, p)
    BY <1>2, <1>7, <2>0 DEF RequestsInv
  <2>2. /\ p.account # None => p.account \in Mails
        /\ p.stage \in {"welcome", "onboarding"} => p.user \in Mails
        /\ p.staged => p.user \in Mails
        /\ p.inserts => p.link \in Identities
        /\ p.op = "callback" /\ p.stage \in {"done", "in"} => p.link \in Identities /\ p.user \in Mails
    BY <2>1, SignInAssumption DEF Local, Request
  <2>3. p.inserts => ~(Linked(p.link, p.user)')
    <3> SUFFICES ASSUME p.inserts, Linked(p.link, p.user)' PROVE FALSE
      OBVIOUS
    <3>1. ~Linked(p.link, p.user) /\ p.link \in Identities
      BY <2>1, <2>2 DEF Facts
    <3>2. CASE links'[p.link] # None
      <4>1. q.inserts /\ p.link = q.link
        BY <3>1, <3>2, <1>4 DEF Linked, Effect
      <4> QED BY <4>1, <2>1 DEF Compatible
    <3>3. CASE \E j \in Identities : links'[j] = p.user /\ ProviderOf[j] = ProviderOf[p.link]
      <4>1. PICK j \in Identities : links'[j] = p.user /\ ProviderOf[j] = ProviderOf[p.link]
        BY <3>3
      <4>2. q.inserts /\ j = q.link /\ q.user = p.user
        BY <4>1, <3>1, <1>4 DEF Linked, Effect
      <4> QED BY <4>1, <4>2, <2>1 DEF Compatible
    <3> QED BY <3>2, <3>3 DEF Linked
  <2>4. p.staged => users'[p.user] = None
    BY <2>1, <2>2, <1>4 DEF Facts, Compatible, Effect
  <2>5. req'[x] = p
    BY <2>0, <1>3, <1>7 DEF Go, RequestsInv
  <2>6. p.op = "member" /\ p.account # None =>
           /\ accounts'[p.account] # None /\ (accounts'[p.account].free => accounts[p.account].free)
           /\ MembersOf(p.account)' = MembersOf(p.account)
    <3> SUFFICES ASSUME p.op = "member", p.account # None
                 PROVE  /\ accounts'[p.account] # None /\ (accounts'[p.account].free => accounts[p.account].free)
                        /\ MembersOf(p.account)' = MembersOf(p.account)
      OBVIOUS
    <3>1. accounts[p.account] # None /\ p.account \in Mails
      BY <2>1, <2>2 DEF Facts
    <3>2. accounts'[p.account] = accounts[p.account]
      BY <3>1, <1>3, <1>4 DEF Effect, Unknown
    <3>3. ~(q.op = "member" /\ q.account = p.account)
      BY <2>1 DEF Compatible
    <3>4. MembersOf(p.account)' = MembersOf(p.account)
      BY <3>1, <3>3, <1>2, CommitMembers
    <3> QED BY <3>1, <3>2, <3>4
  <2>7. /\ p.stage \in {"welcome", "onboarding"} => accounts'[p.user] # None
        /\ p.stage = "onboarding" => accounts'[p.user].tokens = accounts[p.user].tokens
    <3> SUFFICES ASSUME p.stage \in {"welcome", "onboarding"}
                 PROVE  accounts'[p.user] # None /\ accounts'[p.user].tokens = accounts[p.user].tokens
      OBVIOUS
    <3>1. accounts[p.user] # None /\ p.user \in Mails
      BY <2>1, <2>2 DEF Facts
    <3>2. accounts'[p.user] = accounts[p.user]
      BY <3>1, <1>3, <1>4 DEF Effect, Unknown
    <3> QED BY <3>1, <3>2
  <2>8. p.op = "callback" /\ p.stage \in {"done", "in"} /\ links[p.link] = p.user => links'[p.link] = p.user
    BY <1>4, <1>6, <2>2, SignInAssumption DEF Effect, Linked
  <2>9. Facts(p)'
    BY <2>1, <2>3, <2>4, <2>6, <2>7, <2>8, FactsKept
  <2> QED BY <2>5, <2>9
<1>8. PICK c : c = [Blank EXCEPT !.stage = "in", !.op = q.op, !.link = q.link, !.user = q.user]
  OBVIOUS
<1>9. q \in Request
  BY <1>3 DEF Local
<1>10. /\ c \in Request /\ c.stage = "in" /\ c.op = q.op /\ c.link = q.link /\ c.user = q.user
       /\ c.account = None /\ c.staged = FALSE /\ c.inserts = FALSE
  BY <1>3, <1>8, <1>9 DEF Blank, Request
<1>11. Local(c)
  BY <1>3, <1>6, <1>10 DEF Local
<1>12. c.op = "callback" => links'[c.link] = c.user
  BY <1>3, <1>4, <1>6, <1>10 DEF Facts, Effect
<1>13. RequestsInv'
  BY <1>1, <1>3, <1>7, <1>8, <1>10, <1>11, <1>12, InSafe
<1> QED BY <1>1, <1>13

-----------------------------------------------------------------------------
LEMMA IInvInit == Init => IInv
<1> SUFFICES ASSUME Init PROVE IInv
  OBVIOUS
<1>1. RateInv
  BY RateAssumption DEF Init, RateInit, RateInv
<1>2. TablesInv
  BY DEF Init, TablesInv, WithinPlan
<1>3. Local(Blank) /\ Facts(Blank)
  BY BlankFields, SignInAssumption DEF Local, Facts
<1>4. Compatible(Blank, Blank)
  BY BlankFields DEF Compatible
<1>5. DOMAIN req = Requests /\ \A r \in Requests : req[r] = Blank
  BY DEF Init
<1>6. RequestsInv
  BY <1>3, <1>4, <1>5 DEF RequestsInv
<1> QED BY <1>1, <1>2, <1>6 DEF IInv

LEMMA IInvNext == IInv /\ [Next]_vars => IInv'
<1> SUFFICES ASSUME IInv, [Next]_vars PROVE IInv'
  OBVIOUS
<1>0. RateInv /\ TablesInv /\ RequestsInv
  BY DEF IInv
<1>1. ASSUME UNCHANGED rateVars PROVE RateInv'
  BY <1>0, <1>1 DEF RateInv, rateVars, Expired
<1>2. ASSUME UNCHANGED <<base, req>> PROVE TablesInv' /\ RequestsInv'
  <2>1. users' = users /\ links' = links /\ accounts' = accounts /\ req' = req
    BY <1>2 DEF base
  <2>2. TablesInv'
    BY <1>0, <2>1 DEF TablesInv, WithinPlan, MembersOf
  <2>3. \A p : Facts(p) => Facts(p)'
    BY <2>1 DEF Facts, Linked, MembersOf
  <2> QED BY <1>0, <2>1, <2>2, <2>3 DEF RequestsInv
<1>3. CASE UNCHANGED vars
  BY <1>1, <1>2, <1>3 DEF vars, IInv
<1>4. ASSUME NEW r \in Requests, Start(r) PROVE IInv'
  <2>1. UNCHANGED rateVars \/ \E ks, ok : Consume(ks, ok)
    BY <1>4 DEF Start, StartCallback, StartSetup, StartMember, Login, StartWelcome
  <2>2. RateInv'
    BY <2>1, <1>0, <1>1, ConsumeSafe
  <2> QED BY <2>2, <1>0, <1>4, StartSafe DEF IInv
<1>5. ASSUME NEW r \in Requests, Continue(r) \/ NotVouched(r) \/ Abort(r) PROVE IInv'
  <2>1. UNCHANGED rateVars
    BY <1>5 DEF Continue, NotVouched, Abort, LookUpIdentity, CheckLinked, LookUpMail, CheckRegistered,
       CreateAccount, FindLink, InsertLink, ResolveWinner, Commit, LockCapacity, CommitWelcome
  <2>2. CASE \/ NotVouched(r) \/ LookUpIdentity(r) \/ CheckLinked(r) \/ LookUpMail(r)
             \/ \E signup \in BOOLEAN : CheckRegistered(r, signup)
             \/ ResolveWinner(r)
    BY <2>1, <2>2, <1>0, <1>1, LookingSafe DEF IInv
  <2>3. CASE CreateAccount(r) \/ FindLink(r) \/ InsertLink(r)
    BY <2>1, <2>3, <1>0, <1>1, CreateAccountSafe, FindLinkSafe, InsertLinkSafe DEF IInv
  <2>4. CASE LockCapacity(r) \/ CommitWelcome(r) \/ Commit(r) \/ Abort(r)
    BY <2>1, <2>4, <1>0, <1>1, LockCapacitySafe, CommitWelcomeSafe, CommitSafe, AbortSafe DEF IInv
  <2> QED BY <2>2, <2>3, <2>4, <1>5 DEF Continue
<1>6. ASSUME NEW o \in Mails, NEW on \in BOOLEAN, SetActive(o, on) PROVE IInv'
  <2>1. UNCHANGED rateVars
    BY <1>6 DEF SetActive
  <2> QED BY <2>1, <1>0, <1>1, <1>6, SetActiveSafe DEF IInv
<1>7. CASE (Tick \/ Prune) /\ UNCHANGED <<base, req>>
  BY <1>0, <1>2, <1>7, TimeSafe DEF IInv
<1>8. CASE Next
  BY <1>4, <1>5, <1>6, <1>7, <1>8 DEF Next
<1> QED BY <1>3, <1>8

THEOREM SignInInvariant == Spec => []IInv
BY IInvInit, IInvNext, PTL DEF Spec

(* A committed tenant is whole: the owner has the account, the account its *)
(* owner, and the owner a way in, whichever requests die or lose a race.   *)
THEOREM SignInNoHalfTenant == Spec => []NoHalfTenant
<1>1. IInv => NoHalfTenant
  BY DEF IInv, RateInv, TablesInv, RequestsInv, Local, Request, NoHalfTenant, TypeOK
<1> QED BY <1>1, SignInInvariant, PTL

(* An identity comes in as the one user it is linked to, although it is    *)
(* looked up, missed and inserted by statements that interleave.           *)
THEOREM SignInIdentityIsOneUser == Spec => []IdentityIsOneUser
<1>1. IInv => IdentityIsOneUser
  BY DEF IInv, TablesInv, RequestsInv, Facts, IdentityIsOneUser, At
<1> QED BY <1>1, SignInInvariant, PTL

(* Tokens, members and attempts stay below their limits, for any limits,   *)
(* windows and retention that is no shorter than a window.                 *)
THEOREM SignInLimitsHold == Spec => []LimitsHold
<1>1. IInv => LimitsHold
  BY DEF IInv, RateInv, TablesInv, LimitsHold, AllowedWithinLimit
<1> QED BY <1>1, SignInInvariant, PTL
=============================================================================
