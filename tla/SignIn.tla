------------------------------- MODULE SignIn -------------------------------
(***************************************************************************)
(* How people come in (app/auth/router, auth/oauth, auth/service,          *)
(* accounts/service, accounts/members): callbacks of the OAuth providers,  *)
(* which may open an account, the first-run setup, collaborators created   *)
(* by an owner, password logins and the onboarding of a free account.      *)
(*                                                                         *)
(* Each request is one transaction of several statements.  What it has     *)
(* inserted is seen by nobody before its commit, but its unique keys make  *)
(* another insertion of the same key wait for the outcome.                 *)
(***************************************************************************)
EXTENDS RateLimit, FiniteSets

CONSTANTS
    Requests,
    Mails,         \* addresses; a user is known by the address, casefolded and unique
    Identities,    \* (provider, subject) pairs
    MailOf,        \* the verified address of an identity
    ProviderOf,
    None,
    TokenLimit,    \* tokens_per_project of the free plan
    MemberLimit    \* members of the free plan, its owner not counted

VARIABLES
    users,       \* users: account (its owner's address), password, superadmin
    links,       \* oauth_identities: the user of an identity
    accounts,    \* per owner's address: active, plan, onboarded, tokens
    req

base == <<users, links, accounts>>
vars == <<base, req, rateVars>>

User == [account : Mails, password : BOOLEAN, super : BOOLEAN]
Account == [active : BOOLEAN, free : BOOLEAN, onboarded : BOOLEAN, tokens : Nat]

ASSUME SignInAssumption ==
    /\ MailOf \in [Identities -> Mails] /\ IsFiniteSet(Mails)
    /\ Keys = {"oauth_callback", "password_login_ip"} \cup Mails
    /\ TokenLimit \in Nat \ {0} /\ MemberLimit \in Nat
    /\ None \notin {"callback", "setup", "member", "welcome"} \cup Mails \cup User \cup Account

NewAccount(free, tokens) ==
    [active |-> TRUE, free |-> free, onboarded |-> FALSE, tokens |-> tokens]

NewUser(q) ==
    [account |-> IF q.op = "member" THEN q.account ELSE q.mail,
     password |-> q.op # "callback", super |-> q.op = "setup"]

(* Of a staged user nothing is committed yet. *)
Blank == [stage |-> "new", op |-> None, mail |-> None, link |-> None,
          user |-> None, account |-> None, staged |-> FALSE, inserts |-> FALSE]

At(stage) == {r \in Requests : req[r].stage = stage}
Ended == {"in", "refused", "failed"}

Go(r, q) == req' = [req EXCEPT ![r] = q]
To(r, stage) == Go(r, [req[r] EXCEPT !.stage = stage])

(* Of a request that has ended, what the properties ask is kept.           *)
End(r, stage) == Go(r, [Blank EXCEPT !.stage = stage, !.op = req[r].op])
Enter(r, u) == Go(r, [Blank EXCEPT !.stage = "in", !.op = req[r].op, !.link = req[r].link,
                                   !.user = u])

(* The user exists, and its account and subscription are active. *)
Usable(u) == u # None /\ users[u] # None /\ accounts[users[u].account].active

(* The uncommitted rows of the other requests. *)
Others(r) == {req[x] : x \in Requests \ {r}}
MailHeld(r, m) == \E x \in Others(r) : x.staged /\ x.user = m
LinkHeld(r, i, u) == \E x \in Others(r) : x.inserts
    /\ (x.link = i \/ (x.user = u /\ ProviderOf[x.link] = ProviderOf[i]))

(* Mutant of SubscriptionHeld: the subscription is read without FOR UPDATE. *)
NeverHeld(r, o) == FALSE

(* The subscription row of an account, locked to the end of the request.   *)
SubscriptionHeld(r, o) == \E x \in Others(r) : x.account = o /\ x.stage \notin Ended

(***************************************************************************)
(* Callbacks.  Identity, link, address and registration are four queries.  *)
(***************************************************************************)
StartCallback(r, i) ==
    /\ req[r].stage = "new"
    /\ \E ok \in BOOLEAN :
         /\ Consume({"oauth_callback"}, ok)
         /\ Go(r, IF ok THEN [Blank EXCEPT !.stage = "asking", !.op = "callback",
                               !.mail = MailOf[i], !.link = i]
                   ELSE [Blank EXCEPT !.stage = "refused"])
    /\ UNCHANGED base

(* The provider does not vouch for the code or the address. *)
NotVouched(r) == r \in At("asking") /\ End(r, "refused") /\ UNCHANGED <<base, rateVars>>

(* Mutant of LookUpIdentity: the address comes in without its identity. *)
LookUpAddress(r) ==
    /\ r \in At("asking")
    /\ LET u == req[r].mail
       IN  IF Usable(u) THEN Enter(r, u) ELSE To(r, "unlinked")
    /\ UNCHANGED <<base, rateVars>>

LookUpIdentity(r) ==
    /\ r \in At("asking")
    /\ LET u == links[req[r].link]
       IN  IF Usable(u) THEN Enter(r, u) ELSE To(r, "unlinked")
    /\ UNCHANGED <<base, rateVars>>

CheckLinked(r) ==
    /\ r \in At("unlinked")
    /\ IF links[req[r].link] # None THEN End(r, "refused") ELSE To(r, "looking")
    /\ UNCHANGED <<base, rateVars>>

LookUpMail(r) ==
    /\ r \in At("looking")
    /\ IF Usable(req[r].mail) THEN Go(r, [req[r] EXCEPT !.stage = "linking", !.user = req[r].mail])
       ELSE To(r, "unknown")
    /\ UNCHANGED <<base, rateVars>>

(* signup: the signed state was made by /signup, with the terms accepted.  *)
CheckRegistered(r, signup) ==
    /\ r \in At("unknown")
    /\ IF users[req[r].mail] # None \/ ~signup THEN End(r, "refused")
       ELSE To(r, "creating")
    /\ UNCHANGED <<base, rateVars>>

(* Mutant of CreateAccount: the owner is committed on his own. *)
CreateAndCommit(r) ==
    /\ r \in At("creating") /\ users[req[r].mail] = None
    /\ LET q == req[r]
       IN  /\ users' = [users EXCEPT ![q.mail] = NewUser(q)]
           /\ Go(r, [q EXCEPT !.staged = TRUE, !.user = q.mail,
                              !.stage = IF q.op = "callback" THEN "linking" ELSE "done"])
    /\ UNCHANGED <<links, accounts, rateVars>>

(***************************************************************************)
(* create_account: the address is asked again and inserted.  Its error and *)
(* a violation of the unique key are caught by nobody.                     *)
(***************************************************************************)
CreateAccount(r) ==
    /\ r \in At("creating")
    /\ ~MailHeld(r, req[r].mail)
    /\ IF users[req[r].mail] # None THEN End(r, "failed")
       ELSE Go(r, [req[r] EXCEPT !.staged = TRUE, !.user = req[r].mail,
                                 !.stage = IF req[r].op = "callback" THEN "linking" ELSE "done"])
    /\ UNCHANGED <<base, rateVars>>

(* link_oauth_identity: a link that exists is refreshed, else inserted.    *)
FindLink(r) ==
    /\ r \in At("linking")
    /\ To(r, IF links[req[r].link] # None THEN "done" ELSE "inserting")
    /\ UNCHANGED <<base, rateVars>>

Linked(i, u) ==
    links[i] # None \/ \E j \in Identities : links[j] = u /\ ProviderOf[j] = ProviderOf[i]

InsertLink(r) ==
    /\ r \in At("inserting")
    /\ LET q == req[r]
       IN  /\ ~LinkHeld(r, q.link, q.user)
           /\ IF Linked(q.link, q.user)
              THEN Go(r, [q EXCEPT !.stage = "resolving", !.user = None, !.staged = FALSE])
              ELSE Go(r, [q EXCEPT !.stage = "done", !.inserts = TRUE])
    /\ UNCHANGED <<base, rateVars>>

(* Mutant of ResolveWinner: the winner is asked for until it is found. *)
AwaitWinner(r) ==
    /\ r \in At("resolving") /\ Usable(links[req[r].link])
    /\ Enter(r, links[req[r].link])
    /\ UNCHANGED <<base, rateVars>>

(* The loser of a double callback is rolled back and asks for the winner.  *)
ResolveWinner(r) ==
    /\ r \in At("resolving")
    /\ LET u == links[req[r].link]
       IN  IF Usable(u) THEN Enter(r, u) ELSE End(r, "refused")
    /\ UNCHANGED <<base, rateVars>>

(***************************************************************************)
(* The other ways to create a user.                                        *)
(***************************************************************************)
StartSetup(r, m) ==
    /\ req[r].stage = "new" /\ \A u \in Mails : users[u] = None
    /\ Go(r, [Blank EXCEPT !.stage = "creating", !.op = "setup", !.mail = m])
    /\ UNCHANGED <<base, rateVars>>

MembersOf(o) == {m \in Mails \ {o} : users[m] # None /\ users[m].account = o}

(* The capacity of the account is asked, and its subscription locked, first. *)
StartMember(r, o, m) ==
    /\ req[r].stage = "new" /\ Usable(o) /\ users[o].account = o
    /\ ~SubscriptionHeld(r, o)
    /\ Go(r, IF /\ users[m] = None
                /\ accounts[o].free => Cardinality(MembersOf(o)) < MemberLimit
             THEN [Blank EXCEPT !.stage = "creating", !.op = "member", !.mail = m, !.account = o]
             ELSE [Blank EXCEPT !.stage = "refused"])
    /\ UNCHANGED <<base, rateVars>>

(* Everything a request staged becomes visible together.                   *)
Commit(r) ==
    /\ r \in At("done")
    /\ LET q == req[r]
       IN  /\ users' = IF q.staged THEN [users EXCEPT ![q.user] = NewUser(q)] ELSE users
           /\ accounts' = IF q.staged /\ q.op # "member"
                          THEN [accounts EXCEPT ![q.user] =
                                 NewAccount(q.op = "callback", IF q.op = "setup" THEN 1 ELSE 0)]
                          ELSE accounts
           /\ links' = IF q.inserts THEN [links EXCEPT ![q.link] = q.user] ELSE links
           /\ Enter(r, q.user)
    /\ UNCHANGED rateVars

(* A wrong password is counted for the address before it is answered.      *)
Login(r, m, right) ==
    /\ req[r].stage = "new"
    /\ IF right /\ Usable(m) /\ users[m].password
       THEN Go(r, [Blank EXCEPT !.stage = "in", !.user = m]) /\ UNCHANGED rateVars
       ELSE \E ok \in BOOLEAN :
              /\ Consume({"password_login_ip", m}, ok)
              /\ Go(r, [Blank EXCEPT !.stage = "refused"])
    /\ UNCHANGED base

(***************************************************************************)
(* Onboarding: the subscription is read, then locked by the capacity check *)
(* of the first token; the read is not repeated under the lock.            *)
(***************************************************************************)
StartWelcome(r, o) ==
    /\ req[r].stage = "new" /\ Usable(o) /\ users[o].account = o
    /\ accounts[o].free /\ ~accounts[o].onboarded
    /\ Go(r, [Blank EXCEPT !.stage = "welcome", !.op = "welcome", !.user = o])
    /\ UNCHANGED <<base, rateVars>>

LockCapacity(r) ==
    /\ r \in At("welcome")
    /\ ~SubscriptionHeld(r, req[r].user)
    /\ LET o == req[r].user
       IN  IF accounts[o].active /\ accounts[o].tokens < TokenLimit
           THEN Go(r, [req[r] EXCEPT !.stage = "onboarding", !.account = o])
           ELSE End(r, "refused")
    /\ UNCHANGED <<base, rateVars>>

CommitWelcome(r) ==
    /\ r \in At("onboarding")
    /\ accounts' = [accounts EXCEPT ![req[r].user].tokens = @ + 1, ![req[r].user].onboarded = TRUE]
    /\ Enter(r, req[r].user)
    /\ UNCHANGED <<users, links, rateVars>>

(* A request dies: the server stops or the client leaves. *)
Abort(r) ==
    /\ req[r].stage \notin Ended \cup {"new"}
    /\ Go(r, [Blank EXCEPT !.stage = "failed"])
    /\ UNCHANGED <<base, rateVars>>

(* The operator closes or opens an account. *)
SetActive(o, on) ==
    /\ accounts[o] # None /\ accounts[o].active # on
    /\ accounts' = [accounts EXCEPT ![o].active = on]
    /\ UNCHANGED <<users, links, req, rateVars>>

-----------------------------------------------------------------------------

Init ==
    /\ users = [m \in Mails |-> None] /\ links = [i \in Identities |-> None]
    /\ accounts = [m \in Mails |-> None]
    /\ req = [r \in Requests |-> Blank]
    /\ RateInit

Start(r) ==
    \/ \E i \in Identities : StartCallback(r, i)
    \/ \E m \in Mails : StartSetup(r, m)
    \/ \E o, m \in Mails : StartMember(r, o, m)
    \/ \E m \in Mails, right \in BOOLEAN : Login(r, m, right)
    \/ \E o \in Mails : StartWelcome(r, o)

(* What a request that has started does next. *)
Continue(r) ==
    \/ LookUpIdentity(r) \/ CheckLinked(r) \/ LookUpMail(r)
    \/ \E signup \in BOOLEAN : CheckRegistered(r, signup)
    \/ CreateAccount(r) \/ FindLink(r) \/ InsertLink(r) \/ ResolveWinner(r) \/ Commit(r)
    \/ LockCapacity(r) \/ CommitWelcome(r)

Next ==
    \/ \E r \in Requests : Start(r) \/ Continue(r) \/ NotVouched(r) \/ Abort(r)
    \/ \E o \in Mails, on \in BOOLEAN : SetActive(o, on)
    \/ (Tick \/ Prune) /\ UNCHANGED <<base, req>>

Spec == Init /\ [][Next]_vars

(* A handler is run to its end. *)
Fairness == \A r \in Requests : WF_vars(Continue(r))

FairSpec == Spec /\ Fairness

-----------------------------------------------------------------------------

TypeOK ==
    /\ users \in [Mails -> User \cup {None}] /\ links \in [Identities -> Mails \cup {None}]
    /\ accounts \in [Mails -> Account \cup {None}]
    /\ now \in 0..MaxNow /\ attempts \in [Keys -> [Starts -> Nat]]
    /\ \A r \in Requests : req[r].user \in Mails \cup {None}

(* A committed tenant is whole: the owner has the account, the account its *)
(* owner, and the owner a password or a linked identity to come in by.     *)
NoHalfTenant ==
    TypeOK /\ \A m \in Mails :
        /\ accounts[m] # None <=> users[m] # None /\ users[m].account = m
        /\ users[m] # None =>
             /\ accounts[users[m].account] # None
             /\ users[m].password \/ \E i \in Identities : links[i] = m

(* An identity comes in as the user it is linked to, and the link leads to *)
(* the user of its address, each user having one identity of a provider.   *)
IdentityIsOneUser ==
    /\ \A r \in At("in") : req[r].op = "callback" => links[req[r].link] = req[r].user
    /\ \A i, j \in Identities :
         links[i] # None => /\ links[i] = MailOf[i]
                            /\ i # j /\ ProviderOf[i] = ProviderOf[j] => links[j] # links[i]

(* A free account has no more tokens in its project and no more members    *)
(* than its plan, however its owner's requests interleave.                 *)
WithinPlan ==
    \A o \in Mails : accounts[o] # None /\ accounts[o].free =>
        accounts[o].tokens <= TokenLimit /\ Cardinality(MembersOf(o)) <= MemberLimit

(* What counts up stays below its limit: tokens and members below the plan, *)
(* allowed attempts below the rate (plans.py:235-258, rate_limit.py:55-89).  *)
LimitsHold == WithinPlan /\ AllowedWithinLimit

(* A handler ends: nobody waits forever on the unique keys and the locks   *)
(* of requests that wait themselves.                                       *)
RequestsEnd == \A r \in Requests : req[r].stage # "new" ~> req[r].stage \in Ended

(* The comment at auth/router.py:316: the loser of a double callback is    *)
(* resolved instead of leaking a 500.                                      *)
NoCallbackFails == \A r \in At("failed") : req[r].op # "callback"
=============================================================================
