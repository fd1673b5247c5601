----------------------------- MODULE Workspace -----------------------------
(***************************************************************************)
(* The shared configuration of an account (app/projects, app/accounts,     *)
(* app/auth/deps, app/webhooks/connection): who may reach which project,   *)
(* which modules are on, which tokens live, which Sentry slug leads where. *)
(* Every HTTP request reads some of it in several statements of one READ   *)
(* COMMITTED transaction and acts on what it read, while other requests    *)
(* change it.  A request is a record; `ever' is a history variable: the    *)
(* facts about its target that were true at some moment of the request.    *)
(***************************************************************************)
EXTENDS Naturals, FiniteSets, Sequences

CONSTANTS
    Users, Accounts, Projects, Tokens, Requests,
    Optional,           \* the optional modules ("threads", "incidents", ...)
    Slugs, Issues,      \* Sentry project slugs, Sentry issues
    None,
    AccountOf,          \* the account of a user
    Owners,             \* the users whose account_role is owner
    SlugOf,             \* the slug in an issue's payload, None without one
    Starts              \* the configurations the requests start from

Scopes == {"read", "write"}
Roles == {"viewer", "editor"}
Token == [project : Projects, scope : Scopes, by : Users, revoked : BOOLEAN]
Issue == [account : Accounts \cup {None}, project : Projects \cup {None}]

ASSUME ConfigAssumption ==
    /\ AccountOf \in [Users -> Accounts] /\ Owners \subseteq Users
    /\ SlugOf \in [Issues -> Slugs \cup {None}]
    /\ Users \cap Tokens = {}
    /\ None \notin Users \cup Accounts \cup Projects \cup Tokens \cup Slugs \cup Optional
    /\ None \notin Token /\ None \notin Issue

(* What the database's keys and the code that filled it guarantee. *)
ASSUME StartsAssumption == \A c \in Starts :
    /\ c.home \in [Projects -> Accounts \cup {None}] /\ c.born \in Seq(Projects)
    /\ {c.born[i] : i \in DOMAIN c.born} = {p \in Projects : c.home[p] # None}
    /\ \A i, j \in DOMAIN c.born : c.born[i] = c.born[j] => i = j
    /\ c.grant \in [Users -> [Projects -> Roles \cup {"none"}]]
    /\ c.modules \in [Projects -> SUBSET Optional] /\ c.tokens \in [Tokens -> Token \cup {None}]
    /\ c.sentry \in [Projects -> Slugs \cup {None}] /\ c.issues \in [Issues -> Issue \cup {None}]
    /\ \A u \in Users, p \in Projects : c.grant[u][p] # "none" => c.home[p] = AccountOf[u]
    /\ \A t \in Tokens : c.tokens[t] # None => c.home[c.tokens[t].project] = AccountOf[c.tokens[t].by]
    /\ \A p \in Projects : c.sentry[p] # None => c.home[p] # None
    /\ \A p, o \in Projects : p # o /\ c.sentry[p] # None /\ c.home[p] = c.home[o] => c.sentry[p] # c.sentry[o]

VARIABLES
    active,     \* accounts.is_active and the subscription's status, per account
    home,       \* projects.account_id, None before the project exists
    born,       \* the projects in the order of created_at
    grant,      \* project_members.role, "none" without a row
    deleted,    \* how often that row was deleted: another one has another id
    modules,    \* project_modules: the optional modules enabled
    trail,      \* project_module_events replayed: the state they add up to
    tokens,     \* api_tokens
    chosen,     \* current_project_id in the session cookie of a user
    sentry,     \* projects.sentry_project_slug
    issues,     \* sentry_issues: account and project of a row, None without one
    req         \* the requests

places == <<active, home, born>>
access == <<grant, deleted>>
features == <<modules, trail>>
keys == <<tokens, chosen>>
routing == <<sentry, issues>>
config == <<places, access, features, keys, routing>>
vars == <<config, req>>

Presets == {{}, {"threads", "incidents"} \cap Optional, {"management"} \cap Optional, Optional}
Existing == {p \in Projects : home[p] # None}
OfAccount(a) == {p \in Existing : home[p] = a}

(***************************************************************************)
(* Access.                                                                 *)
(***************************************************************************)
Live(who) ==
    IF who \in Users THEN active[AccountOf[who]]
    ELSE /\ tokens[who] # None /\ ~tokens[who].revoked
         /\ active[AccountOf[tokens[who].by]]

Reach(u) ==
    IF u \in Owners THEN OfAccount(AccountOf[u])
    ELSE {p \in Projects : grant[u][p] # "none"}

RoleOn(u, p) ==
    IF p = None \/ home[p] # AccountOf[u] THEN "none"
    ELSE IF u \in Owners THEN "editor" ELSE grant[u][p]

First(ps) == LET i == CHOOSE i \in DOMAIN born :
                        born[i] \in ps /\ \A j \in 1..(i - 1) : born[j] \notin ps
             IN  born[i]

Current(u, sid) ==
    CASE Reach(u) = {} -> None
      [] sid \in Reach(u) -> sid
      [] OTHER -> First(Reach(u))

(* The project a handler acts on: the one cached with the request's module *)
(* context, else the selected one, which must still be accessible.         *)
Resolve(q) ==
    IF q.project # None THEN q.project
    ELSE IF q.arg.via = "rest" /\ q.sid # None /\ q.sid \in Reach(q.who) THEN q.sid
    ELSE None

Routed(a, slug) ==
    LET of(s) == {p \in OfAccount(a) : sentry[p] = s}
        mapped == {p \in OfAccount(a) : sentry[p] # None}
    IN  IF slug # None THEN of(slug) ELSE IF Cardinality(mapped) = 1 THEN mapped ELSE {}

(***************************************************************************)
(* Requests.  A request is "new", then goes through the stages of its      *)
(* operation and is "done" or "refused".                                   *)
(***************************************************************************)
At(stage) == {r \in Requests : req[r].stage = stage}
Blank == [stage |-> "new", op |-> None, who |-> None, project |-> None,
          arg |-> None, sid |-> None, seen |-> None, ever |-> {}]

(* The facts a request's outcome depends on that are true now. *)
Facts(q) ==
    CASE q.op = "work" ->
            {<<"on", p>> : p \in {p \in Existing : q.arg.module \in modules[p]}}
              \cup {<<RoleOn(q.who, p), p>> : p \in IF q.who \in Users THEN Existing ELSE {}}
      [] q.op = "mint" -> {<<RoleOn(q.who, q.project), q.project>>}
      [] q.op = "grant" -> {<<grant[q.arg.user][q.project]>>}
      [] q.op \in {"hook", "reattach"} -> {<<sentry[p], p>> : p \in Existing}
      [] OTHER -> {}

Stages == {"new", "admitted", "ready", "minting", "configuring", "locked", "saving", "granting",
           "ingesting", "reattaching", "done", "refused"}
Running(q) == q.stage \notin {"new", "done", "refused"}

(* Request r goes on as q; what is true now was true while a request ran. *)
Go(r, q) ==
    req' = [x \in Requests |->
              LET y == IF x = r THEN q ELSE req[x]
              IN  IF Running(y) \/ x = r THEN [y EXCEPT !.ever = @ \cup Facts(y)] ELSE y]

Begin(r, op, who, stage, p, arg) ==
    /\ req[r].stage = "new"
    /\ Go(r, [Blank EXCEPT !.stage = stage, !.op = op, !.who = who, !.project = p, !.arg = arg,
                           !.sid = IF who \in Users THEN chosen[who] ELSE None])

Finish(r) == Go(r, [req[r] EXCEPT !.stage = "done"])
Refuse(r) == Go(r, [req[r] EXCEPT !.stage = "refused"]) /\ UNCHANGED config

MayOwn(u, p) == u \in Owners /\ Live(u) /\ p \in OfAccount(AccountOf[u])

(***************************************************************************)
(* Work on the data of a project: over REST ("rest"), on a screen of the   *)
(* current project ("screen") or on a row of any project ("row").          *)
(***************************************************************************)
Admit(r, who, m, via) ==
    /\ Live(who)
    /\ who \in Tokens => via = "rest"
    /\ Begin(r, "work", who, "admitted", None, [module |-> m, via |-> via])
    /\ UNCHANGED config

(* The project and its modules, once per request. *)
LoadContext(r) ==
    /\ r \in At("admitted")
    /\ LET q == req[r]
           p == IF q.who \in Tokens THEN tokens[q.who].project ELSE Current(q.who, q.sid)
       IN  Go(r, [q EXCEPT !.stage = "ready", !.project = p,
                           !.seen = IF p = None THEN {"core"} ELSE {"core"} \cup modules[p]])
    /\ UNCHANGED config

(* Mutant of MayWrite: the role is not asked on rows. *)
MayWriteRows(q, p) ==
    IF q.who \in Tokens THEN tokens[q.who].scope = "write"
    ELSE q.arg.via # "screen" \/ RoleOn(q.who, p) = "editor"

(* A read-only token writes nothing; a viewer writes on no screen. *)
MayWrite(q, p) ==
    IF q.who \in Tokens THEN tokens[q.who].scope = "write"
    ELSE q.arg.via = "rest" \/ RoleOn(q.who, p) = "editor"

Work(r) ==
    /\ r \in At("ready")
    /\ LET q == req[r]
       IN  \E p \in IF q.arg.via = "row" THEN Existing ELSE {Resolve(q)} :
             IF p # None /\ q.arg.module \in q.seen /\ MayWrite(q, p)
             THEN Go(r, [q EXCEPT !.stage = "done", !.project = p])
             ELSE Go(r, [q EXCEPT !.stage = "refused"])
    /\ UNCHANGED config

Switch(r, u, p) ==
    /\ Live(u) /\ home[p] = AccountOf[u] /\ p \in Reach(u)
    /\ Begin(r, "switch", u, "done", p, None)
    /\ chosen' = [chosen EXCEPT ![u] = p]
    /\ UNCHANGED <<places, access, features, tokens, routing>>

(***************************************************************************)
(* Tokens.  The role is read before the wait for the capacity lock.        *)
(***************************************************************************)
AskToken(r, u, p, scope) ==
    /\ Live(u) /\ home[p] = AccountOf[u] /\ RoleOn(u, p) # "none"
    /\ scope = "write" => RoleOn(u, p) # "viewer"
    /\ Begin(r, "mint", u, "minting", p, [scope |-> scope])
    /\ UNCHANGED config

MintToken(r) ==
    /\ r \in At("minting")
    /\ LET q == req[r]
       IN  \E t \in Tokens :
             /\ tokens[t] = None
             /\ tokens' = [tokens EXCEPT ![t] =
                  [project |-> q.project, scope |-> q.arg.scope, by |-> q.who, revoked |-> FALSE]]
    /\ Finish(r)
    /\ UNCHANGED <<places, access, features, chosen, routing>>

RevokeToken(r, u, p, t) ==
    /\ Live(u) /\ home[p] = AccountOf[u] /\ RoleOn(u, p) = "editor"
    /\ tokens[t] # None /\ tokens[t].project = p
    /\ Begin(r, "revoke", u, "done", p, None)
    /\ tokens' = [tokens EXCEPT ![t].revoked = TRUE]
    /\ UNCHANGED <<places, access, features, chosen, routing>>

(***************************************************************************)
(* Modules.  One switch changes one row, a preset all of them; the rows    *)
(* are locked, read and changed, each change with an event.                *)
(***************************************************************************)
Configure(r, u, p, rows, desired) ==
    /\ MayOwn(u, p)
    /\ Begin(r, "modules", u, "configuring", p,
             [rows |-> rows, desired |-> desired, previous |-> modules[p]])
    /\ UNCHANGED config

(* Mutant of LockRows: the rows read before the wait are kept. *)
LockStaleRows(r) ==
    /\ r \in At("configuring")
    /\ \A x \in At("locked") :
         req[x].project = req[r].project => req[x].arg.rows \cap req[r].arg.rows = {}
    /\ Go(r, [req[r] EXCEPT !.stage = "locked"])
    /\ UNCHANGED config

LockRows(r) ==
    /\ r \in At("configuring")
    /\ \A x \in At("locked") :
         req[x].project = req[r].project => req[x].arg.rows \cap req[r].arg.rows = {}
    /\ Go(r, [req[r] EXCEPT !.stage = "locked", !.arg.previous = modules[req[r].project]])
    /\ UNCHANGED config

(* The events of one commit, one per changed module, on top of those that *)
(* add up to t: each is right when its previous value is that of t; None is *)
(* on the trail for ever after one that is not.                             *)
Replay(t, changed, previous, on) ==
    IF \E m \in changed : (m \in t) # (m \in previous) THEN t \cup {None}
    ELSE (t \ changed) \cup (on \cap changed)

CommitModules(r) ==
    /\ r \in At("locked")
    /\ LET q == req[r]
           on == q.arg.desired \cap q.arg.rows
           changed == {m \in q.arg.rows : (m \in q.arg.previous) # (m \in on)}
       IN  /\ modules' = [modules EXCEPT ![q.project] = (@ \ changed) \cup (on \cap changed)]
           /\ trail' = [trail EXCEPT ![q.project] = Replay(@, changed, q.arg.previous, on)]
    /\ Finish(r)
    /\ UNCHANGED <<places, access, keys, routing>>

(***************************************************************************)
(* Projects and their Sentry slug, unique per account in the table.        *)
(***************************************************************************)
CreateProject(r, u, p, preset) ==
    /\ u \in Owners /\ Live(u) /\ home[p] = None
    /\ Begin(r, "create", u, "done", p, None)
    /\ home' = [home EXCEPT ![p] = AccountOf[u]]
    /\ born' = Append(born, p)
    /\ modules' = [modules EXCEPT ![p] = preset]
    /\ trail' = [trail EXCEPT ![p] = preset]
    /\ UNCHANGED <<active, access, keys, routing>>

SlugTaken(p, slug) ==
    slug # None /\ \E o \in OfAccount(home[p]) \ {p} : sentry[o] = slug

CheckSettings(r, u, p, slug) ==
    /\ MayOwn(u, p) /\ ~SlugTaken(p, slug)
    /\ Begin(r, "settings", u, "saving", p, [slug |-> slug])
    /\ UNCHANGED config

(* Mutant of UniqueSlug: no constraint in the table. *)
NoConstraint(p, slug) == TRUE

(* UniqueConstraint("account_id", "sentry_project_slug") *)
UniqueSlug(p, slug) == ~SlugTaken(p, slug)

SaveSettings(r) ==
    /\ r \in At("saving")
    /\ LET q == req[r]
       IN  IF UniqueSlug(q.project, q.arg.slug)
           THEN /\ sentry' = [sentry EXCEPT ![q.project] = q.arg.slug] /\ Finish(r)
                /\ UNCHANGED <<places, access, features, keys, issues>>
           ELSE Refuse(r)

(***************************************************************************)
(* The grant matrix.  The row is loaded, then changed: nothing is written  *)
(* when the loaded row has the role already, a row deleted meanwhile can   *)
(* not be updated, and a second row of the same cell is refused.           *)
(***************************************************************************)
LoadGrant(r, o, u, p, role) ==
    /\ MayOwn(o, p) /\ AccountOf[u] = AccountOf[o]
    /\ Begin(r, "grant", o, "granting", p,
             [user |-> u, role |-> role, found |-> grant[u][p], row |-> deleted[u][p]])
    /\ UNCHANGED config

(* Mutant of SaveGrant: a cell filled meanwhile is left as it is. *)
SaveGrantIfEmpty(r) ==
    /\ r \in At("granting")
    /\ LET q == req[r]
           u == q.arg.user
           keep == q.arg.found = "none" /\ grant[u][q.project] # "none"
       IN  grant' = IF keep THEN grant ELSE [grant EXCEPT ![u][q.project] = q.arg.role]
    /\ Finish(r)
    /\ UNCHANGED <<places, deleted, features, keys, routing>>

SaveGrant(r) ==
    /\ r \in At("granting")
    /\ LET q == req[r]
           u == q.arg.user
           gone == q.arg.found # "none" /\ q.arg.row # deleted[u][q.project]
           keep == q.arg.found = q.arg.role \/ (gone /\ q.arg.role = "none")
           fails == ~keep /\ (gone \/ (q.arg.found = "none" /\ grant[u][q.project] # "none"))
       IN  IF fails THEN Refuse(r)
           ELSE /\ grant' = IF keep THEN grant ELSE [grant EXCEPT ![u][q.project] = q.arg.role]
                /\ deleted' = IF keep \/ q.arg.role # "none" THEN deleted
                              ELSE [deleted EXCEPT ![u][q.project] = @ + 1]
                /\ Finish(r)
                /\ UNCHANGED <<places, features, keys, routing>>

(***************************************************************************)
(* The Sentry connection: deliveries, and the owner's reattachment of the  *)
(* rows no project claimed.                                                *)
(***************************************************************************)
(* A delivery through the hook of account a, None for the legacy route. *)
RouteHook(r, a, i) ==
    LET to == IF a = None THEN {} ELSE Routed(a, SlugOf[i])
        p == IF to = {} THEN None ELSE CHOOSE p \in to : TRUE
        skipped == p # None /\ "incidents" \notin modules[p]
    IN  /\ Begin(r, "hook", a, IF skipped THEN "refused" ELSE "ingesting", p, [issue |-> i])
        /\ UNCHANGED config

(* Mutant of IngestHook: a delivery moves the row to its own project. *)
IngestAnew(r) ==
    /\ r \in At("ingesting")
    /\ issues' = [issues EXCEPT ![req[r].arg.issue] =
                    [account |-> req[r].who, project |-> req[r].project]]
    /\ Finish(r)
    /\ UNCHANGED <<places, access, features, keys, sentry>>

IngestHook(r) ==
    /\ r \in At("ingesting")
    /\ LET q == req[r]
           row == issues[q.arg.issue]
           or(x, y) == IF x = None THEN y ELSE x
       IN  issues' = [issues EXCEPT ![q.arg.issue] =
             IF row = None THEN [account |-> q.who, project |-> q.project]
             ELSE [account |-> or(row.account, q.who), project |-> or(row.project, q.project)]]
    /\ Finish(r)
    /\ UNCHANGED <<places, access, features, keys, sentry>>

Unmatched(a) == {i \in Issues : issues[i] # None /\ issues[i].project = None
                                /\ issues[i].account \in {a, None}}

ReadMapping(r, o) ==
    /\ o \in Owners /\ Live(o)
    /\ Begin(r, "reattach", o, "reattaching", None, [slugs |-> sentry])
    /\ UNCHANGED config

Reattach(r) ==
    /\ r \in At("reattaching")
    /\ LET a == AccountOf[req[r].who]
           slug == req[r].arg.slugs
           claims(i) == {p \in OfAccount(a) : slug[p] # None /\ slug[p] = SlugOf[i]}
       IN  issues' = [i \in Issues |->
             IF i \in Unmatched(a) /\ claims(i) # {}
             THEN [account |-> a, project |-> CHOOSE p \in claims(i) : TRUE] ELSE issues[i]]
    /\ Finish(r)
    /\ UNCHANGED <<places, access, features, keys, sentry>>

(* The operator closes or opens an account. *)
SetActive(r, a, on) ==
    /\ Begin(r, "active", None, "done", None, None)
    /\ active' = [active EXCEPT ![a] = on]
    /\ UNCHANGED <<home, born, access, features, keys, routing>>

-----------------------------------------------------------------------------

Init ==
    \E c \in Starts :
        /\ active = [a \in Accounts |-> TRUE]
        /\ home = c.home /\ born = c.born /\ grant = c.grant
        /\ deleted = [u \in Users |-> [p \in Projects |-> 0]]
        /\ modules = c.modules /\ trail = c.modules
        /\ tokens = c.tokens /\ sentry = c.sentry /\ issues = c.issues
        /\ chosen = [u \in Users |-> None]
        /\ req = [r \in Requests |-> Blank]

Screens(r) ==
    \/ \E who \in Users \cup Tokens, m \in {"core"} \cup Optional, via \in {"rest", "screen", "row"} :
         Admit(r, who, m, via)
    \/ LoadContext(r) \/ Work(r)
    \/ \E u \in Users, p \in Projects : Switch(r, u, p)

Keys(r) ==
    \/ \E u \in Users, p \in Projects, scope \in Scopes : AskToken(r, u, p, scope)
    \/ MintToken(r)
    \/ \E u \in Users, p \in Projects, t \in Tokens : RevokeToken(r, u, p, t)

Settings(r) ==
    \/ \E u \in Users, p \in Projects, desired \in Presets : Configure(r, u, p, Optional, desired)
    \/ \E u \in Users, p \in Projects, m \in Optional, on \in BOOLEAN :
         Configure(r, u, p, {m}, IF on THEN {m} ELSE {})
    \/ LockRows(r) \/ CommitModules(r)
    \/ \E u \in Users, p \in Projects, preset \in Presets : CreateProject(r, u, p, preset)
    \/ \E u \in Users, p \in Projects, slug \in Slugs \cup {None} : CheckSettings(r, u, p, slug)
    \/ SaveSettings(r)
    \/ \E o \in Owners, u \in Users \ Owners, p \in Projects, role \in Roles \cup {"none"} :
         LoadGrant(r, o, u, p, role)
    \/ SaveGrant(r)
    \/ \E a \in Accounts, on \in BOOLEAN : SetActive(r, a, on)

Hooks(r) ==
    \/ \E a \in Accounts \cup {None}, i \in Issues : RouteHook(r, a, i)
    \/ IngestHook(r)
    \/ \E o \in Users : ReadMapping(r, o)
    \/ Reattach(r)

Next == \E r \in Requests : Screens(r) \/ Keys(r) \/ Settings(r) \/ Hooks(r)

Spec == Init /\ [][Next]_vars

-----------------------------------------------------------------------------

TypeOK ==
    /\ active \in [Accounts -> BOOLEAN] /\ home \in [Projects -> Accounts \cup {None}]
    /\ Existing = {born[i] : i \in DOMAIN born} /\ \A i, j \in DOMAIN born : born[i] = born[j] => i = j
    /\ grant \in [Users -> [Projects -> Roles \cup {"none"}]]
    /\ modules \in [Projects -> SUBSET Optional]
    /\ tokens \in [Tokens -> Token \cup {None}]
    /\ sentry \in [Projects -> Slugs \cup {None}] /\ issues \in [Issues -> Issue \cup {None}]
    /\ \A r \in Requests : req[r].stage \in Stages

Done(op) == {q \in {req[r] : r \in At("done")} : q.op = op}

(* A write of a session lands in a project its user had a role on while the *)
(* request ran, an editor's role if it came from a screen, and a write of a *)
(* token in the token's own project (auth/deps, projects/access).           *)
WorkWasAllowed ==
    \A q \in Done("work") :
        /\ q.who \in Tokens => tokens[q.who].scope = "write" /\ q.project = tokens[q.who].project
        /\ q.who \in Users =>
              \E role \in Roles : <<role, q.project>> \in q.ever /\ (q.arg.via # "rest" => role = "editor")

(* The module gate and the handler speak of the same project, even when the *)
(* user's reach changes between the two (projects/deps, projects/access).   *)
GatedByOwnProject ==
    \A q \in Done("work") :
        q.arg.module # "core" /\ q.arg.via # "row" => <<"on", q.project>> \in q.ever

(* A token is minted for a project its minter had a role on, and with write *)
(* scope only if that role was editor at some moment of the request, which  *)
(* waits for a lock between the two (projects/router project_token_create). *)
MintedWithinRole ==
    \A q \in Done("mint") :
        \E role \in Roles : <<role, q.project>> \in q.ever /\ (q.arg.scope = "write" => role = "editor")

(* Whatever was written or minted was admitted, by the role, the token and *)
(* the module of its own project, at some moment of its request.           *)
WorkWasAdmitted == WorkWasAllowed /\ GatedByOwnProject /\ MintedWithinRole

(* The audit events of a project, replayed from its preset, give its module *)
(* states, each with the right previous value, whatever presets and single  *)
(* switches ran together (projects/modules).                                *)
TrailExplains == \A p \in Existing : trail[p] = modules[p]

(* Grants and tokens stay inside one account, and a Sentry slug leads to at *)
(* most one project of an account (members.set_grant, create_api_token, the *)
(* check of project_settings_update and the constraint behind it).          *)
AccountsAreIslands ==
    /\ TypeOK
    /\ \A u \in Users, p \in Projects : grant[u][p] # "none" => home[p] = AccountOf[u]
    /\ \A t \in Tokens : tokens[t] # None => home[tokens[t].project] = AccountOf[tokens[t].by]
    /\ \A p, o \in Existing : p # o /\ home[p] = home[o] /\ sentry[p] # None => sentry[p] # sentry[o]

(* A cell of the grant matrix answered as saved had the asked role at some  *)
(* moment of the request, whatever other requests do to the same cell       *)
(* (members.set_grant).                                                     *)
SavedGrantsHeld ==
    [][\A r \in At("granting") :
         LET a == req[r].arg
         IN  req'[r].stage = "done" =>
               a.role = grant'[a.user][req[r].project] \/ <<a.role>> \in req'[r].ever]_vars

(* An issue is given a project once, and a project that owned the slug of   *)
(* its payload while the delivery or the reattachment ran (ingest_sentry,   *)
(* reattach_unmatched).                                                     *)
IssuesFollowTheirSlug ==
    [][\A i \in Issues :
         LET was == IF issues[i] = None THEN None ELSE issues[i].project
             p == IF issues'[i] = None THEN None ELSE issues'[i].project
         IN  p # was => /\ was = None
                        /\ SlugOf[i] # None =>
                             \E r \in Requests : req[r].stage # "done" /\ req'[r].stage = "done"
                                                 /\ <<SlugOf[i], p>> \in req'[r].ever]_vars
=============================================================================
