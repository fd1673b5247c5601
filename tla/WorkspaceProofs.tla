-------------------------- MODULE WorkspaceProofs --------------------------
(***************************************************************************)
(* What requests promise that read the configuration of an account in      *)
(* several steps while others change it: for any number of requests, users *)
(* and projects, each outcome is covered by what was true while it ran.    *)
(***************************************************************************)
EXTENDS Workspace, TLAPS, SequenceTheorems, WellFoundedInduction

(* A request is a record, whatever its argument is. *)
IsRequest(q) ==
    /\ q = [stage |-> q.stage, op |-> q.op, who |-> q.who, project |-> q.project,
            arg |-> q.arg, sid |-> q.sid, seen |-> q.seen, ever |-> q.ever]
    /\ q.stage \in Stages

HadRole(q) == \E role \in Roles : <<role, q.project>> \in q.ever
OwnProject(q, u) == u \in Users /\ q.project \in Projects /\ home[q.project] = AccountOf[u]

WorkAllowed(q) ==
    /\ q.who \in Tokens => tokens[q.who].scope = "write" /\ q.project = tokens[q.who].project
    /\ q.who \in Users =>
          \E role \in Roles : <<role, q.project>> \in q.ever /\ (q.arg.via # "rest" => role = "editor")
Gated(q) == q.arg.module # "core" /\ q.arg.via # "row" => <<"on", q.project>> \in q.ever
Minted(q) ==
    \E role \in Roles : <<role, q.project>> \in q.ever /\ (q.arg.scope = "write" => role = "editor")

(* What a request in each stage has found out.  Accounts and tokens keep   *)
(* what this relies on, so nobody else can make it untrue.                 *)
Admitted(q) ==
    /\ q.op = "work" /\ q.who \in Users \cup Tokens
    /\ q.who \in Tokens => tokens[q.who] # None /\ q.arg.via = "rest"
Loaded(q) ==
    /\ q.who \in Tokens => q.project = tokens[q.who].project
    /\ q.who \in Users /\ q.project # None => OwnProject(q, q.who) /\ HadRole(q)
    /\ q.arg.module \in q.seen => q.arg.module = "core" \/ (q.project # None /\ <<"on", q.project>> \in q.ever)
Local(q) ==
    /\ q.stage = "admitted" => Admitted(q)
    /\ q.stage = "ready" => Admitted(q) /\ Loaded(q)
    /\ q.stage = "minting" => q.op = "mint" /\ OwnProject(q, q.who) /\ q.arg.scope \in Scopes /\ Minted(q)
    /\ q.stage = "saving" =>
          /\ q.op = "settings" /\ q.project \in Projects /\ home[q.project] # None
          /\ q.arg.slug \in Slugs \cup {None}
    /\ q.stage = "granting" =>
          /\ q.op = "grant" /\ OwnProject(q, q.arg.user)
          /\ q.arg.role \in Roles \cup {"none"} /\ <<q.arg.found>> \in q.ever
    /\ q.stage \in {"configuring", "locked"} =>
          /\ q.op = "modules" /\ q.project \in Projects /\ home[q.project] # None
          /\ q.arg = [rows |-> q.arg.rows, desired |-> q.arg.desired, previous |-> q.arg.previous]
          /\ q.arg.rows \subseteq Optional
    /\ q.stage = "ingesting" =>
          /\ q.op = "hook" /\ q.who \in Accounts \cup {None} /\ q.arg.issue \in Issues
          /\ q.project \in Projects \cup {None}
          /\ q.project # None /\ SlugOf[q.arg.issue] # None => <<SlugOf[q.arg.issue], q.project>> \in q.ever
    /\ q.stage = "reattaching" =>
          /\ q.op = "reattach" /\ q.who \in Users
          /\ \A p \in Projects : q.arg.slugs[p] # None => <<q.arg.slugs[p], p>> \in q.ever
    /\ q.stage = "done" => /\ q.op = "work" => Admitted(q) /\ WorkAllowed(q) /\ Gated(q)
                           /\ q.op = "mint" => Minted(q)

(* A cell of the matrix whose row was deleted is empty, or was. *)
Noticed(q) ==
    q.stage = "granting" /\ q.arg.row # deleted[q.arg.user][q.project] =>
        <<"none">> \in q.ever \/ grant[q.arg.user][q.project] = "none"

(* Locked rows are as they were read, and are locked once. *)
Held(q) == q.stage = "locked" => q.arg.previous \cap q.arg.rows = modules[q.project] \cap q.arg.rows
Apart(q, p) ==
    q.stage = "locked" /\ p.stage = "locked" /\ q.project = p.project => q.arg.rows \cap p.arg.rows = {}

PlacesInv ==
    /\ active \in [Accounts -> BOOLEAN] /\ home \in [Projects -> Accounts \cup {None}]
    /\ born \in Seq(Projects)
    /\ Existing = {born[i] : i \in DOMAIN born} /\ \A i, j \in DOMAIN born : born[i] = born[j] => i = j

GrantInv ==
    /\ grant \in [Users -> [Projects -> Roles \cup {"none"}]]
    /\ deleted \in [Users -> [Projects -> Nat]]
    /\ \A u \in Users, p \in Projects : grant[u][p] # "none" => home[p] = AccountOf[u]

ModulesInv ==
    /\ modules \in [Projects -> SUBSET Optional] /\ trail \in [Projects -> SUBSET Optional]
    /\ \A p \in Existing : trail[p] = modules[p]

TokensInv ==
    /\ tokens \in [Tokens -> Token \cup {None}]
    /\ \A t \in Tokens : tokens[t] # None => home[tokens[t].project] = AccountOf[tokens[t].by]

RoutingInv ==
    /\ sentry \in [Projects -> Slugs \cup {None}] /\ issues \in [Issues -> Issue \cup {None}]
    /\ \A p \in Projects : sentry[p] # None => home[p] # None
    /\ \A p, o \in Projects : p # o /\ sentry[p] # None /\ home[p] = home[o] => sentry[p] # sentry[o]

TablesInv == PlacesInv /\ GrantInv /\ ModulesInv /\ TokensInv /\ RoutingInv

RequestsInv ==
    /\ DOMAIN req = Requests
    /\ \A r \in Requests : IsRequest(req[r]) /\ Local(req[r]) /\ Noticed(req[r]) /\ Held(req[r])
    /\ \A r, x \in Requests : r # x => Apart(req[r], req[x])

IInv == TablesInv /\ RequestsInv

(* What no step takes back: the account of a project, and what a token is. *)
Kept ==
    /\ \A p \in Projects : home[p] # None => home'[p] = home[p]
    /\ \A t \in Tokens : tokens[t] # None =>
         /\ tokens'[t] # None /\ tokens'[t].project = tokens[t].project
         /\ tokens'[t].scope = tokens[t].scope /\ tokens'[t].by = tokens[t].by

(* p is q, a while later. *)
Later(q, p) ==
    /\ IsRequest(p) /\ p.stage = q.stage /\ p.op = q.op /\ p.who = q.who /\ p.project = q.project
    /\ p.arg = q.arg /\ p.sid = q.sid /\ p.seen = q.seen /\ q.ever \subseteq p.ever

-----------------------------------------------------------------------------
(* Records and history. *)
LEMMA StageField ==
    ASSUME NEW q, IsRequest(q), NEW stage \in Stages
    PROVE  LET y == [q EXCEPT !.stage = stage]
           IN  /\ IsRequest(y) /\ y.stage = stage /\ y.op = q.op /\ y.who = q.who /\ y.project = q.project
               /\ y.arg = q.arg /\ y.sid = q.sid /\ y.seen = q.seen /\ y.ever = q.ever
BY DEF IsRequest

LEMMA OpField ==
    ASSUME NEW q, IsRequest(q), NEW op
    PROVE  LET y == [q EXCEPT !.op = op]
           IN  /\ IsRequest(y) /\ y.op = op /\ y.stage = q.stage /\ y.who = q.who /\ y.project = q.project
               /\ y.arg = q.arg /\ y.sid = q.sid /\ y.seen = q.seen /\ y.ever = q.ever
BY DEF IsRequest

LEMMA WhoField ==
    ASSUME NEW q, IsRequest(q), NEW who
    PROVE  LET y == [q EXCEPT !.who = who]
           IN  /\ IsRequest(y) /\ y.who = who /\ y.stage = q.stage /\ y.op = q.op /\ y.project = q.project
               /\ y.arg = q.arg /\ y.sid = q.sid /\ y.seen = q.seen /\ y.ever = q.ever
BY DEF IsRequest

LEMMA ProjectField ==
    ASSUME NEW q, IsRequest(q), NEW project
    PROVE  LET y == [q EXCEPT !.project = project]
           IN  /\ IsRequest(y) /\ y.project = project /\ y.stage = q.stage /\ y.op = q.op /\ y.who = q.who
               /\ y.arg = q.arg /\ y.sid = q.sid /\ y.seen = q.seen /\ y.ever = q.ever
BY DEF IsRequest

LEMMA ArgField ==
    ASSUME NEW q, IsRequest(q), NEW arg
    PROVE  LET y == [q EXCEPT !.arg = arg]
           IN  /\ IsRequest(y) /\ y.arg = arg /\ y.stage = q.stage /\ y.op = q.op /\ y.who = q.who
               /\ y.project = q.project /\ y.sid = q.sid /\ y.seen = q.seen /\ y.ever = q.ever
BY DEF IsRequest

LEMMA SidField ==
    ASSUME NEW q, IsRequest(q), NEW sid
    PROVE  LET y == [q EXCEPT !.sid = sid]
           IN  /\ IsRequest(y) /\ y.sid = sid /\ y.stage = q.stage /\ y.op = q.op /\ y.who = q.who
               /\ y.project = q.project /\ y.arg = q.arg /\ y.seen = q.seen /\ y.ever = q.ever
BY DEF IsRequest

LEMMA SeenField ==
    ASSUME NEW q, IsRequest(q), NEW seen
    PROVE  LET y == [q EXCEPT !.seen = seen]
           IN  /\ IsRequest(y) /\ y.seen = seen /\ y.stage = q.stage /\ y.op = q.op /\ y.who = q.who
               /\ y.project = q.project /\ y.arg = q.arg /\ y.sid = q.sid /\ y.ever = q.ever
BY DEF IsRequest

Begun(stage, op, who, p, arg, sid) ==
    [Blank EXCEPT !.stage = stage, !.op = op, !.who = who, !.project = p, !.arg = arg, !.sid = sid]

LEMMA BlankFields ==
    ASSUME NEW stage \in Stages, NEW op, NEW who, NEW p, NEW arg, NEW sid
    PROVE  LET q == Begun(stage, op, who, p, arg, sid)
           IN  /\ IsRequest(q) /\ q.stage = stage /\ q.op = op /\ q.who = who /\ q.project = p
               /\ q.arg = arg /\ q.sid = sid /\ q.seen = None /\ q.ever = {}
<1> DEFINE y1 == [Blank EXCEPT !.stage = stage]
           y2 == [y1 EXCEPT !.op = op]
           y3 == [y2 EXCEPT !.who = who]
           y4 == [y3 EXCEPT !.project = p]
           y5 == [y4 EXCEPT !.arg = arg]
           y6 == [y5 EXCEPT !.sid = sid]
<1>0. IsRequest(Blank) /\ Blank.seen = None /\ Blank.ever = {}
  BY DEF Blank, IsRequest, Stages
<1>1. IsRequest(y1) /\ y1.stage = stage /\ y1.seen = None /\ y1.ever = {}
  BY <1>0, StageField
<1> HIDE DEF y1
<1>2. /\ IsRequest(y2) /\ y2.seen = None /\ y2.ever = {}
      /\ y2.stage = stage /\ y2.op = op
  BY <1>1, OpField
<1> HIDE DEF y2
<1>3. /\ IsRequest(y3) /\ y3.seen = None /\ y3.ever = {}
      /\ y3.stage = stage /\ y3.op = op /\ y3.who = who
  BY <1>2, WhoField
<1> HIDE DEF y3
<1>4. /\ IsRequest(y4) /\ y4.seen = None /\ y4.ever = {}
      /\ y4.stage = stage /\ y4.op = op /\ y4.who = who /\ y4.project = p
  BY <1>3, ProjectField
<1> HIDE DEF y4
<1>5. /\ IsRequest(y5) /\ y5.seen = None /\ y5.ever = {}
      /\ y5.stage = stage /\ y5.op = op /\ y5.who = who /\ y5.project = p /\ y5.arg = arg
  BY <1>4, ArgField
<1> HIDE DEF y5
<1>6. /\ IsRequest(y6) /\ y6.seen = None /\ y6.ever = {}
      /\ y6.stage = stage /\ y6.op = op /\ y6.who = who /\ y6.project = p /\ y6.arg = arg /\ y6.sid = sid
  BY <1>5, SidField
<1> QED BY <1>6 DEF y1, y2, y3, y4, y5, Begun

LEMMA EverField ==
    ASSUME NEW q, IsRequest(q), NEW facts
    PROVE  LET y == [q EXCEPT !.ever = @ \cup facts]
           IN  Later(q, y) /\ y.ever = q.ever \cup facts
BY DEF IsRequest, Later

LEMMA GoFields ==
    ASSUME RequestsInv, NEW r \in Requests, NEW q, IsRequest(q), Go(r, q)
    PROVE  /\ DOMAIN req' = Requests
           /\ Later(q, req'[r]) /\ Facts(q) \subseteq req'[r].ever
           /\ \A x \in Requests \ {r} : Later(req[x], req'[x]) /\ (Running(req[x]) => Facts(req[x]) \subseteq req'[x].ever)
<1>1. DOMAIN req' = Requests /\ req'[r] = [q EXCEPT !.ever = @ \cup Facts(q)]
  BY DEF Go
<1>2. Later(q, req'[r]) /\ Facts(q) \subseteq req'[r].ever
  BY <1>1, EverField
<1>3. ASSUME NEW x \in Requests \ {r}
      PROVE  Later(req[x], req'[x]) /\ (Running(req[x]) => Facts(req[x]) \subseteq req'[x].ever)
  <2>1. IsRequest(req[x])
    BY DEF RequestsInv
  <2>2. CASE Running(req[x])
    <3>1. req'[x] = [req[x] EXCEPT !.ever = @ \cup Facts(req[x])]
      BY <2>2 DEF Go
    <3> QED BY <2>1, <3>1, EverField
  <2>3. CASE ~Running(req[x])
    <3>1. req'[x] = req[x]
      BY <2>3 DEF Go
    <3> QED BY <2>1, <2>3, <3>1 DEF Later
  <2> QED BY <2>2, <2>3
<1> QED BY <1>1, <1>2, <1>3

(* What a request knows stays true. *)
LEMMA LocalKept ==
    ASSUME NEW q, NEW p, Local(q), Later(q, p), TablesInv, Kept
    PROVE  Local(p)'
<1>1. p.stage = q.stage /\ p.op = q.op /\ p.who = q.who /\ p.project = q.project /\ p.arg = q.arg /\ p.seen = q.seen
  BY DEF Later
<1>2. q.ever \subseteq p.ever
  BY DEF Later
<1>3. \A u : OwnProject(q, u) => OwnProject(p, u)'
  BY <1>1, ConfigAssumption DEF OwnProject, Kept
<1>4. (HadRole(q) => HadRole(p)) /\ (Minted(q) => Minted(p)) /\ (Gated(q) => Gated(p))
  BY <1>1, <1>2 DEF HadRole, Minted, Gated
<1>5. Admitted(q) => Admitted(p)'
  BY <1>1 DEF Admitted, Kept
<1>6. Admitted(q) /\ Loaded(q) => Loaded(p)'
  BY <1>1, <1>2, <1>3, <1>4 DEF Admitted, Loaded, Kept
<1>7. Admitted(q) /\ WorkAllowed(q) => WorkAllowed(p)'
  BY <1>1, <1>2, <1>4 DEF Admitted, WorkAllowed, Kept
<1> QED BY <1>1, <1>2, <1>3, <1>4, <1>5, <1>6, <1>7 DEF Local, Kept

(* One request goes on as q; the others know what they knew.  A deletion   *)
(* leaves its cell empty, and rows change only under their lock.           *)
LEMMA RequestsStep ==
    ASSUME TablesInv, RequestsInv, Kept, NEW r \in Requests, NEW q, IsRequest(q), Go(r, q),
           \A p : Later(q, p) /\ Facts(q) \subseteq p.ever => Local(p)',
           q.stage = "granting" => q.arg.row = deleted'[q.arg.user][q.project],
           q.stage = "locked" => /\ q.arg.previous \cap q.arg.rows = modules'[q.project] \cap q.arg.rows
                                 /\ \A x \in Requests \ {r} : Apart(q, req[x]),
           \A u \in Users, p \in Projects : deleted'[u][p] # deleted[u][p] => grant'[u][p] = "none",
           \A x \in Requests \ {r} : req[x].stage = "locked" =>
              modules'[req[x].project] \cap req[x].arg.rows = modules[req[x].project] \cap req[x].arg.rows
    PROVE  RequestsInv'
<1>1. /\ DOMAIN req' = Requests
      /\ Later(q, req'[r]) /\ Facts(q) \subseteq req'[r].ever
      /\ \A x \in Requests \ {r} : Later(req[x], req'[x]) /\ (Running(req[x]) => Facts(req[x]) \subseteq req'[x].ever)
  BY GoFields
<1>2. ASSUME NEW x \in Requests
      PROVE  IsRequest(req'[x]) /\ Local(req[x])' /\ Noticed(req[x])' /\ Held(req[x])'
  <2>1. PICK p : p = req'[x]
    OBVIOUS
  <2>2. CASE x = r
    <3>1. Later(q, p) /\ Facts(q) \subseteq p.ever
      BY <1>1, <2>1, <2>2
    <3>2. Local(p)' /\ IsRequest(p)
      BY <3>1 DEF Later
    <3>3. p.stage = q.stage /\ p.project = q.project /\ p.arg = q.arg
      BY <3>1 DEF Later
    <3>4. Noticed(p)' /\ Held(p)'
      BY <3>3 DEF Noticed, Held
    <3> QED BY <2>1, <3>2, <3>4 DEF Local, Noticed, Held, Admitted, Loaded, OwnProject, WorkAllowed
  <2>3. CASE x # r
    <3>1. PICK y : y = req[x]
      OBVIOUS
    <3>2. Later(y, p) /\ (Running(y) => Facts(y) \subseteq p.ever)
      BY <1>1, <2>1, <2>3, <3>1
    <3>3. Local(y) /\ Noticed(y) /\ Held(y)
      BY <3>1 DEF RequestsInv
    <3>4. Local(p)' /\ IsRequest(p)
      BY <3>2, <3>3, LocalKept DEF Later
    <3>5. p.stage = y.stage /\ p.project = y.project /\ p.arg = y.arg /\ y.ever \subseteq p.ever
      BY <3>2 DEF Later
    <3>6. Noticed(p)'
      <4>1. SUFFICES ASSUME y.stage = "granting", y.arg.row # deleted'[y.arg.user][y.project],
                            <<"none">> \notin p.ever
                     PROVE  grant'[y.arg.user][y.project] = "none"
        BY <3>5 DEF Noticed
      <4>2. y.op = "grant" /\ y.arg.user \in Users /\ y.project \in Projects
        BY <3>3, <4>1 DEF Local, OwnProject
      <4>3. Facts(y) = {<<grant[y.arg.user][y.project]>>} /\ Running(y)
        BY <4>1, <4>2 DEF Facts, Running
      <4>4. grant[y.arg.user][y.project] # "none"
        BY <3>2, <4>1, <4>3
      <4>5. y.arg.row = deleted[y.arg.user][y.project]
        BY <3>3, <3>5, <4>1, <4>4 DEF Noticed
      <4> QED BY <4>1, <4>2, <4>5
    <3>7. Held(p)'
      BY <2>3, <3>1, <3>3, <3>5 DEF Held
    <3> QED BY <2>1, <3>4, <3>6, <3>7 DEF Local, Noticed, Held, Admitted, Loaded, OwnProject, WorkAllowed
  <2> QED BY <2>2, <2>3
<1>3. ASSUME NEW x \in Requests, NEW y \in Requests, x # y
      PROVE  Apart(req'[x], req'[y])
  <2>1. CASE x = r
    <3>1. Later(q, req'[x]) /\ Later(req[y], req'[y])
      BY <1>1, <1>3, <2>1
    <3>2. Apart(q, req[y])
      BY <1>3, <2>1 DEF Apart
    <3> QED BY <3>1, <3>2 DEF Apart, Later
  <2>2. CASE y = r
    <3>1. Later(q, req'[y]) /\ Later(req[x], req'[x])
      BY <1>1, <1>3, <2>2
    <3>2. Apart(q, req[x])
      BY <1>3, <2>2 DEF Apart
    <3> QED BY <3>1, <3>2 DEF Apart, Later
  <2>3. CASE x # r /\ y # r
    <3>1. Later(req[x], req'[x]) /\ Later(req[y], req'[y])
      BY <1>1, <1>3, <2>3
    <3>2. Apart(req[x], req[y])
      BY <1>3 DEF RequestsInv
    <3> QED BY <3>1, <3>2 DEF Apart, Later
  <2> QED BY <2>1, <2>2, <2>3
<1> QED BY <1>1, <1>2, <1>3 DEF RequestsInv, Apart

(* A step that leaves the configuration alone. *)
LEMMA ReadingSafe ==
    ASSUME IInv, UNCHANGED config, NEW r \in Requests, NEW q, IsRequest(q), Go(r, q),
           \A p : Later(q, p) /\ Facts(q) \subseteq p.ever => Local(p),
           q.stage = "granting" => q.arg.row = deleted[q.arg.user][q.project],
           q.stage = "locked" => /\ q.arg.previous \cap q.arg.rows = modules[q.project] \cap q.arg.rows
                                 /\ \A x \in Requests \ {r} : Apart(q, req[x])
    PROVE  IInv'
<1>1. /\ active' = active /\ home' = home /\ born' = born /\ grant' = grant /\ deleted' = deleted
      /\ modules' = modules /\ trail' = trail /\ tokens' = tokens /\ sentry' = sentry /\ issues' = issues
  BY DEF config, places, access, features, keys, routing
<1>2. Existing' = Existing
  BY <1>1 DEF Existing
<1>3. TablesInv'
  BY <1>1, <1>2 DEF IInv, TablesInv, PlacesInv, GrantInv, ModulesInv, TokensInv, RoutingInv
<1>4. Kept
  BY <1>1 DEF Kept
<1>5. \A p : Local(p) => Local(p)'
  BY <1>1 DEF Local, Admitted, Loaded, OwnProject, WorkAllowed
<1>6. RequestsInv'
  BY <1>1, <1>4, <1>5, RequestsStep DEF IInv
<1> QED BY <1>3, <1>6 DEF IInv

LEMMA RefuseSafe ==
    ASSUME IInv, NEW r \in Requests, Refuse(r)
    PROVE  IInv'
<1> DEFINE q == [req[r] EXCEPT !.stage = "refused"]
<1>1. IsRequest(req[r])
  BY DEF IInv, RequestsInv
<1>2. IsRequest(q) /\ q.stage = "refused" /\ Go(r, q) /\ UNCHANGED config
  BY <1>1, StageField DEF Refuse, Stages
<1> HIDE DEF q
<1>3. \A p : Later(q, p) => Local(p)
  BY <1>2 DEF Later, Local
<1> QED BY <1>2, <1>3, ReadingSafe

-----------------------------------------------------------------------------
(* Access. *)
LEMMA FirstFacts ==
    ASSUME PlacesInv, NEW ps \in SUBSET Existing, ps # {}
    PROVE  First(ps) \in ps
<1> DEFINE S == {i \in DOMAIN born : born[i] \in ps}
<1>1. S \subseteq Nat /\ S # {}
  BY DEF PlacesInv
<1>2. PICK i \in S : \A j \in S : ~(<<j, i>> \in OpToRel(<, Nat))
  BY <1>1, NatLessThanWellFounded, WFMin
<1>3. \A j \in S : ~(j < i)
  BY <1>1, <1>2 DEF OpToRel
<1>4. i \in DOMAIN born /\ born[i] \in ps /\ \A j \in 1..(i - 1) : born[j] \notin ps
  BY <1>1, <1>3 DEF PlacesInv
<1> QED BY <1>4 DEF First

LEMMA ReachFacts ==
    ASSUME TablesInv, NEW u \in Users, NEW p \in Reach(u)
    PROVE  p \in Existing /\ home[p] = AccountOf[u] /\ RoleOn(u, p) \in Roles
<1>1. AccountOf[u] # None
  BY ConfigAssumption
<1>2. p \in Projects /\ home[p] = AccountOf[u] /\ p # None
  BY <1>1, ConfigAssumption DEF Reach, OfAccount, Existing, TablesInv, GrantInv
<1>3. u \notin Owners => grant[u][p] \in Roles
  BY <1>2 DEF Reach, TablesInv, GrantInv
<1> QED BY <1>1, <1>2, <1>3 DEF Existing, RoleOn, Roles

LEMMA CurrentFacts ==
    ASSUME TablesInv, NEW u \in Users, NEW sid
    PROVE  Current(u, sid) = None \/ Current(u, sid) \in Reach(u)
<1>1. Reach(u) \in SUBSET Existing
  BY ReachFacts
<1>2. Reach(u) # {} => First(Reach(u)) \in Reach(u)
  BY <1>1, FirstFacts DEF TablesInv
<1> QED BY <1>2 DEF Current

LEMMA WorkFacts ==
    ASSUME NEW q, q.op = "work", NEW p \in Existing
    PROVE  /\ q.arg.module \in modules[p] => <<"on", p>> \in Facts(q)
           /\ q.who \in Users => <<RoleOn(q.who, p), p>> \in Facts(q)
BY DEF Facts

LEMMA BeginFields ==
    ASSUME NEW r, NEW op, NEW who, NEW stage \in Stages, NEW p, NEW arg, Begin(r, op, who, stage, p, arg)
    PROVE  /\ req[r].stage = "new"
           /\ \E q : /\ IsRequest(q) /\ Go(r, q) /\ q.stage = stage /\ q.op = op /\ q.who = who
                    /\ q.project = p /\ q.arg = arg
<1> DEFINE q == Begun(stage, op, who, p, arg, IF who \in Users THEN chosen[who] ELSE None)
<1>1. req[r].stage = "new" /\ Go(r, q)
  BY Zenon DEF Begin, Begun
<1>2. IsRequest(q) /\ q.stage = stage /\ q.op = op /\ q.who = who /\ q.project = p /\ q.arg = arg
  BY BlankFields
<1> QED BY <1>1, <1>2

LEMMA AdmitSafe ==
    ASSUME IInv, NEW r \in Requests, NEW who \in Users \cup Tokens, NEW m, NEW via, Admit(r, who, m, via)
    PROVE  IInv'
<1>1. PICK q : /\ IsRequest(q) /\ Go(r, q) /\ q.stage = "admitted" /\ q.op = "work" /\ q.who = who
               /\ q.arg = [module |-> m, via |-> via]
  BY BeginFields DEF Admit, Stages
<1>2. who \in Tokens => who \notin Users /\ tokens[who] # None /\ via = "rest"
  BY ConfigAssumption DEF Admit, Live
<1>3. Admitted(q)
  BY <1>1, <1>2 DEF Admitted
<1>4. \A p : Later(q, p) => Local(p)
  BY <1>1, <1>3 DEF Later, Local, Admitted
<1> QED BY <1>1, <1>4, ReadingSafe DEF Admit

LEMMA LoadContextSafe ==
    ASSUME IInv, NEW r \in Requests, LoadContext(r)
    PROVE  IInv'
<1> DEFINE p == IF req[r].who \in Tokens THEN tokens[req[r].who].project ELSE Current(req[r].who, req[r].sid)
           seen == IF p = None THEN {"core"} ELSE {"core"} \cup modules[p]
           y1 == [req[r] EXCEPT !.stage = "ready"]
           y2 == [y1 EXCEPT !.project = p]
           q == [y2 EXCEPT !.seen = seen]
<1>1. IsRequest(req[r]) /\ req[r].stage = "admitted" /\ Admitted(req[r]) /\ UNCHANGED config /\ Go(r, q)
  BY DEF LoadContext, At, IInv, RequestsInv, Local
<1>2. /\ IsRequest(y1) /\ y1.stage = "ready" /\ y1.op = req[r].op /\ y1.who = req[r].who /\ y1.arg = req[r].arg
  <2>1. "ready" \in Stages
    BY DEF Stages
  <2> QED BY <1>1, <2>1, StageField
<1> HIDE DEF y1
<1>3. /\ IsRequest(y2) /\ y2.stage = "ready" /\ y2.op = req[r].op /\ y2.who = req[r].who /\ y2.arg = req[r].arg
      /\ y2.project = p
  BY <1>2, ProjectField
<1> HIDE DEF y2
<1>4. /\ IsRequest(q) /\ q.stage = "ready" /\ q.op = req[r].op /\ q.who = req[r].who /\ q.arg = req[r].arg
      /\ q.project = p /\ q.seen = seen
  BY <1>3, SeenField
<1> HIDE DEF q
<1>5. Admitted(q)
  BY <1>1, <1>4 DEF Admitted
<1>6. ASSUME NEW x, Later(q, x), Facts(q) \subseteq x.ever
      PROVE  Local(x)
  <2>1. x.stage = "ready" /\ x.op = "work" /\ x.who = q.who /\ x.arg = q.arg /\ x.project = p /\ x.seen = seen
    BY <1>4, <1>5, <1>6 DEF Later, Admitted
  <2>2. Admitted(x)
    BY <1>5, <2>1 DEF Admitted
  <2>3. CASE q.who \in Tokens
    <3>1. q.who \notin Users /\ p = tokens[q.who].project
      BY <1>4, <2>3, ConfigAssumption
    <3>2. tokens[q.who] \in Token /\ home[p] = AccountOf[tokens[q.who].by]
      BY <1>5, <2>3, <3>1 DEF Admitted, IInv, TablesInv, TokensInv
    <3>3. p \in Existing /\ p # None
      BY <3>1, <3>2, ConfigAssumption DEF Token, Existing
    <3>4. x.arg.module \in seen => x.arg.module = "core" \/ (p # None /\ <<"on", p>> \in x.ever)
      BY <1>5, <1>6, <2>1, <3>3, WorkFacts DEF Admitted
    <3> QED BY <2>1, <2>2, <3>1, <3>4 DEF Local, Loaded
  <2>4. CASE q.who \in Users
    <3>1. q.who \notin Tokens /\ (p = None \/ p \in Reach(q.who))
      BY <1>4, <2>4, ConfigAssumption, CurrentFacts DEF IInv
    <3>2. p # None => p \in Existing /\ home[p] = AccountOf[q.who] /\ RoleOn(q.who, p) \in Roles
      BY <2>4, <3>1, ReachFacts DEF IInv
    <3>3. p # None => <<RoleOn(q.who, p), p>> \in x.ever
      BY <1>5, <1>6, <2>4, <3>2, WorkFacts DEF Admitted
    <3>4. x.arg.module \in seen => x.arg.module = "core" \/ (p # None /\ <<"on", p>> \in x.ever)
      BY <1>5, <1>6, <2>1, <3>2, WorkFacts DEF Admitted
    <3> QED BY <2>1, <2>2, <2>4, <3>1, <3>2, <3>3, <3>4 DEF Local, Loaded, OwnProject, HadRole, Existing
  <2> QED BY <1>5, <2>3, <2>4 DEF Admitted
<1> QED BY <1>1, <1>4, <1>6, ReadingSafe

LEMMA WorkSafe ==
    ASSUME IInv, NEW r \in Requests, Work(r)
    PROVE  IInv'
<1>1. /\ IsRequest(req[r]) /\ req[r].stage = "ready" /\ Admitted(req[r]) /\ Loaded(req[r])
      /\ UNCHANGED config
  BY DEF Work, At, IInv, RequestsInv, Local
<1>2. PICK p \in IF req[r].arg.via = "row" THEN Existing ELSE {Resolve(req[r])} :
         IF p # None /\ req[r].arg.module \in req[r].seen /\ MayWrite(req[r], p)
         THEN Go(r, [req[r] EXCEPT !.stage = "done", !.project = p])
         ELSE Go(r, [req[r] EXCEPT !.stage = "refused"])
  BY DEF Work
<1>3. CASE ~(p # None /\ req[r].arg.module \in req[r].seen /\ MayWrite(req[r], p))
  BY <1>1, <1>2, <1>3, RefuseSafe DEF Refuse
<1>4. CASE p # None /\ req[r].arg.module \in req[r].seen /\ MayWrite(req[r], p)
  <2> DEFINE y == [req[r] EXCEPT !.stage = "done"]
             q == [y EXCEPT !.project = p]
  <2>1. Go(r, q)
    BY <1>2, <1>4
  <2>2. /\ IsRequest(y) /\ y.stage = "done" /\ y.op = req[r].op /\ y.who = req[r].who /\ y.arg = req[r].arg
        /\ y.ever = req[r].ever
    BY <1>1, StageField DEF Stages
  <2> HIDE DEF y
  <2>3. /\ IsRequest(q) /\ q.stage = "done" /\ q.op = "work" /\ q.who = req[r].who /\ q.arg = req[r].arg
        /\ q.project = p /\ q.ever = req[r].ever
    BY <1>1, <2>2, ProjectField DEF Admitted
  <2> HIDE DEF q
  <2>4. ASSUME NEW x, Later(q, x), Facts(q) \subseteq x.ever
        PROVE  Local(x)
    <3>1. x.stage = "done" /\ x.op = "work" /\ x.who = req[r].who /\ x.arg = req[r].arg /\ x.project = p
      BY <2>3, <2>4 DEF Later
    <3>2. req[r].ever \subseteq x.ever
      BY <2>3, <2>4 DEF Later
    <3>3. Admitted(x)
      BY <1>1, <3>1 DEF Admitted
    <3>4. Gated(x)
      <4>1. SUFFICES ASSUME x.arg.module # "core", x.arg.via # "row"
                     PROVE  <<"on", p>> \in x.ever
        BY <3>1 DEF Gated
      <4>2. req[r].project # None /\ <<"on", req[r].project>> \in req[r].ever
        BY <1>1, <1>4, <3>1, <4>1 DEF Loaded
      <4>3. p = req[r].project
        BY <3>1, <4>1, <4>2 DEF Resolve
      <4> QED BY <3>2, <4>2, <4>3
    <3>5. WorkAllowed(x)
      <4>1. CASE x.who \in Tokens
        <5>1. req[r].project = tokens[x.who].project /\ tokens[x.who] \in Token /\ x.arg.via = "rest"
          BY <1>1, <3>1, <3>3, <4>1 DEF Loaded, Admitted, IInv, TablesInv, TokensInv
        <5>2. req[r].project # None
          BY <5>1, ConfigAssumption DEF Token
        <5>3. p = req[r].project /\ tokens[x.who].scope = "write"
          BY <1>4, <3>1, <4>1, <5>1, <5>2 DEF Resolve, MayWrite
        <5> QED BY <3>1, <4>1, <5>1, <5>3, ConfigAssumption DEF WorkAllowed
      <4>2. CASE x.who \in Users /\ x.arg.via = "rest"
        <5>1. x.who \notin Tokens
          BY <4>2, ConfigAssumption
        <5>2. CASE req[r].project # None
          <6>1. p = req[r].project /\ HadRole(req[r])
            BY <1>1, <3>1, <4>2, <5>2 DEF Resolve, Loaded
          <6> QED BY <3>1, <3>2, <4>2, <5>1, <6>1 DEF WorkAllowed, HadRole
        <5>3. CASE req[r].project = None
          <6>1. p \in Reach(x.who)
            BY <1>4, <3>1, <4>2, <5>3 DEF Resolve
          <6>2. p \in Existing /\ RoleOn(x.who, p) \in Roles
            BY <4>2, <6>1, ReachFacts DEF IInv
          <6>3. <<RoleOn(x.who, p), p>> \in x.ever
            BY <2>3, <2>4, <3>1, <4>2, <6>2, WorkFacts
          <6> QED BY <3>1, <4>2, <5>1, <6>2, <6>3 DEF WorkAllowed, HadRole
        <5> QED BY <5>2, <5>3
      <4>3. CASE x.who \in Users /\ x.arg.via # "rest"
        <5>1. x.who \notin Tokens /\ RoleOn(x.who, p) = "editor"
          BY <1>4, <3>1, <4>3, ConfigAssumption DEF MayWrite
        <5>2. p \in Existing
          <6>1. CASE x.arg.via = "row"
            BY <3>1, <6>1
          <6>2. CASE x.arg.via # "row"
            <7>1. p = req[r].project
              BY <1>4, <3>1, <4>3, <6>2 DEF Resolve
            <7>2. p \in Projects /\ home[p] = AccountOf[x.who]
              BY <1>1, <1>4, <3>1, <4>3, <7>1 DEF Loaded, OwnProject
            <7> QED BY <4>3, <7>2, ConfigAssumption DEF Existing
          <6> QED BY <6>1, <6>2
        <5>3. <<"editor", p>> \in x.ever
          BY <2>3, <2>4, <3>1, <4>3, <5>1, <5>2, WorkFacts
        <5> QED BY <3>1, <4>3, <5>1, <5>3 DEF WorkAllowed, Roles
      <4> QED BY <3>3, <4>1, <4>2, <4>3 DEF Admitted
    <3> QED BY <3>1, <3>3, <3>4, <3>5 DEF Local
  <2> QED BY <1>1, <2>1, <2>3, <2>4, ReadingSafe
<1> QED BY <1>3, <1>4

LEMMA AskTokenSafe ==
    ASSUME IInv, NEW r \in Requests, NEW u \in Users, NEW p \in Projects, NEW scope \in Scopes,
           AskToken(r, u, p, scope)
    PROVE  IInv'
<1>1. PICK q : /\ IsRequest(q) /\ Go(r, q) /\ q.stage = "minting" /\ q.op = "mint" /\ q.who = u
               /\ q.project = p /\ q.arg = [scope |-> scope]
  BY BeginFields DEF AskToken, Stages
<1>2. OwnProject(q, u) /\ RoleOn(u, p) \in Roles /\ (scope = "write" => RoleOn(u, p) = "editor")
  BY <1>1 DEF AskToken, OwnProject, RoleOn, Roles, IInv, TablesInv, GrantInv
<1>3. ASSUME NEW x, Later(q, x), Facts(q) \subseteq x.ever
      PROVE  Local(x)
  <2>1. x.stage = "minting" /\ x.op = "mint" /\ x.who = u /\ x.project = p /\ x.arg = [scope |-> scope]
    BY <1>1, <1>3 DEF Later
  <2>2. <<RoleOn(u, p), p>> \in x.ever
    BY <1>1, <1>3 DEF Facts
  <2>3. Minted(x) /\ OwnProject(x, x.who)
    BY <1>1, <1>2, <2>1, <2>2 DEF Minted, OwnProject
  <2> QED BY <2>1, <2>3 DEF Local
<1> QED BY <1>1, <1>3, ReadingSafe DEF AskToken

LEMMA ConfigureSafe ==
    ASSUME IInv, NEW r \in Requests, NEW u \in Users, NEW p \in Projects, NEW rows \in SUBSET Optional,
           NEW desired, Configure(r, u, p, rows, desired)
    PROVE  IInv'
<1>1. PICK q : /\ IsRequest(q) /\ Go(r, q) /\ q.stage = "configuring" /\ q.op = "modules" /\ q.project = p
               /\ q.arg = [rows |-> rows, desired |-> desired, previous |-> modules[p]]
  BY BeginFields DEF Configure, Stages
<1>2. home[p] # None
  BY DEF Configure, MayOwn, OfAccount, Existing
<1>3. \A x : Later(q, x) => Local(x)
  BY <1>1, <1>2 DEF Later, Local
<1> QED BY <1>1, <1>3, ReadingSafe DEF Configure

LEMMA LockRowsSafe ==
    ASSUME IInv, NEW r \in Requests, LockRows(r)
    PROVE  IInv'
<1> DEFINE now == modules[req[r].project]
           y == [req[r] EXCEPT !.stage = "locked"]
           q == [y EXCEPT !.arg = [y.arg EXCEPT !.previous = now]]
<1>1. /\ IsRequest(req[r]) /\ Local(req[r]) /\ req[r].stage = "configuring" /\ UNCHANGED config
  BY DEF LockRows, At, IInv, RequestsInv
<1>2. /\ IsRequest(y) /\ y.stage = "locked" /\ y.op = req[r].op /\ y.project = req[r].project /\ y.arg = req[r].arg
  <2>1. "locked" \in Stages
    BY DEF Stages
  <2> QED BY <1>1, <2>1, StageField
<1>3. Go(r, q)
  BY <1>1 DEF LockRows
<1> HIDE DEF y
<1>4. /\ IsRequest(q) /\ q.stage = "locked" /\ q.op = req[r].op /\ q.project = req[r].project
      /\ q.arg = [y.arg EXCEPT !.previous = now]
  BY <1>2, ArgField
<1> HIDE DEF q
<1>5. /\ q.op = "modules" /\ q.project \in Projects /\ home[q.project] # None /\ req[r].arg.rows \subseteq Optional
      /\ y.arg = [rows |-> req[r].arg.rows, desired |-> req[r].arg.desired, previous |-> req[r].arg.previous]
  BY <1>1, <1>2, <1>4 DEF Local
<1>6. q.arg = [rows |-> req[r].arg.rows, desired |-> req[r].arg.desired, previous |-> now]
  BY <1>4, <1>5
<1>7. \A x : Later(q, x) => Local(x)
  BY <1>4, <1>5, <1>6 DEF Later, Local
<1>8. ASSUME NEW x \in Requests \ {r}
      PROVE  Apart(q, req[x])
  BY <1>4, <1>6 DEF Apart, LockRows, At
<1> QED BY <1>1, <1>3, <1>4, <1>6, <1>7, <1>8, ReadingSafe

LEMMA CheckSettingsSafe ==
    ASSUME IInv, NEW r \in Requests, NEW u \in Users, NEW p \in Projects, NEW slug \in Slugs \cup {None},
           CheckSettings(r, u, p, slug)
    PROVE  IInv'
<1>1. PICK q : /\ IsRequest(q) /\ Go(r, q) /\ q.stage = "saving" /\ q.op = "settings" /\ q.project = p
               /\ q.arg = [slug |-> slug]
  BY BeginFields DEF CheckSettings, Stages
<1>2. home[p] # None
  BY DEF CheckSettings, MayOwn, OfAccount, Existing
<1>3. \A x : Later(q, x) => Local(x)
  BY <1>1, <1>2 DEF Later, Local
<1> QED BY <1>1, <1>3, ReadingSafe DEF CheckSettings

LEMMA LoadGrantSafe ==
    ASSUME IInv, NEW r \in Requests, NEW o \in Owners, NEW u \in Users, NEW p \in Projects,
           NEW role \in Roles \cup {"none"}, LoadGrant(r, o, u, p, role)
    PROVE  IInv'
<1>1. PICK q : /\ IsRequest(q) /\ Go(r, q) /\ q.stage = "granting" /\ q.op = "grant" /\ q.project = p
               /\ q.arg = [user |-> u, role |-> role, found |-> grant[u][p], row |-> deleted[u][p]]
  BY BeginFields DEF LoadGrant, Stages
<1>2. home[p] = AccountOf[u]
  BY DEF LoadGrant, MayOwn, OfAccount
<1>3. ASSUME NEW x, Later(q, x), Facts(q) \subseteq x.ever
      PROVE  Local(x)
  <2>1. /\ x.stage = "granting" /\ x.op = "grant" /\ x.project = p
        /\ x.arg = [user |-> u, role |-> role, found |-> grant[u][p], row |-> deleted[u][p]]
    BY <1>1, <1>3 DEF Later
  <2>2. <<grant[u][p]>> \in x.ever
    BY <1>1, <1>3 DEF Facts
  <2> QED BY <1>2, <2>1, <2>2 DEF Local, OwnProject
<1> QED BY <1>1, <1>3, ReadingSafe DEF LoadGrant

LEMMA RoutedFacts ==
    ASSUME RoutingInv, NEW a, NEW slug, NEW p \in Routed(a, slug)
    PROVE  p \in Existing /\ (slug # None => sentry[p] = slug)
BY DEF Routed, OfAccount

LEMMA RouteHookSafe ==
    ASSUME IInv, NEW r \in Requests, NEW a \in Accounts \cup {None}, NEW i \in Issues, RouteHook(r, a, i)
    PROVE  IInv'
<1> DEFINE to == IF a = None THEN {} ELSE Routed(a, SlugOf[i])
           p == IF to = {} THEN None ELSE CHOOSE p \in to : TRUE
           stage == IF p # None /\ "incidents" \notin modules[p] THEN "refused" ELSE "ingesting"
<1>1. Begin(r, "hook", a, stage, p, [issue |-> i]) /\ UNCHANGED config
  BY DEF RouteHook
<1>2. p \in to \/ p = None
  OBVIOUS
<1>3. p # None => p \in Existing /\ (SlugOf[i] # None => sentry[p] = SlugOf[i])
  BY <1>2, RoutedFacts DEF IInv, TablesInv
<1> HIDE DEF p, to
<1>4. stage \in {"refused", "ingesting"}
  OBVIOUS
<1> HIDE DEF stage
<1>5. PICK q : /\ IsRequest(q) /\ Go(r, q) /\ q.stage = stage /\ q.op = "hook" /\ q.who = a
               /\ q.project = p /\ q.arg = [issue |-> i]
  BY <1>1, <1>4, BeginFields DEF Stages
<1>6. ASSUME NEW x, Later(q, x), Facts(q) \subseteq x.ever
      PROVE  Local(x)
  <2>1. x.stage = stage /\ x.op = "hook" /\ x.who = a /\ x.project = p /\ x.arg = [issue |-> i]
    BY <1>5, <1>6 DEF Later
  <2>2. p # None => <<sentry[p], p>> \in x.ever
    BY <1>3, <1>5, <1>6 DEF Facts
  <2> QED BY <1>3, <1>4, <2>1, <2>2 DEF Local, Existing
<1> QED BY <1>1, <1>4, <1>5, <1>6, ReadingSafe

LEMMA ReadMappingSafe ==
    ASSUME IInv, NEW r \in Requests, NEW o \in Users, ReadMapping(r, o)
    PROVE  IInv'
<1>1. PICK q : /\ IsRequest(q) /\ Go(r, q) /\ q.stage = "reattaching" /\ q.op = "reattach" /\ q.who = o
               /\ q.arg = [slugs |-> sentry]
  BY BeginFields DEF ReadMapping, Stages
<1>2. ASSUME NEW x, Later(q, x), Facts(q) \subseteq x.ever
      PROVE  Local(x)
  <2>1. x.stage = "reattaching" /\ x.op = "reattach" /\ x.who = o /\ x.arg = [slugs |-> sentry]
    BY <1>1, <1>2 DEF Later
  <2>2. \A p \in Existing : <<sentry[p], p>> \in x.ever
    BY <1>1, <1>2 DEF Facts
  <2>3. \A p \in Projects : sentry[p] # None => <<sentry[p], p>> \in x.ever
    BY <2>2 DEF Existing, IInv, TablesInv, RoutingInv
  <2> QED BY <2>1, <2>3 DEF Local
<1> QED BY <1>1, <1>2, ReadingSafe DEF ReadMapping

-----------------------------------------------------------------------------
(* The ends of requests, with what they change of the configuration. *)
LEMMA DoneSafe ==
    ASSUME TablesInv, RequestsInv, Kept, NEW r \in Requests, NEW q, IsRequest(q), Go(r, q),
           q.stage = "done", q.op # "work", q.op = "mint" => Minted(q),
           \A u \in Users, p \in Projects : deleted'[u][p] # deleted[u][p] => grant'[u][p] = "none",
           \A x \in Requests \ {r} : req[x].stage = "locked" =>
              modules'[req[x].project] \cap req[x].arg.rows = modules[req[x].project] \cap req[x].arg.rows
    PROVE  RequestsInv'
<1>1. ASSUME NEW x, Later(q, x)
      PROVE  Local(x)'
  <2>1. x.stage = "done" /\ x.op = q.op /\ x.project = q.project /\ x.arg = q.arg /\ q.ever \subseteq x.ever
    BY <1>1 DEF Later
  <2>2. Minted(q) => Minted(x)
    BY <2>1 DEF Minted
  <2> QED BY <2>1, <2>2 DEF Local
<1> QED BY <1>1, RequestsStep

LEMMA BeginDone ==
    ASSUME TablesInv, RequestsInv, Kept, NEW r \in Requests, NEW op \in {"switch", "revoke", "create", "active"},
           NEW who, NEW pr, NEW arg, Begin(r, op, who, "done", pr, arg), deleted' = deleted,
           \A x \in Requests \ {r} : req[x].stage = "locked" => modules'[req[x].project] = modules[req[x].project]
    PROVE  RequestsInv'
<1>1. PICK q : IsRequest(q) /\ Go(r, q) /\ q.stage = "done" /\ q.op = op
  BY BeginFields DEF Stages
<1> QED BY <1>1, DoneSafe

LEMMA FinishSafe ==
    ASSUME TablesInv, RequestsInv, Kept, NEW r \in Requests, Finish(r),
           req[r].op # "work", req[r].op = "mint" => Minted(req[r]),
           \A u \in Users, p \in Projects : deleted'[u][p] # deleted[u][p] => grant'[u][p] = "none",
           \A x \in Requests \ {r} : req[x].stage = "locked" =>
              modules'[req[x].project] \cap req[x].arg.rows = modules[req[x].project] \cap req[x].arg.rows
    PROVE  RequestsInv'
<1> DEFINE q == [req[r] EXCEPT !.stage = "done"]
<1>1. /\ IsRequest(q) /\ q.stage = "done" /\ q.op = req[r].op /\ q.project = req[r].project
      /\ q.arg = req[r].arg /\ q.ever = req[r].ever
  BY StageField DEF RequestsInv, Stages
<1>2. Go(r, q)
  BY DEF Finish
<1> HIDE DEF q
<1>3. q.op = "mint" => Minted(q)
  BY <1>1 DEF Minted
<1> QED BY <1>1, <1>2, <1>3, DoneSafe

LEMMA SwitchSafe ==
    ASSUME IInv, NEW r \in Requests, NEW u \in Users, NEW p \in Projects, Switch(r, u, p)
    PROVE  IInv'
<1>1. /\ active' = active /\ home' = home /\ born' = born /\ grant' = grant /\ deleted' = deleted
      /\ modules' = modules /\ trail' = trail /\ tokens' = tokens /\ sentry' = sentry /\ issues' = issues
  BY DEF Switch, places, access, features, routing
<1>2. Existing' = Existing
  BY <1>1 DEF Existing
<1>3. TablesInv'
  BY <1>1, <1>2 DEF IInv, TablesInv, PlacesInv, GrantInv, ModulesInv, TokensInv, RoutingInv
<1>4. Kept
  BY <1>1 DEF Kept
<1>5. RequestsInv'
  BY <1>1, <1>4, BeginDone DEF Switch, IInv
<1> QED BY <1>3, <1>5 DEF IInv

LEMMA MintTokenSafe ==
    ASSUME IInv, NEW r \in Requests, MintToken(r)
    PROVE  IInv'
<1>1. /\ active' = active /\ home' = home /\ born' = born /\ grant' = grant /\ deleted' = deleted
      /\ modules' = modules /\ trail' = trail /\ sentry' = sentry /\ issues' = issues /\ Finish(r)
  BY DEF MintToken, places, access, features, routing
<1>2. Existing' = Existing
  BY <1>1 DEF Existing
<1>3. /\ req[r].op = "mint" /\ req[r].who \in Users /\ req[r].project \in Projects
      /\ home[req[r].project] = AccountOf[req[r].who] /\ req[r].arg.scope \in Scopes /\ Minted(req[r])
  BY DEF MintToken, At, IInv, RequestsInv, Local, OwnProject
<1> DEFINE new == [project |-> req[r].project, scope |-> req[r].arg.scope, by |-> req[r].who, revoked |-> FALSE]
<1>4. PICK t \in Tokens : tokens[t] = None /\ tokens' = [tokens EXCEPT ![t] = new]
  BY DEF MintToken
<1>5. new \in Token /\ new.project = req[r].project /\ new.by = req[r].who
  BY <1>3 DEF Token
<1> HIDE DEF new
<1>6. /\ tokens' \in [Tokens -> Token \cup {None}]
      /\ \A o \in Tokens : tokens'[o] = IF o = t THEN new ELSE tokens[o]
  BY <1>4, <1>5 DEF IInv, TablesInv, TokensInv
<1>7. TablesInv'
  <2>1. TokensInv'
    BY <1>1, <1>3, <1>5, <1>6 DEF IInv, TablesInv, TokensInv
  <2> QED BY <1>1, <1>2, <2>1 DEF IInv, TablesInv, PlacesInv, GrantInv, ModulesInv, RoutingInv
<1>8. Kept
  BY <1>1, <1>4, <1>6 DEF Kept
<1>9. RequestsInv'
  BY <1>1, <1>3, <1>8, FinishSafe DEF IInv
<1> QED BY <1>7, <1>9 DEF IInv

LEMMA RevokeTokenSafe ==
    ASSUME IInv, NEW r \in Requests, NEW u \in Users, NEW p \in Projects, NEW t \in Tokens,
           RevokeToken(r, u, p, t)
    PROVE  IInv'
<1>1. /\ active' = active /\ home' = home /\ born' = born /\ grant' = grant /\ deleted' = deleted
      /\ modules' = modules /\ trail' = trail /\ sentry' = sentry /\ issues' = issues
  BY DEF RevokeToken, places, access, features, routing
<1>2. Existing' = Existing
  BY <1>1 DEF Existing
<1> DEFINE new == [tokens[t] EXCEPT !.revoked = TRUE]
<1>3. tokens[t] # None /\ tokens' = [tokens EXCEPT ![t] = new] /\ tokens[t] \in Token
  BY DEF RevokeToken, IInv, TablesInv, TokensInv
<1>4. /\ new \in Token /\ new.project = tokens[t].project /\ new.by = tokens[t].by /\ new.scope = tokens[t].scope
  BY <1>3 DEF Token
<1> HIDE DEF new
<1>5. /\ tokens' \in [Tokens -> Token \cup {None}] /\ new # None
      /\ \A o \in Tokens : tokens'[o] = IF o = t THEN new ELSE tokens[o]
  BY <1>3, <1>4, ConfigAssumption DEF IInv, TablesInv, TokensInv
<1>6. TablesInv'
  <2>1. TokensInv'
    BY <1>1, <1>3, <1>4, <1>5 DEF IInv, TablesInv, TokensInv
  <2> QED BY <1>1, <1>2, <2>1 DEF IInv, TablesInv, PlacesInv, GrantInv, ModulesInv, RoutingInv
<1>7. Kept
  BY <1>1, <1>4, <1>5 DEF Kept
<1>8. RequestsInv'
  BY <1>1, <1>7, BeginDone DEF RevokeToken, IInv
<1> QED BY <1>6, <1>8 DEF IInv

LEMMA SetActiveSafe ==
    ASSUME IInv, NEW r \in Requests, NEW a \in Accounts, NEW on \in BOOLEAN, SetActive(r, a, on)
    PROVE  IInv'
<1>1. /\ home' = home /\ born' = born /\ grant' = grant /\ deleted' = deleted /\ modules' = modules
      /\ trail' = trail /\ tokens' = tokens /\ sentry' = sentry /\ issues' = issues
      /\ active' = [active EXCEPT ![a] = on]
  BY DEF SetActive, access, features, keys, routing
<1>2. Existing' = Existing
  BY <1>1 DEF Existing
<1>3. active' \in [Accounts -> BOOLEAN]
  BY <1>1 DEF IInv, TablesInv, PlacesInv
<1>4. TablesInv'
  BY <1>1, <1>2, <1>3 DEF IInv, TablesInv, PlacesInv, GrantInv, ModulesInv, TokensInv, RoutingInv
<1>5. Kept
  BY <1>1 DEF Kept
<1>6. RequestsInv'
  BY <1>1, <1>5, BeginDone DEF SetActive, IInv
<1> QED BY <1>4, <1>6 DEF IInv

LEMMA CommitModulesSafe ==
    ASSUME IInv, NEW r \in Requests, CommitModules(r)
    PROVE  IInv'
<1> DEFINE p == req[r].project
           rows == req[r].arg.rows
           previous == req[r].arg.previous
           on == req[r].arg.desired \cap rows
           changed == {m \in rows : (m \in previous) # (m \in on)}
           new == (modules[p] \ changed) \cup (on \cap changed)
<1>1. /\ active' = active /\ home' = home /\ born' = born /\ grant' = grant /\ deleted' = deleted
      /\ tokens' = tokens /\ sentry' = sentry /\ issues' = issues /\ Finish(r)
      /\ modules' = [modules EXCEPT ![p] = new]
      /\ trail' = [trail EXCEPT ![p] = Replay(trail[p], changed, previous, on)]
  BY DEF CommitModules, places, access, keys, routing
<1>2. Existing' = Existing
  BY <1>1 DEF Existing
<1>3. req[r].stage = "locked" /\ Local(req[r]) /\ Held(req[r])
  BY DEF CommitModules, At, IInv, RequestsInv
<1>4. /\ req[r].op = "modules" /\ p \in Existing /\ rows \in SUBSET Optional
      /\ previous \cap rows = modules[p] \cap rows
  BY <1>3 DEF Local, Held, Existing
<1>5. modules[p] \in SUBSET Optional /\ trail[p] = modules[p]
  BY <1>4 DEF IInv, TablesInv, ModulesInv, Existing
<1>6. changed \subseteq rows /\ on \subseteq rows
  OBVIOUS
<1>7. \A m \in changed : (m \in trail[p]) = (m \in previous)
  BY <1>4, <1>5
<1> HIDE DEF changed, on, previous, rows, p
<1>8. Replay(trail[p], changed, previous, on) = new
  BY <1>5, <1>7 DEF Replay
<1>9. new \in SUBSET Optional
  BY <1>4, <1>5, <1>6
<1>10. \A x \in Requests \ {r} : req[x].stage = "locked" =>
          modules'[req[x].project] \cap req[x].arg.rows = modules[req[x].project] \cap req[x].arg.rows
  <2>1. SUFFICES ASSUME NEW x \in Requests \ {r}, req[x].stage = "locked"
                 PROVE  modules'[req[x].project] \cap req[x].arg.rows = modules[req[x].project] \cap req[x].arg.rows
    OBVIOUS
  <2>2. CASE req[x].project # p
    BY <1>1, <2>2 DEF IInv, TablesInv, ModulesInv
  <2>3. CASE req[x].project = p
    <3>1. req[x].arg.rows \cap rows = {}
      BY <1>3, <2>1, <2>3 DEF IInv, RequestsInv, Apart, p, rows
    <3>2. modules'[p] = new
      BY <1>1, <1>4 DEF IInv, TablesInv, ModulesInv, Existing
    <3> QED BY <1>6, <2>3, <3>1, <3>2
  <2> QED BY <2>2, <2>3
<1>11. ModulesInv'
  <2>1. p \in Projects
    BY <1>4 DEF Existing
  <2> HIDE DEF new
  <2>2. /\ modules' \in [Projects -> SUBSET Optional] /\ trail' \in [Projects -> SUBSET Optional]
        /\ \A x \in Projects : modules'[x] = (IF x = p THEN new ELSE modules[x])
                               /\ trail'[x] = (IF x = p THEN new ELSE trail[x])
    BY <1>1, <1>8, <1>9, <2>1 DEF IInv, TablesInv, ModulesInv
  <2> QED BY <1>2, <2>2 DEF IInv, TablesInv, ModulesInv, Existing
<1>12. TablesInv'
  BY <1>1, <1>2, <1>11 DEF IInv, TablesInv, PlacesInv, GrantInv, TokensInv, RoutingInv
<1>13. Kept
  BY <1>1 DEF Kept
<1>14. RequestsInv'
  BY <1>1, <1>4, <1>10, <1>13, FinishSafe DEF IInv
<1> QED BY <1>12, <1>14 DEF IInv

LEMMA CreateProjectSafe ==
    ASSUME IInv, NEW r \in Requests, NEW u \in Users, NEW p \in Projects, NEW preset \in Presets,
           CreateProject(r, u, p, preset)
    PROVE  IInv'
<1>1. /\ active' = active /\ grant' = grant /\ deleted' = deleted /\ tokens' = tokens
      /\ sentry' = sentry /\ issues' = issues
      /\ home[p] = None /\ home' = [home EXCEPT ![p] = AccountOf[u]] /\ born' = Append(born, p)
      /\ modules' = [modules EXCEPT ![p] = preset] /\ trail' = [trail EXCEPT ![p] = preset]
  BY DEF CreateProject, access, keys, routing
<1>2. AccountOf[u] \in Accounts /\ AccountOf[u] # None /\ preset \in SUBSET Optional
  BY ConfigAssumption DEF Presets
<1>3. /\ home' \in [Projects -> Accounts \cup {None}]
      /\ \A x \in Projects : home'[x] = IF x = p THEN AccountOf[u] ELSE home[x]
  BY <1>1, <1>2 DEF IInv, TablesInv, PlacesInv
<1>4. Existing' = Existing \cup {p} /\ p \notin Existing
  BY <1>1, <1>2, <1>3 DEF Existing
<1>5. PlacesInv'
  <2>1. /\ born' \in Seq(Projects) /\ born \in Seq(Projects) /\ Len(born) \in Nat
        /\ DOMAIN born = 1..Len(born) /\ DOMAIN born' = 1..(Len(born) + 1)
        /\ \A i \in DOMAIN born' : born'[i] = IF i = Len(born) + 1 THEN p ELSE born[i]
    BY <1>1 DEF IInv, TablesInv, PlacesInv
  <2>2. Existing = {born[i] : i \in DOMAIN born} /\ \A i, j \in DOMAIN born : born[i] = born[j] => i = j
    BY DEF IInv, TablesInv, PlacesInv
  <2>3. Existing' = {born'[i] : i \in DOMAIN born'}
    BY <1>4, <2>1, <2>2
  <2>4. \A i, j \in DOMAIN born' : born'[i] = born'[j] => i = j
    BY <1>4, <2>1, <2>2
  <2> QED BY <1>1, <1>3, <2>1, <2>3, <2>4 DEF IInv, TablesInv, PlacesInv
<1>6. /\ modules' \in [Projects -> SUBSET Optional] /\ trail' \in [Projects -> SUBSET Optional]
      /\ \A x \in Projects : modules'[x] = (IF x = p THEN preset ELSE modules[x])
                             /\ trail'[x] = (IF x = p THEN preset ELSE trail[x])
  BY <1>1, <1>2 DEF IInv, TablesInv, ModulesInv
<1>7. ModulesInv'
  BY <1>4, <1>6 DEF IInv, TablesInv, ModulesInv, Existing
<1>8. GrantInv'
  BY <1>1, <1>2, <1>3, ConfigAssumption DEF IInv, TablesInv, GrantInv
<1>9. TokensInv'
  <2>1. \A t \in Tokens : tokens[t] # None => AccountOf[tokens[t].by] # None /\ tokens[t].project \in Projects
    BY ConfigAssumption DEF IInv, TablesInv, TokensInv, Token
  <2> QED BY <1>1, <1>3, <2>1 DEF IInv, TablesInv, TokensInv
<1>10. RoutingInv'
  BY <1>1, <1>2, <1>3 DEF IInv, TablesInv, RoutingInv
<1>11. Kept
  BY <1>1, <1>3 DEF Kept
<1>12. \A x \in Requests : req[x].stage = "locked" => modules'[req[x].project] = modules[req[x].project]
  BY <1>1, <1>6 DEF IInv, RequestsInv, Local
<1>13. RequestsInv'
  BY <1>1, <1>11, <1>12, BeginDone DEF CreateProject, IInv
<1> QED BY <1>5, <1>7, <1>8, <1>9, <1>10, <1>13 DEF IInv, TablesInv

LEMMA SaveSettingsSafe ==
    ASSUME IInv, NEW r \in Requests, SaveSettings(r)
    PROVE  IInv'
<1> DEFINE p == req[r].project
           slug == req[r].arg.slug
<1>1. CASE ~UniqueSlug(p, slug)
  BY <1>1, RefuseSafe DEF SaveSettings
<1>2. CASE UniqueSlug(p, slug)
  <2>1. /\ active' = active /\ home' = home /\ born' = born /\ grant' = grant /\ deleted' = deleted
        /\ modules' = modules /\ trail' = trail /\ tokens' = tokens /\ issues' = issues
        /\ sentry' = [sentry EXCEPT ![p] = slug] /\ Finish(r)
    BY <1>2 DEF SaveSettings, places, access, features, keys
  <2>2. req[r].op = "settings" /\ p \in Projects /\ home[p] # None /\ slug \in Slugs \cup {None}
    BY DEF SaveSettings, At, IInv, RequestsInv, Local
  <2>3. slug # None => \A o \in Projects \ {p} : home[o] = home[p] => sentry[o] # slug
    BY <1>2, <2>2 DEF UniqueSlug, SlugTaken, OfAccount, Existing
  <2> HIDE DEF p, slug
  <2>4. Existing' = Existing
    BY <2>1 DEF Existing
  <2>5. /\ sentry' \in [Projects -> Slugs \cup {None}]
        /\ \A o \in Projects : sentry'[o] = IF o = p THEN slug ELSE sentry[o]
    BY <2>1, <2>2 DEF IInv, TablesInv, RoutingInv
  <2>6. RoutingInv'
    BY <2>1, <2>2, <2>3, <2>5 DEF IInv, TablesInv, RoutingInv
  <2>7. TablesInv'
    BY <2>1, <2>4, <2>6 DEF IInv, TablesInv, PlacesInv, GrantInv, ModulesInv, TokensInv
  <2>8. Kept
    BY <2>1 DEF Kept
  <2>9. RequestsInv'
    BY <2>1, <2>2, <2>8, FinishSafe DEF IInv
  <2> QED BY <2>7, <2>9 DEF IInv
<1> QED BY <1>1, <1>2

LEMMA SaveGrantSafe ==
    ASSUME IInv, NEW r \in Requests, SaveGrant(r)
    PROVE  IInv'
<1> DEFINE u == req[r].arg.user
           p == req[r].project
           role == req[r].arg.role
<1>1. /\ req[r].op = "grant" /\ u \in Users /\ p \in Projects /\ home[p] = AccountOf[u]
      /\ role \in Roles \cup {"none"}
  BY DEF SaveGrant, At, IInv, RequestsInv, Local, OwnProject
<1>2. \/ Refuse(r)
      \/ /\ UNCHANGED <<places, features, keys, routing>> /\ Finish(r)
         /\ \/ grant' = grant /\ deleted' = deleted
            \/ /\ grant' = [grant EXCEPT ![u][p] = role]
               /\ deleted' = IF role # "none" THEN deleted ELSE [deleted EXCEPT ![u][p] = @ + 1]
  BY DEF SaveGrant
<1> HIDE DEF u, p, role
<1>3. CASE Refuse(r)
  BY <1>3, RefuseSafe
<1>4. CASE ~Refuse(r)
  <2>1. /\ active' = active /\ home' = home /\ born' = born /\ modules' = modules /\ trail' = trail
        /\ tokens' = tokens /\ sentry' = sentry /\ issues' = issues /\ Finish(r)
    BY <1>2, <1>4 DEF places, features, keys, routing
  <2>2. Existing' = Existing
    BY <2>1 DEF Existing
  <2>3. GrantInv' /\ \A x \in Users, y \in Projects : deleted'[x][y] # deleted[x][y] => grant'[x][y] = "none"
    <3>1. CASE grant' = grant /\ deleted' = deleted
      BY <2>1, <3>1 DEF IInv, TablesInv, GrantInv
    <3>2. CASE /\ grant' = [grant EXCEPT ![u][p] = role]
               /\ deleted' = IF role # "none" THEN deleted ELSE [deleted EXCEPT ![u][p] = @ + 1]
      <4>1. /\ grant' \in [Users -> [Projects -> Roles \cup {"none"}]]
            /\ \A x \in Users, y \in Projects : grant'[x][y] = IF x = u /\ y = p THEN role ELSE grant[x][y]
        BY <1>1, <3>2 DEF IInv, TablesInv, GrantInv
      <4>2. /\ deleted' \in [Users -> [Projects -> Nat]]
            /\ \A x \in Users, y \in Projects : deleted'[x][y] # deleted[x][y] => x = u /\ y = p /\ role = "none"
        BY <1>1, <3>2 DEF IInv, TablesInv, GrantInv
      <4> QED BY <1>1, <2>1, <4>1, <4>2 DEF IInv, TablesInv, GrantInv
    <3> QED BY <1>2, <1>4, <3>1, <3>2
  <2>4. TablesInv'
    BY <2>1, <2>2, <2>3 DEF IInv, TablesInv, PlacesInv, ModulesInv, TokensInv, RoutingInv
  <2>5. Kept
    BY <2>1 DEF Kept
  <2>6. RequestsInv'
    BY <1>1, <2>1, <2>3, <2>5, FinishSafe DEF IInv
  <2> QED BY <2>4, <2>6 DEF IInv
<1> QED BY <1>3, <1>4

(* A step that attaches issues only. *)
LEMMA IssuesSafe ==
    ASSUME IInv, NEW r \in Requests, Finish(r), req[r].op \in {"hook", "reattach"},
           UNCHANGED <<places, access, features, keys, sentry>>, issues' \in [Issues -> Issue \cup {None}]
    PROVE  IInv'
<1>1. /\ active' = active /\ home' = home /\ born' = born /\ grant' = grant /\ deleted' = deleted
      /\ modules' = modules /\ trail' = trail /\ tokens' = tokens /\ sentry' = sentry
  BY DEF places, access, features, keys
<1>2. Existing' = Existing
  BY <1>1 DEF Existing
<1>3. TablesInv'
  BY <1>1, <1>2 DEF IInv, TablesInv, PlacesInv, GrantInv, ModulesInv, TokensInv, RoutingInv
<1>4. Kept
  BY <1>1 DEF Kept
<1>5. RequestsInv'
  BY <1>1, <1>4, FinishSafe DEF IInv
<1> QED BY <1>3, <1>5 DEF IInv

LEMMA IngestHookSafe ==
    ASSUME IInv, NEW r \in Requests, IngestHook(r)
    PROVE  IInv'
<1> DEFINE i == req[r].arg.issue
           or(x, y) == IF x = None THEN y ELSE x
           new == IF issues[i] = None THEN [account |-> req[r].who, project |-> req[r].project]
                  ELSE [account |-> or(issues[i].account, req[r].who),
                        project |-> or(issues[i].project, req[r].project)]
<1>1. /\ req[r].op = "hook" /\ req[r].who \in Accounts \cup {None} /\ i \in Issues
      /\ req[r].project \in Projects \cup {None}
  BY DEF IngestHook, At, IInv, RequestsInv, Local
<1>2. /\ issues' = [issues EXCEPT ![i] = new] /\ Finish(r)
      /\ UNCHANGED <<places, access, features, keys, sentry>>
  BY DEF IngestHook
<1>3. issues \in [Issues -> Issue \cup {None}] /\ issues[i] \in Issue \cup {None}
  BY <1>1 DEF IInv, TablesInv, RoutingInv
<1>4. new \in Issue
  BY <1>1, <1>3 DEF Issue
<1> HIDE DEF new, i
<1>5. issues' \in [Issues -> Issue \cup {None}]
  BY <1>2, <1>3, <1>4
<1> QED BY <1>1, <1>2, <1>5, IssuesSafe

LEMMA ReattachSafe ==
    ASSUME IInv, NEW r \in Requests, Reattach(r)
    PROVE  IInv'
<1> DEFINE a == AccountOf[req[r].who]
           slug == req[r].arg.slugs
           claims(i) == {p \in OfAccount(a) : slug[p] # None /\ slug[p] = SlugOf[i]}
           new(i) == [account |-> a, project |-> CHOOSE p \in claims(i) : TRUE]
<1>1. req[r].op = "reattach" /\ a \in Accounts
  BY ConfigAssumption DEF Reattach, At, IInv, RequestsInv, Local
<1>2. /\ issues' = [i \in Issues |-> IF i \in Unmatched(a) /\ claims(i) # {} THEN new(i) ELSE issues[i]]
      /\ Finish(r) /\ UNCHANGED <<places, access, features, keys, sentry>>
  BY DEF Reattach
<1>3. ASSUME NEW i \in Issues, claims(i) # {}
      PROVE  new(i) \in Issue
  <2>1. (CHOOSE p \in claims(i) : TRUE) \in claims(i)
    BY <1>3
  <2>2. (CHOOSE p \in claims(i) : TRUE) \in Projects
    BY <2>1 DEF OfAccount, Existing
  <2> QED BY <1>1, <2>2 DEF Issue
<1> HIDE DEF new, claims, a
<1>4. issues' \in [Issues -> Issue \cup {None}]
  BY <1>2, <1>3 DEF IInv, TablesInv, RoutingInv
<1> QED BY <1>1, <1>2, <1>4, IssuesSafe

-----------------------------------------------------------------------------
(* The invariant. *)
LEMMA InitSafe ==
    ASSUME Init
    PROVE  IInv
<1>1. PICK c \in Starts :
        /\ active = [a \in Accounts |-> TRUE]
        /\ home = c.home /\ born = c.born /\ grant = c.grant
        /\ deleted = [u \in Users |-> [p \in Projects |-> 0]]
        /\ modules = c.modules /\ trail = c.modules
        /\ tokens = c.tokens /\ sentry = c.sentry /\ issues = c.issues
        /\ req = [r \in Requests |-> Blank]
  BY DEF Init
<1>2. TablesInv
  BY <1>1, StartsAssumption DEF TablesInv, PlacesInv, GrantInv, ModulesInv, TokensInv, RoutingInv, Existing
<1>3. IsRequest(Blank) /\ Blank.stage = "new"
  BY DEF Blank, IsRequest, Stages
<1>4. RequestsInv
  BY <1>1, <1>3 DEF RequestsInv, Local, Noticed, Held, Apart
<1> QED BY <1>2, <1>4 DEF IInv

LEMMA NextSafe ==
    ASSUME IInv, [Next]_vars
    PROVE  IInv'
<1>1. CASE UNCHANGED vars
  <2>1. /\ active' = active /\ home' = home /\ born' = born /\ grant' = grant /\ deleted' = deleted
        /\ modules' = modules /\ trail' = trail /\ tokens' = tokens /\ sentry' = sentry /\ issues' = issues
        /\ req' = req
    BY <1>1 DEF vars, config, places, access, features, keys, routing
  <2>2. Existing' = Existing
    BY <2>1 DEF Existing
  <2>3. TablesInv'
    BY <2>1, <2>2 DEF IInv, TablesInv, PlacesInv, GrantInv, ModulesInv, TokensInv, RoutingInv
  <2>4. \A q : (Local(q) => Local(q)') /\ (Noticed(q) => Noticed(q)') /\ (Held(q) => Held(q)')
    BY <2>1 DEF Local, Noticed, Held, Admitted, Loaded, OwnProject, WorkAllowed
  <2>5. ASSUME NEW r \in Requests
        PROVE  IsRequest(req'[r]) /\ Local(req[r])' /\ Noticed(req[r])' /\ Held(req[r])'
    <3>1. PICK q : q = req[r]
      OBVIOUS
    <3>2. q = req'[r] /\ IsRequest(q) /\ Local(q) /\ Noticed(q) /\ Held(q)
      BY <2>1, <3>1 DEF IInv, RequestsInv
    <3>3. Local(q)' /\ Noticed(q)' /\ Held(q)'
      BY <2>4, <3>2
    <3> QED BY <3>2, <3>3
  <2>6. RequestsInv'
    BY <2>1, <2>5 DEF IInv, RequestsInv, Apart
  <2> QED BY <2>3, <2>6 DEF IInv
<1>2. ASSUME NEW r \in Requests, Screens(r)
      PROVE  IInv'
  BY <1>2, AdmitSafe, LoadContextSafe, WorkSafe, SwitchSafe DEF Screens
<1>3. ASSUME NEW r \in Requests, Keys(r)
      PROVE  IInv'
  BY <1>3, AskTokenSafe, MintTokenSafe, RevokeTokenSafe DEF Keys
<1>4. ASSUME NEW r \in Requests, Settings(r)
      PROVE  IInv'
  <2>1. CASE \E u \in Users, p \in Projects, desired \in Presets : Configure(r, u, p, Optional, desired)
    BY <2>1, ConfigureSafe
  <2>2. CASE \E u \in Users, p \in Projects, m \in Optional, on \in BOOLEAN :
               Configure(r, u, p, {m}, IF on THEN {m} ELSE {})
    BY <2>2, ConfigureSafe
  <2>3. CASE LockRows(r) \/ CommitModules(r)
    BY <2>3, LockRowsSafe, CommitModulesSafe
  <2>4. CASE \E u \in Users, p \in Projects, preset \in Presets : CreateProject(r, u, p, preset)
    BY <2>4, CreateProjectSafe
  <2>5. CASE \E u \in Users, p \in Projects, slug \in Slugs \cup {None} : CheckSettings(r, u, p, slug)
    BY <2>5, CheckSettingsSafe
  <2>6. CASE SaveSettings(r) \/ SaveGrant(r)
    BY <2>6, SaveSettingsSafe, SaveGrantSafe
  <2>7. CASE \E o \in Owners, u \in Users \ Owners, p \in Projects, role \in Roles \cup {"none"} :
               LoadGrant(r, o, u, p, role)
    BY <2>7, LoadGrantSafe
  <2>8. CASE \E a \in Accounts, on \in BOOLEAN : SetActive(r, a, on)
    BY <2>8, SetActiveSafe
  <2> QED BY <1>4, <2>1, <2>2, <2>3, <2>4, <2>5, <2>6, <2>7, <2>8 DEF Settings
<1>5. ASSUME NEW r \in Requests, Hooks(r)
      PROVE  IInv'
  BY <1>5, RouteHookSafe, IngestHookSafe, ReadMappingSafe, ReattachSafe DEF Hooks
<1> QED BY <1>1, <1>2, <1>3, <1>4, <1>5 DEF Next

(* Tables, and what each request in flight has found out, in every state. *)
THEOREM WorkspaceInvariant == Spec => []IInv
<1>1. Init => IInv
  BY InitSafe
<1>2. IInv /\ [Next]_vars => IInv'
  BY NextSafe
<1> QED BY <1>1, <1>2, PTL DEF Spec

(* Work and tokens were admitted by the role, the token and the module of  *)
(* their own project, at some moment of their request.                     *)
THEOREM WorkspaceWorkWasAdmitted == Spec => []WorkWasAdmitted
<1>1. IInv => WorkWasAdmitted
  <2>1. SUFFICES ASSUME IInv
                 PROVE  WorkWasAdmitted
    OBVIOUS
  <2>2. ASSUME NEW q \in Done("work")
        PROVE  WorkAllowed(q) /\ Gated(q)
    <3>1. PICK r \in Requests : q = req[r] /\ q.stage = "done" /\ q.op = "work"
      BY DEF Done, At
    <3>2. Local(q)
      BY <2>1, <3>1 DEF IInv, RequestsInv
    <3> QED BY <3>1, <3>2 DEF Local
  <2>3. ASSUME NEW q \in Done("mint")
        PROVE  Minted(q)
    <3>1. PICK r \in Requests : q = req[r] /\ q.stage = "done" /\ q.op = "mint"
      BY DEF Done, At
    <3>2. Local(q)
      BY <2>1, <3>1 DEF IInv, RequestsInv
    <3> QED BY <3>1, <3>2 DEF Local
  <2> QED BY <2>2, <2>3 DEF WorkWasAdmitted, WorkWasAllowed, GatedByOwnProject, MintedWithinRole,
                            WorkAllowed, Gated, Minted
<1> QED BY <1>1, WorkspaceInvariant, PTL

(* The audit trail of a project explains its modules.                      *)
THEOREM WorkspaceTrailExplains == Spec => []TrailExplains
<1>1. IInv => TrailExplains
  BY DEF IInv, TablesInv, ModulesInv, TrailExplains
<1> QED BY <1>1, WorkspaceInvariant, PTL

(* Grants, tokens and Sentry slugs stay inside an account.                 *)
THEOREM WorkspaceAccountsAreIslands == Spec => []AccountsAreIslands
<1>1. IInv => TypeOK
  BY DEF IInv, TablesInv, PlacesInv, GrantInv, ModulesInv, TokensInv, RoutingInv, RequestsInv, IsRequest, TypeOK
<1>2. IInv => AccountsAreIslands
  BY <1>1 DEF IInv, TablesInv, GrantInv, TokensInv, RoutingInv, AccountsAreIslands, Existing
<1> QED BY <1>2, WorkspaceInvariant, PTL

(* Requests have only one step that ends them in each stage. *)
LEMMA OthersStay ==
    ASSUME IInv, NEW r \in Requests, Next, req'[r].stage # req[r].stage
    PROVE  Screens(r) \/ Keys(r) \/ Settings(r) \/ Hooks(r)
<1>1. PICK x \in Requests : Screens(x) \/ Keys(x) \/ Settings(x) \/ Hooks(x)
  BY DEF Next
<1>2. \E q : Go(x, q)
  <2>1. Screens(x) => \E q : Go(x, q)
    BY DEF Screens, Admit, LoadContext, Work, Switch, Begin, Refuse
  <2>2. Keys(x) => \E q : Go(x, q)
    BY DEF Keys, AskToken, MintToken, RevokeToken, Begin, Finish
  <2>3. Settings(x) => \E q : Go(x, q)
    BY DEF Settings, Configure, LockRows, CommitModules, CreateProject, CheckSettings, SaveSettings,
           LoadGrant, SaveGrant, SetActive, Begin, Finish, Refuse
  <2>4. Hooks(x) => \E q : Go(x, q)
    BY DEF Hooks, RouteHook, IngestHook, ReadMapping, Reattach, Begin, Finish
  <2> QED BY <1>1, <2>1, <2>2, <2>3, <2>4
<1>3. r # x => req'[r].stage = req[r].stage
  <2>1. SUFFICES ASSUME r # x
                 PROVE  req'[r].stage = req[r].stage
    OBVIOUS
  <2>2. req'[r] = req[r] \/ \E facts : req'[r] = [req[r] EXCEPT !.ever = @ \cup facts]
    BY <1>2, <2>1 DEF Go
  <2>3. ASSUME NEW facts, req'[r] = [req[r] EXCEPT !.ever = @ \cup facts]
        PROVE  req'[r].stage = req[r].stage
    <3>1. PICK q : q = req[r] /\ IsRequest(q)
      BY DEF IInv, RequestsInv
    <3>2. Later(q, [q EXCEPT !.ever = @ \cup facts])
      BY <3>1, EverField
    <3> QED BY <2>3, <3>1, <3>2 DEF Later
  <2> QED BY <2>2, <2>3
<1> QED BY <1>1, <1>3

(* A cell of the matrix that was answered as saved had its role meanwhile. *)
THEOREM WorkspaceSavedGrantsHeld == Spec => SavedGrantsHeld
<1> DEFINE Saved ==
      \A r \in At("granting") :
         LET a == req[r].arg
         IN  req'[r].stage = "done" =>
               a.role = grant'[a.user][req[r].project] \/ <<a.role>> \in req'[r].ever
<1>1. ASSUME IInv, [Next]_vars, NEW r \in At("granting"), req'[r].stage = "done"
      PROVE  \/ req[r].arg.role = grant'[req[r].arg.user][req[r].project]
             \/ <<req[r].arg.role>> \in req'[r].ever
  <2> DEFINE u == req[r].arg.user
             p == req[r].project
             role == req[r].arg.role
             found == req[r].arg.found
  <2>1. r \in Requests /\ req[r].stage = "granting" /\ req'[r].stage # req[r].stage
    BY <1>1 DEF At
  <2>2. Next
    BY <1>1, <2>1 DEF vars
  <2>3. SaveGrant(r)
    <3>1. Screens(r) \/ Keys(r) \/ Settings(r) \/ Hooks(r)
      BY <1>1, <2>1, <2>2, OthersStay
    <3>2. ~Screens(r) /\ ~Keys(r) /\ ~Hooks(r)
      BY <2>1 DEF Screens, Admit, LoadContext, Work, Switch, Begin, At, Keys, AskToken, MintToken, RevokeToken,
                  Hooks, RouteHook, IngestHook, ReadMapping, Reattach
    <3> QED BY <2>1, <3>1, <3>2 DEF Settings, Configure, LockRows, CommitModules, CreateProject, CheckSettings,
                                    SaveSettings, LoadGrant, SetActive, Begin, At
  <2>4. /\ IsRequest(req[r]) /\ req[r].op = "grant" /\ u \in Users /\ p \in Projects
        /\ <<found>> \in req[r].ever /\ Noticed(req[r])
    BY <1>1, <2>1 DEF IInv, RequestsInv, Local, OwnProject
  <2>5. ~Refuse(r)
    <3>1. Refuse(r) => req'[r].stage = "refused"
      <4>1. [req[r] EXCEPT !.stage = "refused"].stage = "refused" /\ IsRequest([req[r] EXCEPT !.stage = "refused"])
        BY <2>4, StageField DEF Stages
      <4>2. ASSUME Refuse(r)
            PROVE  Later([req[r] EXCEPT !.stage = "refused"], req'[r])
        BY <1>1, <2>1, <4>1, <4>2, GoFields DEF IInv, Refuse
      <4> QED BY <4>1, <4>2 DEF Later
    <3> QED BY <1>1, <3>1
  <2>6. Finish(r)
    BY <2>3, <2>5 DEF SaveGrant
  <2>7. req[r].ever \subseteq req'[r].ever /\ Facts([req[r] EXCEPT !.stage = "done"]) \subseteq req'[r].ever
    <3>1. PICK q : q = [req[r] EXCEPT !.stage = "done"]
      OBVIOUS
    <3>2. IsRequest(q) /\ q.ever = req[r].ever
      BY <2>4, <3>1, StageField DEF Stages
    <3>3. Go(r, q)
      BY <2>6, <3>1 DEF Finish
    <3>4. Later(q, req'[r]) /\ Facts(q) \subseteq req'[r].ever
      BY <1>1, <2>1, <3>2, <3>3, GoFields DEF IInv
    <3> QED BY <3>1, <3>2, <3>4 DEF Later
  <2>8. CASE found = role
    BY <2>4, <2>7, <2>8
  <2>9. CASE role = "none" /\ req[r].arg.row # deleted[u][p]
    <3>1. <<"none">> \in req[r].ever \/ grant[u][p] = "none"
      BY <2>1, <2>4, <2>9 DEF Noticed
    <3>2. Facts([req[r] EXCEPT !.stage = "done"]) = {<<grant[u][p]>>}
      <4>1. PICK q : q = [req[r] EXCEPT !.stage = "done"]
        OBVIOUS
      <4>2. q.op = "grant" /\ q.arg = req[r].arg /\ q.project = req[r].project
        BY <2>4, <4>1, StageField DEF Stages
      <4>3. Facts(q) = {<<grant[u][p]>>}
        BY <4>2 DEF Facts
      <4> QED BY <4>1, <4>3
    <3> QED BY <2>7, <2>9, <3>1, <3>2
  <2>10. CASE found # role /\ ~(role = "none" /\ req[r].arg.row # deleted[u][p])
    <3>1. grant' = [grant EXCEPT ![u][p] = role]
      BY <2>3, <2>5, <2>10 DEF SaveGrant
    <3> QED BY <1>1, <2>4, <3>1 DEF IInv, TablesInv, GrantInv
  <2> QED BY <2>8, <2>9, <2>10
<1>2. IInv /\ [Next]_vars => Saved
  BY <1>1
<1>3. IInv /\ [Next]_vars => [Saved]_vars
  BY <1>2
<1> QED BY <1>3, WorkspaceInvariant, PTL DEF Spec, SavedGrantsHeld

(* An issue is attached once, to a project that owned its slug meanwhile.  *)
THEOREM WorkspaceIssuesFollowTheirSlug == Spec => IssuesFollowTheirSlug
<1> DEFINE ProjectOf(row) == IF row = None THEN None ELSE row.project
           Reason(i, p) == \E r \in Requests : /\ req[r].stage # "done" /\ req'[r].stage = "done"
                                              /\ <<SlugOf[i], p>> \in req'[r].ever
           Attached(i) ==
             ProjectOf(issues'[i]) # ProjectOf(issues[i]) =>
               /\ ProjectOf(issues[i]) = None
               /\ SlugOf[i] # None => Reason(i, ProjectOf(issues'[i]))
<1>1. ASSUME IInv, [Next]_vars, NEW i \in Issues
      PROVE  Attached(i)
  <2>1. SUFFICES ASSUME ProjectOf(issues'[i]) # ProjectOf(issues[i])
                 PROVE  /\ ProjectOf(issues[i]) = None
                        /\ SlugOf[i] # None => Reason(i, ProjectOf(issues'[i]))
    OBVIOUS
  <2>2. issues' # issues
    BY <2>1
  <2>3. PICK r \in Requests : IngestHook(r) \/ Reattach(r)
    <3>1. Next
      BY <1>1, <2>2 DEF vars, config, routing
    <3>2. PICK r \in Requests : Screens(r) \/ Keys(r) \/ Settings(r) \/ Hooks(r)
      BY <3>1 DEF Next
    <3>3. ~Screens(r)
      BY <2>2 DEF Screens, Admit, LoadContext, Work, Switch, config, routing
    <3>4. ~Keys(r)
      BY <2>2 DEF Keys, AskToken, MintToken, RevokeToken, config, routing
    <3>5. ~Settings(r)
      BY <2>2 DEF Settings, Configure, LockRows, CommitModules, CreateProject, CheckSettings, SaveSettings,
                  LoadGrant, SaveGrant, SetActive, Refuse, config, routing
    <3> QED BY <2>2, <3>2, <3>3, <3>4, <3>5 DEF Hooks, RouteHook, ReadMapping, config, routing
  <2>4. IsRequest(req[r]) /\ Local(req[r]) /\ Finish(r) /\ req[r].stage \in {"ingesting", "reattaching"}
    BY <1>1, <2>3 DEF IInv, RequestsInv, IngestHook, Reattach, At
  <2>5. req[r].ever \subseteq req'[r].ever /\ req'[r].stage = "done"
    <3>1. PICK q : q = [req[r] EXCEPT !.stage = "done"]
      OBVIOUS
    <3>2. IsRequest(q) /\ q.ever = req[r].ever /\ q.stage = "done"
      BY <2>4, <3>1, StageField DEF Stages
    <3>3. Go(r, q)
      BY <2>4, <3>1 DEF Finish
    <3>4. Later(q, req'[r])
      BY <1>1, <3>2, <3>3, GoFields DEF IInv
    <3> QED BY <3>2, <3>4 DEF Later
  <2>6. issues \in [Issues -> Issue \cup {None}] /\ None \notin Issue
    BY <1>1, ConfigAssumption DEF IInv, TablesInv, RoutingInv
  <2>7. CASE IngestHook(r)
    <3> DEFINE k == req[r].arg.issue
               or(x, y) == IF x = None THEN y ELSE x
               new == IF issues[k] = None THEN [account |-> req[r].who, project |-> req[r].project]
                      ELSE [account |-> or(issues[k].account, req[r].who),
                            project |-> or(issues[k].project, req[r].project)]
    <3>1. k \in Issues /\ req[r].who \in Accounts \cup {None} /\ req[r].project \in Projects \cup {None}
          /\ (req[r].project # None /\ SlugOf[k] # None => <<SlugOf[k], req[r].project>> \in req[r].ever)
      BY <2>4, <2>7 DEF IngestHook, At, Local
    <3>2. issues' = [issues EXCEPT ![k] = new]
      BY <2>7 DEF IngestHook
    <3>3. issues[k] \in Issue \cup {None}
      BY <2>6, <3>1
    <3>4. new \in Issue /\ new.project = or(ProjectOf(issues[k]), req[r].project)
      BY <2>6, <3>1, <3>3 DEF Issue
    <3> HIDE DEF new
    <3>5. k = i /\ issues'[i] = new
      BY <2>1, <2>6, <3>1, <3>2
    <3>6. ProjectOf(issues'[i]) = new.project
      BY <2>6, <3>4, <3>5
    <3>7. ProjectOf(issues[i]) = None /\ new.project = req[r].project /\ req[r].project # None
      BY <2>1, <3>4, <3>5, <3>6
    <3> QED BY <2>4, <2>5, <3>1, <3>5, <3>6, <3>7
  <2>8. CASE Reattach(r)
    <3> DEFINE a == AccountOf[req[r].who]
               slug == req[r].arg.slugs
               claims == {p \in OfAccount(a) : slug[p] # None /\ slug[p] = SlugOf[i]}
               to == CHOOSE p \in claims : TRUE
    <3>1. issues'[i] = IF i \in Unmatched(a) /\ claims # {} THEN [account |-> a, project |-> to] ELSE issues[i]
      BY <2>8 DEF Reattach
    <3>2. i \in Unmatched(a) /\ claims # {}
      BY <2>1, <3>1
    <3>3. ProjectOf(issues[i]) = None
      BY <3>2 DEF Unmatched
    <3>4. to \in claims /\ to \in Projects /\ a \in Accounts
      BY <2>4, <2>8, <3>2, ConfigAssumption DEF OfAccount, Existing, Local, Reattach, At
    <3>5. <<SlugOf[i], to>> \in req[r].ever
      BY <2>4, <2>8, <3>4 DEF Local, Reattach, At
    <3> HIDE DEF to, a, claims
    <3>6. [account |-> a, project |-> to] \in Issue
      BY <3>4 DEF Issue
    <3>7. ProjectOf(issues'[i]) = to
      BY <2>6, <3>1, <3>2, <3>6
    <3> QED BY <2>4, <2>5, <3>3, <3>5, <3>7
  <2> QED BY <2>3, <2>7, <2>8
<1>2. IInv /\ [Next]_vars => \A i \in Issues : Attached(i)
  BY <1>1
<1> DEFINE All ==
      \A i \in Issues :
         LET was == IF issues[i] = None THEN None ELSE issues[i].project
             p == IF issues'[i] = None THEN None ELSE issues'[i].project
         IN  p # was => /\ was = None
                        /\ SlugOf[i] # None =>
                             \E r \in Requests : req[r].stage # "done" /\ req'[r].stage = "done"
                                                 /\ <<SlugOf[i], p>> \in req'[r].ever
<1>3. IInv /\ [Next]_vars => [All]_vars
  BY <1>2
<1> QED BY <1>3, WorkspaceInvariant, PTL DEF Spec, IssuesFollowTheirSlug
=============================================================================
