---------------------------- MODULE DispatchProofs ----------------------------
(***************************************************************************)
(* Tools, batches and tenants: for any number of requests, messages, rows  *)
(* and projects, what a call stages is kept if it is answered with success *)
(* and lost otherwise, and nothing written or shown leaves its project.    *)
(***************************************************************************)
EXTENDS Dispatch, TLAPS

(* Which table a row of which may refer to. *)
MayRefer(id, up) ==
    \/ KindOf[id] = "item" /\ KindOf[up] = "thread"
    \/ KindOf[id] = "issue" /\ KindOf[up] = "item"
    \/ KindOf[id] = "pending" /\ KindOf[up] = "task"

(* Rows refer within their project; only incidents may be without one.     *)
RowsInv ==
    /\ DOMAIN rows \subseteq Rows
    /\ \A id \in DOMAIN rows :
          /\ rows[id] \in Row
          /\ rows[id].home = None => KindOf[id] = "issue" /\ rows[id].up = None
          /\ rows[id].up # None => /\ rows[id].up \in DOMAIN rows
                                   /\ MayRefer(id, rows[id].up)
                                   /\ rows[rows[id].up].home = rows[id].home

(* The row that c makes of an id keeps the project, refers within it, and  *)
(* is not another project's but for one that c leaves as it is.            *)
GoodRow(r, c, id) ==
    /\ c[id] \in Row /\ c[id].home \in Projects
    /\ id \in DOMAIN rows => \/ rows[id].home = c[id].home /\ c[id].home = Mine(r)
                             \/ rows[id].home = None /\ c[id].home = Mine(r)
                             \/ rows[id] = c[id] /\ req[r].tool = "backfill"
    /\ c[id].up # None =>
          /\ MayRefer(id, c[id].up)
          /\ IF c[id].up \in DOMAIN c THEN c[c[id].up] # None /\ c[c[id].up].home = c[id].home
             ELSE c[id].up \in DOMAIN rows /\ rows[c[id].up].home = c[id].home

(* A deletion takes every reference with it. *)
GoodDeletion(r, c, id) ==
    /\ id \in DOMAIN rows /\ rows[id].home = Mine(r) /\ KindOf[id] # "issue"
    /\ \A x \in DOMAIN rows : rows[x].up = id => x \in DOMAIN c

Proper(r, c) ==
    /\ DOMAIN c \subseteq Rows
    /\ \A id \in DOMAIN c : IF c[id] = None THEN GoodDeletion(r, c, id) ELSE GoodRow(r, c, id)

(* Where a request is determines what it holds, and its answers tell what  *)
(* has become of what it staged.                                           *)
ReqInv(q) ==
    /\ q \in Request
    /\ q.at # "idle" => q.project \in Projects
    /\ q.at # "commit" => DOMAIN q.staged = {} /\ q.shown = {}
    /\ q.at \in {"handle", "commit"} => q.lit /\ (Writes(q.tool) => q.scope = "write")
    /\ DOMAIN q.staged # {} => q.scope = "write" /\ q.shown = {}
    /\ q.did \subseteq 1..(Len(q.answers) + 1) /\ q.wrote \subseteq q.did
    /\ \A p \in q.did : p <= Len(q.answers) => (q.answers[p] = "ok" <=> p \in q.wrote)
    /\ Len(q.answers) + 1 \notin q.wrote
    /\ q.at # "killed" => (Len(q.answers) + 1 \in q.did <=> DOMAIN q.staged # {})
    /\ \A id \in DOMAIN q.staged : q.staged[id].by = Len(q.answers) + 1

(* What two requests hold does not collide. *)
Apart(r, o) ==
    /\ DOMAIN Flushed(r) \cap DOMAIN Flushed(o) = {}
    /\ Deleted(Flushed(r)) \cap Referred(Flushed(o)) = {}

(* What was shown is still of its project, or gone for good. *)
ShownInv ==
    \A r \in Requests : \A id \in req[r].shown :
        /\ id \in DOMAIN rows => rows[id].home = Mine(r)
        /\ id \notin DOMAIN rows => /\ KindOf[id] # "issue"
                                    /\ \A o \in Requests : id \notin DOMAIN req[o].staged

IInv ==
    /\ RowsInv /\ on \in [Projects -> SUBSET Optional]
    /\ req \in [Requests -> Request] /\ \A r \in Requests : ReqInv(req[r])
    /\ \A r \in Requests : Proper(r, Flushed(r))
    /\ \A r, o \in Requests : r # o => Apart(r, o)
    /\ ShownInv

-----------------------------------------------------------------------------
(* The staging of nothing. *)
LEMMA NothingStaged ==
    /\ DOMAIN Nothing = {}
    /\ Nothing \in UNION {[ids -> [row : Row \cup {None}, by : Nat]] : ids \in SUBSET Rows}
<1>1. DOMAIN Nothing = {}
  BY DEF Nothing
<1>2. Nothing \in [{} -> [row : Row \cup {None}, by : Nat]]
  BY DEF Nothing
<1> QED BY <1>1, <1>2

(* A step of one request that leaves it with nothing staged and nothing    *)
(* shown.                                                                  *)
LEMMA LetGo ==
    ASSUME IInv, NEW r \in Requests, NEW q, req' = [req EXCEPT ![r] = q], ReqInv(q),
           DOMAIN q.staged = {}, q.shown = {}, UNCHANGED <<rows, on>>
    PROVE  IInv'
<1>1. \A o \in Requests : req'[o] = IF o = r THEN q ELSE req[o]
  BY DEF IInv
<1>2. req' \in [Requests -> Request] /\ \A o \in Requests : ReqInv(req'[o])
  BY <1>1 DEF IInv, ReqInv
<1>3. DOMAIN Flushed(r)' = {} /\ \A o \in Requests \ {r} : Flushed(o)' = Flushed(o)
  BY <1>1 DEF Flushed
<1>4. DOMAIN Flushed(r)' = {} /\ Deleted(Flushed(r)') = {} /\ Referred(Flushed(r)') = {}
  BY <1>3 DEF Deleted, Referred
<1>5. ASSUME NEW o \in Requests PROVE Proper(o, Flushed(o))'
  <2>1. CASE o = r
    BY <2>1, <1>4 DEF Proper
  <2>2. CASE o # r
    <3>1. Flushed(o)' = Flushed(o) /\ Mine(o)' = Mine(o) /\ req'[o] = req[o] /\ rows' = rows
      BY <2>2, <1>1, <1>3 DEF Mine
    <3> QED BY <3>1 DEF IInv, Proper, GoodRow, GoodDeletion
  <2> QED BY <2>1, <2>2
<1>6. ASSUME NEW o \in Requests, NEW u \in Requests, o # u PROVE Apart(o, u)'
  <2>1. CASE o # r /\ u # r
    <3>1. Flushed(o)' = Flushed(o) /\ Flushed(u)' = Flushed(u)
      BY <2>1, <1>3
    <3>2. Apart(o, u)
      BY <1>6 DEF IInv
    <3> QED BY <3>1, <3>2 DEF Apart, Deleted, Referred
  <2>2. CASE o = r \/ u = r
    BY <2>2, <1>4, <1>6 DEF Apart
  <2> QED BY <2>1, <2>2
<1>7. ShownInv'
  BY <1>1 DEF IInv, ShownInv, Mine
<1> QED BY <1>2, <1>5, <1>6, <1>7 DEF IInv, RowsInv

LEMMA HandlingHolds ==
    ASSUME IInv, NEW r \in Requests, req[r].at = "handle"
    PROVE  /\ req[r] \in Request /\ ReqInv(req[r]) /\ Mine(r) \in Projects
           /\ DOMAIN req[r].staged = {} /\ req[r].shown = {}
BY DEF IInv, ReqInv, Mine

(* A tool that reads answers with rows of the token's project. *)
LEMMA ShowSafe ==
    ASSUME IInv, NEW r \in Requests, req[r].at = "handle", NEW ids, Show(r, ids),
           ids \subseteq {id \in DOMAIN rows : rows[id].home = Mine(r)}
    PROVE  IInv'
<1> DEFINE q == [req[r] EXCEPT !.at = "commit", !.shown = ids]
<1>1. req[r] \in Request /\ ReqInv(req[r]) /\ DOMAIN req[r].staged = {} /\ ids \subseteq Rows
  BY HandlingHolds DEF IInv, RowsInv
<1>2. /\ q \in Request /\ q.at = "commit" /\ q.shown = ids
      /\ q.project = req[r].project /\ q.scope = req[r].scope /\ q.tool = req[r].tool
      /\ q.lit = req[r].lit /\ q.staged = req[r].staged /\ q.answers = req[r].answers
      /\ q.did = req[r].did /\ q.wrote = req[r].wrote
  BY <1>1 DEF Request
<1> HIDE DEF q
<1>3. ReqInv(q)
  BY <1>1, <1>2 DEF ReqInv
<1>4. req' = [req EXCEPT ![r] = q] /\ UNCHANGED <<rows, on>>
  BY <1>1 DEF Show, q, IInv
<1>5. \A o \in Requests : req'[o] = IF o = r THEN q ELSE req[o]
  BY <1>4 DEF IInv
<1>6. req' \in [Requests -> Request] /\ \A o \in Requests : ReqInv(req'[o])
  BY <1>2, <1>3, <1>4, <1>5 DEF IInv
<1>7. \A o \in Requests : /\ Flushed(o)' = Flushed(o) /\ Mine(o)' = Mine(o)
                          /\ req'[o].staged = req[o].staged /\ req'[o].tool = req[o].tool
  BY <1>2, <1>5 DEF Flushed, Mine
<1>8. ASSUME NEW o \in Requests PROVE Proper(o, Flushed(o))'
  BY <1>4, <1>7 DEF IInv, Proper, GoodRow, GoodDeletion
<1>9. ASSUME NEW o \in Requests, NEW u \in Requests, o # u PROVE Apart(o, u)'
  BY <1>7, <1>9 DEF IInv, Apart
<1>10. ShownInv'
  BY <1>2, <1>4, <1>5, <1>7 DEF IInv, ShownInv
<1> QED BY <1>4, <1>6, <1>8, <1>9, <1>10 DEF IInv, RowsInv

(* A tool that writes stages proper rows, apart from what others staged,   *)
(* under ids that no answer has named.                                     *)
LEMMA StageSafe ==
    ASSUME IInv, NEW r \in Requests, req[r].at = "handle", Writes(req[r].tool), NEW c,
           Stage(r, c), Proper(r, c),
           \A id \in DOMAIN c \ DOMAIN rows : \A o \in Requests : id \notin req[o].shown
    PROVE  IInv'
<1> DEFINE f == [id \in DOMAIN c |-> [row |-> c[id], by |-> Position(r)]]
           staged == Over(f, req[r].staged)
           did == IF DOMAIN c = {} THEN req[r].did ELSE req[r].did \cup {Position(r)}
           q == [req[r] EXCEPT !.at = "commit", !.staged = staged, !.did = did]
<1>1. req[r] \in Request /\ ReqInv(req[r]) /\ DOMAIN req[r].staged = {} /\ req[r].shown = {}
  BY HandlingHolds
<1>2. Position(r) = Len(req[r].answers) + 1 /\ Position(r) \in Nat
  BY <1>1 DEF Position, Request
<1>3. DOMAIN c \subseteq Rows /\ \A id \in DOMAIN c : c[id] \in Row \cup {None}
  BY DEF Proper, GoodRow
<1>4. /\ DOMAIN staged = DOMAIN c
      /\ \A id \in DOMAIN c : staged[id] = [row |-> c[id], by |-> Position(r)]
      /\ staged \in [DOMAIN c -> [row : Row \cup {None}, by : Nat]]
  BY <1>1, <1>2, <1>3 DEF Over
<1>5. staged \in UNION {[ids -> [row : Row \cup {None}, by : Nat]] : ids \in SUBSET Rows}
  BY <1>3, <1>4
<1>6. did \subseteq Nat /\ req[r].did \subseteq Nat
  BY <1>1, <1>2 DEF Request
<1>7. req' = [req EXCEPT ![r] = q] /\ UNCHANGED <<rows, on>>
  BY <1>1 DEF Stage, IInv
<1> HIDE DEF f, staged, did
<1>8. /\ q \in Request /\ q.at = "commit" /\ q.staged = staged /\ q.did = did
      /\ q.project = req[r].project /\ q.scope = req[r].scope /\ q.tool = req[r].tool
      /\ q.lit = req[r].lit /\ q.shown = {} /\ q.answers = req[r].answers
      /\ q.wrote = req[r].wrote
  BY <1>1, <1>5, <1>6 DEF Request
<1> HIDE DEF q
<1>9. ReqInv(q)
  <2>1. Position(r) \notin req[r].did
    BY <1>1, <1>2 DEF ReqInv
  <2>2. did = req[r].did \cup IF DOMAIN c = {} THEN {} ELSE {Position(r)}
    BY DEF did
  <2>3. DOMAIN q.staged = DOMAIN c /\ (Position(r) \in did <=> DOMAIN c # {})
    BY <1>4, <1>8, <2>1, <2>2
  <2>4. q.did \subseteq 1..(Len(q.answers) + 1) /\ q.wrote \subseteq q.did
    BY <1>1, <1>2, <1>8, <2>2 DEF ReqInv
  <2>5. \A p \in q.did : p <= Len(q.answers) => (q.answers[p] = "ok" <=> p \in q.wrote)
    BY <1>1, <1>2, <1>8, <2>2 DEF ReqInv
  <2>6. \A id \in DOMAIN q.staged : q.staged[id].by = Len(q.answers) + 1
    BY <1>2, <1>4, <1>8
  <2>7. /\ q.project \in Projects /\ q.lit /\ q.scope = "write"
        /\ Len(q.answers) + 1 \notin q.wrote
    BY <1>1, <1>8 DEF ReqInv
  <2> QED BY <1>2, <1>8, <2>3, <2>4, <2>5, <2>6, <2>7 DEF ReqInv
<1>10. \A o \in Requests : req'[o] = IF o = r THEN q ELSE req[o]
  BY <1>7 DEF IInv
<1>11. req' \in [Requests -> Request] /\ \A o \in Requests : ReqInv(req'[o])
  BY <1>7, <1>8, <1>9, <1>10 DEF IInv
<1>12. /\ \A o \in Requests \ {r} : Flushed(o)' = Flushed(o)
       /\ DOMAIN Flushed(r)' = DOMAIN c /\ \A id \in DOMAIN c : Flushed(r)'[id] = c[id]
  BY <1>4, <1>8, <1>10 DEF Flushed
<1>13. \A o \in Requests : Mine(o)' = Mine(o) /\ req'[o].tool = req[o].tool /\ req'[o].shown = req[o].shown
  BY <1>1, <1>8, <1>10 DEF Mine
<1>14. ASSUME NEW o \in Requests PROVE Proper(o, Flushed(o))'
  <2>1. CASE o # r
    BY <2>1, <1>7, <1>12, <1>13 DEF IInv, Proper, GoodRow, GoodDeletion
  <2>2. CASE o = r
    BY <2>2, <1>7, <1>12, <1>13 DEF Proper, GoodRow, GoodDeletion
  <2> QED BY <2>1, <2>2
<1>15. Deleted(Flushed(r)') = Deleted(c) /\ Referred(Flushed(r)') = Referred(c)
  BY <1>12 DEF Deleted, Referred
<1>16. ASSUME NEW o \in Requests, NEW u \in Requests, o # u PROVE Apart(o, u)'
  <2>1. CASE o # r /\ u # r
    BY <2>1, <1>12, <1>16 DEF IInv, Apart
  <2>2. CASE o = r
    BY <2>2, <1>12, <1>15, <1>16 DEF Apart, Stage
  <2>3. CASE u = r
    BY <2>3, <1>12, <1>15, <1>16 DEF Apart, Stage
  <2> QED BY <2>1, <2>2, <2>3
<1>17. ShownInv'
  BY <1>4, <1>7, <1>8, <1>10, <1>13 DEF IInv, ShownInv
<1> QED BY <1>7, <1>11, <1>14, <1>16, <1>17 DEF IInv, RowsInv

-----------------------------------------------------------------------------
(* The rows after a commit: those of the call, unless deleted, and the     *)
(* others as they were.                                                    *)
LEMMA CommitRows ==
    ASSUME IInv, NEW r \in Requests, Commit(r)
    PROVE  LET c == Flushed(r) IN
           /\ \A id : id \in DOMAIN rows' <=>
                 \/ id \in DOMAIN c /\ c[id] # None
                 \/ id \in DOMAIN rows /\ id \notin DOMAIN c
           /\ \A id \in DOMAIN rows' : rows'[id] = IF id \in DOMAIN c THEN c[id] ELSE rows[id]
<1> DEFINE c == Flushed(r)
           after == Over(c, rows)
<1>1. c = [id \in DOMAIN req[r].staged |-> req[r].staged[id].row]
  BY DEF Flushed
<1>2. rows' = [id \in {x \in DOMAIN after : after[x] # None} |-> after[id]]
  BY <1>1 DEF Commit, Applied
<1> HIDE DEF c
<1>3. /\ DOMAIN after = DOMAIN c \cup DOMAIN rows
      /\ \A id \in DOMAIN after : after[id] = IF id \in DOMAIN c THEN c[id] ELSE rows[id]
  BY DEF Over
<1>4. \A id \in DOMAIN rows : rows[id] # None
  BY DispatchAssumption DEF IInv, RowsInv
<1> HIDE DEF after
<1> QED BY <1>2, <1>3, <1>4 DEF c

LEMMA CommitKeepsRows ==
    ASSUME IInv, NEW r \in Requests, Commit(r)
    PROVE  RowsInv'
<1> DEFINE c == Flushed(r)
<1>1. /\ \A id : id \in DOMAIN rows' <=>
            \/ id \in DOMAIN c /\ c[id] # None
            \/ id \in DOMAIN rows /\ id \notin DOMAIN c
      /\ \A id \in DOMAIN rows' : rows'[id] = IF id \in DOMAIN c THEN c[id] ELSE rows[id]
  BY CommitRows
<1>2. Proper(r, c)
  BY DEF IInv
<1> HIDE DEF c
<1>3. DOMAIN rows' \subseteq Rows
  BY <1>1, <1>2 DEF IInv, RowsInv, Proper
<1>4. None \notin Projects
  BY DispatchAssumption
<1>5. ASSUME NEW id \in DOMAIN c, c[id] # None
      PROVE  /\ rows'[id] = c[id] /\ rows'[id] \in Row /\ rows'[id].home \in Projects
             /\ rows'[id].up # None =>
                  /\ rows'[id].up \in DOMAIN rows'
                  /\ MayRefer(id, rows'[id].up)
                  /\ rows'[rows'[id].up].home = rows'[id].home
  <2>1. GoodRow(r, c, id) /\ id \in DOMAIN rows' /\ rows'[id] = c[id]
    BY <1>1, <1>2, <1>5 DEF Proper
  <2>2. CASE c[id].up \in DOMAIN c
    BY <2>1, <2>2, <1>1 DEF GoodRow
  <2>3. CASE c[id].up \notin DOMAIN c
    BY <2>1, <2>3, <1>1 DEF GoodRow
  <2> QED BY <2>1, <2>2, <2>3
<1>6. ASSUME NEW id \in DOMAIN rows, id \notin DOMAIN c
      PROVE  /\ rows'[id] = rows[id]
             /\ rows'[id].up # None =>
                  /\ rows'[id].up \in DOMAIN rows'
                  /\ MayRefer(id, rows'[id].up)
                  /\ rows'[rows'[id].up].home = rows'[id].home
  <2>1. id \in DOMAIN rows' /\ rows'[id] = rows[id]
    BY <1>1, <1>6
  <2> SUFFICES ASSUME rows[id].up # None
               PROVE  /\ rows[id].up \in DOMAIN rows'
                      /\ MayRefer(id, rows[id].up)
                      /\ rows'[rows[id].up].home = rows[id].home
    BY <2>1
  <2> DEFINE up == rows[id].up
  <2>2. /\ up \in DOMAIN rows /\ MayRefer(id, up) /\ KindOf[up] # "issue"
        /\ rows[up].home = rows[id].home /\ rows[id].home # None
    BY DEF IInv, RowsInv, MayRefer
  <2>3. CASE up \notin DOMAIN c
    BY <2>2, <2>3, <1>1
  <2>4. CASE up \in DOMAIN c
    <3>1. c[up] # None
      BY <2>2, <2>4, <1>2, <1>6 DEF Proper, GoodDeletion
    <3>2. GoodRow(r, c, up)
      BY <3>1, <2>4, <1>2 DEF Proper
    <3>3. c[up].home = rows[up].home
      BY <3>2, <2>2 DEF GoodRow
    <3> QED BY <3>1, <3>3, <2>2, <2>4, <1>1
  <2> QED BY <2>2, <2>3, <2>4
<1> QED BY <1>1, <1>3, <1>4, <1>5, <1>6 DEF IInv, RowsInv

(* What the others staged stands although the rows changed. *)
LEMMA CommitKeepsOthers ==
    ASSUME IInv, NEW r \in Requests, Commit(r), NEW o \in Requests, o # r,
           Mine(o)' = Mine(o), req'[o].tool = req[o].tool, Flushed(o)' = Flushed(o)
    PROVE  Proper(o, Flushed(o))'
<1> DEFINE c == Flushed(r)
           d == Flushed(o)
<1>1. /\ \A id : id \in DOMAIN rows' <=>
            \/ id \in DOMAIN c /\ c[id] # None
            \/ id \in DOMAIN rows /\ id \notin DOMAIN c
      /\ \A id \in DOMAIN rows' : rows'[id] = IF id \in DOMAIN c THEN c[id] ELSE rows[id]
  BY CommitRows
<1>2. Proper(r, c) /\ Proper(o, d) /\ Apart(r, o) /\ Apart(o, r)
  BY DEF IInv
<1>3. DOMAIN c \cap DOMAIN d = {} /\ Deleted(c) \cap Referred(d) = {} /\ Deleted(d) \cap Referred(c) = {}
  BY <1>2 DEF Apart
<1>4. d' = d
  OBVIOUS
<1> HIDE DEF c, d
<1>5. ASSUME NEW id \in DOMAIN d
      PROVE  /\ id \in DOMAIN rows' <=> id \in DOMAIN rows
             /\ id \in DOMAIN rows => rows'[id] = rows[id]
  BY <1>1, <1>3
<1>6. ASSUME NEW id \in DOMAIN d, d[id] = None PROVE GoodDeletion(o, d, id)'
  <2>1. GoodDeletion(o, d, id)
    BY <1>2, <1>6 DEF Proper
  <2>2. ASSUME NEW x \in DOMAIN rows', rows'[x].up = id PROVE x \in DOMAIN d
    <3>1. CASE x \in DOMAIN c
      <4>1. c[x] # None /\ c[x].up = id /\ id # None
        BY <3>1, <2>2, <1>1, <1>2, DispatchAssumption DEF Proper
      <4>2. id \in Deleted(d) /\ id \in Referred(c)
        BY <4>1, <3>1, <1>6 DEF Deleted, Referred
      <4> QED BY <4>2, <1>3
    <3>2. CASE x \notin DOMAIN c
      BY <3>2, <2>1, <2>2, <1>1 DEF GoodDeletion
    <3> QED BY <3>1, <3>2
  <2> QED BY <2>1, <2>2, <1>4, <1>5 DEF GoodDeletion
<1>7. ASSUME NEW id \in DOMAIN d, d[id] # None PROVE GoodRow(o, d, id)'
  <2>1. GoodRow(o, d, id)
    BY <1>2, <1>7 DEF Proper
  <2>2. ASSUME d[id].up # None, d[id].up \notin DOMAIN d
        PROVE  d[id].up \in DOMAIN rows' /\ rows'[d[id].up].home = d[id].home
    <3> DEFINE up == d[id].up
    <3>1. up \in DOMAIN rows /\ rows[up].home = d[id].home /\ d[id].home # None
      BY <2>1, <2>2, DispatchAssumption DEF GoodRow
    <3>2. CASE up \notin DOMAIN c
      BY <3>1, <3>2, <1>1
    <3>3. CASE up \in DOMAIN c
      <4>1. c[up] # None
        BY <3>3, <2>2, <1>3, <1>7 DEF Deleted, Referred
      <4>2. GoodRow(r, c, up)
        BY <4>1, <3>3, <1>2 DEF Proper
      <4>3. c[up].home = rows[up].home
        BY <4>2, <3>1 DEF GoodRow
      <4> QED BY <4>1, <4>3, <3>1, <3>3, <1>1
    <3> QED BY <3>2, <3>3
  <2> QED BY <2>1, <2>2, <1>4, <1>5 DEF GoodRow
<1> QED BY <1>2, <1>4, <1>6, <1>7 DEF Proper, d

(* An answer is appended and the next message awaited. *)
LEMMA AnsweredFields ==
    ASSUME NEW q \in Request, NEW answer \in {"ok", "error", "none"}
    PROVE  LET a == Answered(q, answer) IN
           /\ a \in Request
           /\ a.at = "next" /\ a.tool = None /\ a.shown = {}
           /\ a.answers \in Seq({"ok", "error", "none"}) /\ Len(a.answers) = Len(q.answers) + 1
           /\ a.answers[Len(q.answers) + 1] = answer
           /\ \A p \in 1..Len(q.answers) : a.answers[p] = q.answers[p]
           /\ a.project = q.project /\ a.scope = q.scope /\ a.staged = q.staged
           /\ a.did = q.did /\ a.wrote = q.wrote /\ a.loaded = q.loaded
<1> DEFINE a == Answered(q, answer)
<1>1. q.answers \in Seq({"ok", "error", "none"})
  BY DEF Request
<1>2. /\ a.at = "next" /\ a.answers = Append(q.answers, answer) /\ a.tool = None /\ a.shown = {}
      /\ a.project = q.project /\ a.scope = q.scope /\ a.staged = q.staged
      /\ a.did = q.did /\ a.wrote = q.wrote /\ a.loaded = q.loaded
  BY DEF Answered, Request
<1>3. Append(q.answers, answer) \in Seq({"ok", "error", "none"})
  BY <1>1
<1>4. a \in Request
  BY <1>3 DEF Answered, Request
<1> HIDE DEF a
<1>5. /\ Len(a.answers) = Len(q.answers) + 1 /\ a.answers[Len(q.answers) + 1] = answer
      /\ \A p \in 1..Len(q.answers) : a.answers[p] = q.answers[p]
  BY <1>1, <1>2
<1> QED BY <1>2, <1>3, <1>4, <1>5 DEF a

(* The call that commits. *)
LEMMA KeptFields ==
    ASSUME NEW q, ReqInv(q), q.at = "commit"
    PROVE  LET k == Kept(q) IN
           /\ k \in Request /\ k.staged = Nothing
           /\ k.wrote = q.wrote \cup (IF DOMAIN q.staged = {} THEN {} ELSE {Len(q.answers) + 1})
           /\ k.project = q.project /\ k.scope = q.scope /\ k.answers = q.answers /\ k.did = q.did
<1> DEFINE k == Kept(q)
           by == {q.staged[id].by : id \in DOMAIN q.staged}
<1>1. q \in Request /\ Len(q.answers) \in Nat
  BY DEF ReqInv, Request
<1>2. by = IF DOMAIN q.staged = {} THEN {} ELSE {Len(q.answers) + 1}
  BY DEF ReqInv
<1>3. q.wrote \cup by \subseteq Nat
  BY <1>1, <1>2 DEF Request
<1> HIDE DEF by
<1>4. k = [q EXCEPT !.staged = Nothing, !.wrote = q.wrote \cup by]
  BY DEF Kept, by
<1>5. k \in Request
  BY <1>1, <1>3, <1>4, NothingStaged DEF Request
<1>6. /\ k.staged = Nothing /\ k.wrote = q.wrote \cup by
      /\ k.project = q.project /\ k.scope = q.scope /\ k.answers = q.answers /\ k.did = q.did
  BY <1>1, <1>4 DEF Request
<1> QED BY <1>2, <1>5, <1>6

(* A commit keeps everything: what is written is answered with success.    *)
LEMMA CommitSafe ==
    ASSUME IInv, NEW r \in Requests, Commit(r)
    PROVE  IInv'
<1> DEFINE k == Kept(req[r])
           q == Answered(k, "ok")
           n == Len(req[r].answers) + 1
<1>1. req[r] \in Request /\ ReqInv(req[r]) /\ req[r].at = "commit"
  BY DEF Commit, IInv
<1>2. /\ k \in Request /\ k.staged = Nothing
      /\ k.wrote = req[r].wrote \cup (IF DOMAIN req[r].staged = {} THEN {} ELSE {n})
      /\ k.project = req[r].project /\ k.scope = req[r].scope
      /\ k.answers = req[r].answers /\ k.did = req[r].did
  BY <1>1, KeptFields
<1>3. req' = [req EXCEPT ![r] = q] /\ on' = on
  BY DEF Commit
<1> HIDE DEF k
<1>4. /\ q \in Request /\ q.at = "next" /\ q.tool = None /\ q.shown = {}
      /\ Len(q.answers) = n /\ q.answers[n] = "ok"
      /\ \A p \in 1..Len(req[r].answers) : q.answers[p] = req[r].answers[p]
      /\ q.project = req[r].project /\ q.staged = Nothing
      /\ q.did = req[r].did /\ q.wrote = k.wrote
  BY <1>2, AnsweredFields
<1> HIDE DEF q
<1>5. n \in Nat \ {0} /\ q.did \subseteq 1..n /\ (n \in q.did <=> n \in q.wrote)
  BY <1>1, <1>2, <1>4 DEF ReqInv, Request
<1>6. ReqInv(q)
  <2>1. \A p \in q.did : p <= Len(q.answers) => (q.answers[p] = "ok" <=> p \in q.wrote)
    <3> SUFFICES ASSUME NEW p \in q.did PROVE q.answers[p] = "ok" <=> p \in q.wrote
      OBVIOUS
    <3>1. CASE p = n
      BY <3>1, <1>4, <1>5
    <3>2. CASE p # n
      <4>1. p \in 1..Len(req[r].answers) /\ p \in req[r].did
        BY <3>2, <1>1, <1>4, <1>5 DEF Request
      <4>2. q.answers[p] = req[r].answers[p] /\ (p \in q.wrote <=> p \in req[r].wrote)
        BY <3>2, <4>1, <1>2, <1>4
      <4> QED BY <4>1, <4>2, <1>1 DEF ReqInv, Request
    <3> QED BY <3>1, <3>2
  <2>2. q.wrote \subseteq q.did /\ Len(q.answers) + 1 \notin q.wrote /\ Len(q.answers) + 1 \notin q.did
    BY <1>1, <1>2, <1>4, <1>5 DEF ReqInv
  <2>3. q.did \subseteq 1..(Len(q.answers) + 1)
    BY <1>4, <1>5
  <2>4. q.project \in Projects
    BY <1>1, <1>4 DEF ReqInv
  <2> QED BY <1>4, <2>1, <2>2, <2>3, <2>4, NothingStaged DEF ReqInv
<1>7. \A o \in Requests : req'[o] = IF o = r THEN q ELSE req[o]
  BY <1>3 DEF IInv
<1>8. req' \in [Requests -> Request] /\ \A o \in Requests : ReqInv(req'[o])
  BY <1>3, <1>4, <1>6, <1>7 DEF IInv
<1>9. DOMAIN Flushed(r)' = {} /\ \A o \in Requests \ {r} : Flushed(o)' = Flushed(o)
  BY <1>4, <1>7, NothingStaged DEF Flushed
<1>10. \A o \in Requests : Mine(o)' = Mine(o) /\ (o # r => req'[o] = req[o])
  BY <1>4, <1>7 DEF Mine
<1>11. ASSUME NEW o \in Requests PROVE Proper(o, Flushed(o))'
  <2>1. CASE o = r
    BY <2>1, <1>9 DEF Proper
  <2>2. CASE o # r
    BY <2>2, <1>9, <1>10, CommitKeepsOthers
  <2> QED BY <2>1, <2>2
<1>12. Deleted(Flushed(r)') = {} /\ Referred(Flushed(r)') = {}
  BY <1>9 DEF Deleted, Referred
<1>13. ASSUME NEW o \in Requests, NEW u \in Requests, o # u PROVE Apart(o, u)'
  <2>1. CASE o # r /\ u # r
    BY <2>1, <1>9, <1>13 DEF IInv, Apart
  <2>2. CASE o = r \/ u = r
    BY <2>2, <1>9, <1>12, <1>13 DEF Apart
  <2> QED BY <2>1, <2>2
<1>14. ShownInv'
  <2> DEFINE c == Flushed(r)
  <2>1. /\ \A id : id \in DOMAIN rows' <=>
              \/ id \in DOMAIN c /\ c[id] # None
              \/ id \in DOMAIN rows /\ id \notin DOMAIN c
        /\ \A id \in DOMAIN rows' : rows'[id] = IF id \in DOMAIN c THEN c[id] ELSE rows[id]
    BY CommitRows
  <2>2. DOMAIN c = DOMAIN req[r].staged /\ Proper(r, c)
    BY DEF Flushed, IInv
  <2>3. \A o \in Requests : DOMAIN Flushed(o) = DOMAIN req[o].staged
    BY DEF Flushed
  <2>4. \A o \in Requests \ {r} : DOMAIN c \cap DOMAIN req[o].staged = {}
    BY <2>3 DEF IInv, Apart
  <2> HIDE DEF c
  <2> SUFFICES ASSUME NEW o \in Requests, NEW id \in req'[o].shown
               PROVE  /\ id \in DOMAIN rows' => rows'[id].home = Mine(o)
                      /\ id \notin DOMAIN rows' =>
                            /\ KindOf[id] # "issue"
                            /\ \A u \in Requests : id \notin DOMAIN req'[u].staged
    BY <1>10 DEF ShownInv
  <2>5. o # r /\ id \in req[o].shown /\ Mine(o) \in Projects /\ None \notin Projects
    BY <1>4, <1>7, DispatchAssumption DEF IInv, ReqInv, Mine
  <2>6. CASE id \notin DOMAIN rows
    <3>1. KindOf[id] # "issue" /\ \A u \in Requests : id \notin DOMAIN req[u].staged
      BY <2>5, <2>6 DEF IInv, ShownInv
    <3> QED BY <3>1, <2>1, <2>2, <2>6, <1>4, <1>7, NothingStaged
  <2>7. CASE id \in DOMAIN rows /\ id \notin DOMAIN c
    BY <2>1, <2>5, <2>7 DEF IInv, ShownInv
  <2>8. CASE id \in DOMAIN rows /\ id \in DOMAIN c /\ c[id] = None
    <3>1. KindOf[id] # "issue"
      BY <2>2, <2>8 DEF Proper, GoodDeletion
    <3>2. \A u \in Requests : id \notin DOMAIN req'[u].staged
      BY <2>4, <2>8, <1>4, <1>7, NothingStaged
    <3> QED BY <3>1, <3>2, <2>1, <2>8
  <2>9. CASE id \in DOMAIN rows /\ id \in DOMAIN c /\ c[id] # None
    <3>1. rows[id].home = Mine(o)
      BY <2>5, <2>9 DEF IInv, ShownInv
    <3>2. c[id].home = rows[id].home
      BY <3>1, <2>2, <2>5, <2>9 DEF Proper, GoodRow
    <3> QED BY <3>1, <3>2, <2>1, <2>9
  <2> QED BY <2>6, <2>7, <2>8, <2>9
<1> QED BY <1>3, <1>8, <1>11, <1>13, <1>14, CommitKeepsRows DEF IInv

-----------------------------------------------------------------------------
(* What the tools stage. *)
LEMMA OwnRows ==
    ASSUME IInv, NEW r \in Requests, req[r].at = "handle", NEW kind, NEW id \in Own(r, kind)
    PROVE  /\ id \in DOMAIN rows /\ id \in Rows /\ rows[id] \in Row /\ KindOf[id] = kind
           /\ rows[id].home = Mine(r) /\ Mine(r) \in Projects /\ Mine(r) # None
           /\ rows[id].up # None => /\ rows[id].up \in DOMAIN rows /\ MayRefer(id, rows[id].up)
                                    /\ rows[rows[id].up].home = Mine(r)
BY HandlingHolds, DispatchAssumption DEF Own, Table, IInv, RowsInv

LEMMA NothingProper ==
    ASSUME NEW r
    PROVE  Proper(r, Nothing) /\ DOMAIN Nothing \ DOMAIN rows = {}
BY NothingStaged DEF Proper

(* Rows of one's own, as they are. *)
LEMMA TouchProper ==
    ASSUME IInv, NEW r \in Requests, req[r].at = "handle", NEW ids,
           ids \subseteq {id \in DOMAIN rows : rows[id].home = Mine(r)}
    PROVE  Proper(r, Touch(ids)) /\ DOMAIN Touch(ids) \ DOMAIN rows = {}
<1> DEFINE c == Touch(ids)
<1>1. DOMAIN c = ids /\ \A id \in ids : c[id] = rows[id]
  BY DEF Touch
<1>2. Mine(r) \in Projects /\ Mine(r) # None /\ ids \subseteq Rows
  BY HandlingHolds, DispatchAssumption DEF IInv, RowsInv
<1> HIDE DEF c
<1>3. ASSUME NEW id \in ids PROVE c[id] # None /\ GoodRow(r, c, id)
  <2>1. c[id] = rows[id] /\ rows[id] \in Row /\ rows[id].home = Mine(r) /\ rows[id] # None
    BY <1>1, DispatchAssumption DEF IInv, RowsInv
  <2>2. rows[id].up # None => /\ rows[id].up \in DOMAIN rows /\ MayRefer(id, rows[id].up)
                              /\ rows[rows[id].up].home = Mine(r) /\ rows[rows[id].up] # None
    BY <2>1, DispatchAssumption DEF IInv, RowsInv
  <2> QED BY <1>1, <1>2, <2>1, <2>2 DEF GoodRow
<1>4. DOMAIN c \subseteq Rows /\ DOMAIN c \ DOMAIN rows = {}
  BY <1>1, <1>2
<1> QED BY <1>1, <1>3, <1>4 DEF Proper, c

(* A row of one's own that refers to another, and a new one that may. *)
LEMMA PointProper ==
    ASSUME IInv, NEW r \in Requests, req[r].at = "handle",
           NEW k1, NEW id \in Own(r, k1), NEW k2, NEW up \in Own(r, k2),
           <<k1, k2>> \in {<<"item", "thread">>, <<"pending", "task">>}
    PROVE  Proper(r, Point(id, up)) /\ DOMAIN Point(id, up) \ DOMAIN rows = {}
<1> DEFINE c == Point(id, up)
<1>1. DOMAIN c = {id} /\ c[id] = [rows[id] EXCEPT !.up = up]
  BY DEF Point, Only
<1>2. /\ id \in DOMAIN rows /\ id \in Rows /\ rows[id] \in Row /\ rows[id].home = Mine(r)
      /\ Mine(r) \in Projects /\ KindOf[id] = k1
  BY OwnRows
<1>3. /\ up \in DOMAIN rows /\ up \in Rows /\ rows[up].home = Mine(r) /\ KindOf[up] = k2 /\ up # id
  BY OwnRows, <1>2
<1> HIDE DEF c
<1>4. c[id] \in Row /\ c[id].home = Mine(r) /\ c[id].up = up
  BY <1>1, <1>2, <1>3 DEF Row
<1>5. MayRefer(id, up) /\ c[id] # None
  BY <1>2, <1>3, <1>4, DispatchAssumption DEF MayRefer
<1>6. GoodRow(r, c, id)
  BY <1>1, <1>2, <1>3, <1>4, <1>5 DEF GoodRow
<1> QED BY <1>1, <1>2, <1>5, <1>6 DEF Proper, c

LEMMA NewProper ==
    ASSUME IInv, NEW r \in Requests, req[r].at = "handle",
           NEW kind, NEW id \in Unused(kind), NEW up,
           up # None => \/ kind = "item" /\ up \in Own(r, "thread")
                        \/ kind = "pending" /\ up \in Own(r, "task")
    PROVE  /\ Proper(r, New(r, id, up)) /\ DOMAIN New(r, id, up) = {id}
           /\ \A o \in Requests : id \notin req[o].shown
<1> DEFINE c == New(r, id, up)
<1>1. DOMAIN c = {id} /\ c[id] = [home |-> Mine(r), up |-> up]
  BY DEF New, Only
<1>2. id \in Rows /\ id \notin DOMAIN rows /\ Mine(r) \in Projects
      /\ \A o \in Requests : id \notin req[o].shown
  BY HandlingHolds DEF Unused
<1>3. up # None => up \in DOMAIN rows /\ up \in Rows /\ rows[up].home = Mine(r) /\ MayRefer(id, up)
  BY OwnRows DEF Unused, MayRefer
<1> HIDE DEF c
<1>4. c[id] \in Row /\ c[id].home = Mine(r) /\ c[id].up = up
  BY <1>1, <1>2, <1>3 DEF Row
<1>5. c[id] # None /\ GoodRow(r, c, id)
  BY <1>1, <1>2, <1>3, <1>4, DispatchAssumption DEF GoodRow
<1> QED BY <1>1, <1>2, <1>5 DEF Proper, c

LEMMA PromoteProper ==
    ASSUME IInv, NEW r \in Requests, req[r].at = "handle",
           NEW s \in Own(r, "issue"), NEW id \in Unused("item")
    PROVE  LET c == Over(New(r, id, None), Point(s, id)) IN
           Proper(r, c) /\ \A x \in DOMAIN c \ DOMAIN rows : \A o \in Requests : x \notin req[o].shown
<1> DEFINE c == Over(New(r, id, None), Point(s, id))
<1>1. /\ s \in DOMAIN rows /\ s \in Rows /\ rows[s] \in Row /\ rows[s].home = Mine(r)
      /\ Mine(r) \in Projects
  BY OwnRows
<1>2. /\ id \in Rows /\ id \notin DOMAIN rows /\ KindOf[id] = "item"
      /\ \A o \in Requests : id \notin req[o].shown
  BY DEF Unused
<1>3. /\ DOMAIN c = {id, s} /\ c[id] = [home |-> Mine(r), up |-> None]
      /\ c[s] = [rows[s] EXCEPT !.up = id]
  BY <1>1, <1>2 DEF Over, New, Point, Only
<1> HIDE DEF c
<1>4. /\ c[id] \in Row /\ c[id].home = Mine(r) /\ c[id].up = None
      /\ c[s] \in Row /\ c[s].home = Mine(r) /\ c[s].up = id
  BY <1>1, <1>2, <1>3 DEF Row
<1>5. c[id] # None /\ c[s] # None /\ MayRefer(s, id)
  BY <1>2, <1>4, DispatchAssumption DEF MayRefer, Own, Table
<1>6. GoodRow(r, c, id) /\ GoodRow(r, c, s)
  BY <1>1, <1>2, <1>3, <1>4, <1>5 DEF GoodRow
<1> QED BY <1>1, <1>2, <1>3, <1>5, <1>6 DEF Proper, c

(* An incident that Sentry returned, new, without a project, or another's. *)
LEMMA IngestedProper ==
    ASSUME IInv, NEW r \in Requests, req[r].at = "handle", req[r].tool = "backfill",
           NEW s \in Rows, KindOf[s] = "issue"
    PROVE  LET c == Ingested(r, s) IN
           Proper(r, c) /\ \A x \in DOMAIN c \ DOMAIN rows : \A o \in Requests : x \notin req[o].shown
<1> DEFINE c == Ingested(r, s)
<1>1. Mine(r) \in Projects /\ None \notin Projects /\ None \notin Row
  BY HandlingHolds, DispatchAssumption
<1>2. CASE s \notin DOMAIN rows
  <2>1. DOMAIN c = {s} /\ c[s] = [home |-> Mine(r), up |-> None]
    BY <1>2 DEF Ingested, New, Only
  <2>2. \A o \in Requests : s \notin req[o].shown
    BY <1>2 DEF IInv, ShownInv
  <2> HIDE DEF c
  <2>3. c[s] \in Row /\ c[s] # None /\ GoodRow(r, c, s)
    BY <1>1, <1>2, <2>1 DEF GoodRow, Row
  <2> QED BY <2>1, <2>2, <2>3 DEF Proper, c
<1>3. CASE s \in DOMAIN rows
  <2>1. rows[s] \in Row
    BY <1>3 DEF IInv, RowsInv
  <2>2. /\ DOMAIN c = {s}
        /\ c[s] = [rows[s] EXCEPT !.home = IF rows[s].home = None THEN Mine(r) ELSE rows[s].home]
    BY <1>3, <2>1 DEF Ingested, Only, Row
  <2> HIDE DEF c
  <2>3. /\ c[s] \in Row /\ c[s] # None /\ c[s].up = rows[s].up
        /\ c[s].home = IF rows[s].home = None THEN Mine(r) ELSE rows[s].home
    BY <1>1, <2>1, <2>2 DEF Row
  <2>4. c[s].home \in Projects
    BY <1>1, <2>1, <2>3 DEF Row
  <2>5. rows[s].home # None => c[s] = rows[s]
    BY <2>1, <2>2 DEF Row
  <2>6. rows[s].up # None => /\ rows[s].up \in DOMAIN rows /\ MayRefer(s, rows[s].up)
                             /\ rows[rows[s].up].home = rows[s].home /\ rows[s].home # None
    BY <1>3 DEF IInv, RowsInv
  <2>7. GoodRow(r, c, s)
    BY <1>3, <2>2, <2>3, <2>4, <2>5, <2>6 DEF GoodRow
  <2> QED BY <1>3, <2>2, <2>3, <2>7 DEF Proper, c
<1> QED BY <1>2, <1>3

(* A pending goes alone, which nothing refers to. *)
LEMMA PendingProper ==
    ASSUME IInv, NEW r \in Requests, req[r].at = "handle", NEW p \in Own(r, "pending")
    PROVE  Proper(r, Only(p, None)) /\ DOMAIN Only(p, None) \ DOMAIN rows = {}
<1>1. DOMAIN Only(p, None) = {p} /\ Only(p, None)[p] = None
  BY DEF Only
<1>2. p \in DOMAIN rows /\ p \in Rows /\ rows[p].home = Mine(r) /\ KindOf[p] = "pending"
  BY OwnRows
<1>3. \A x \in DOMAIN rows : rows[x].up # p
  BY <1>2, DispatchAssumption DEF IInv, RowsInv, MayRefer
<1> QED BY <1>1, <1>2, <1>3 DEF Proper, GoodDeletion

(* A task goes with every reference to it, which only pendings have. *)
LEMMA TaskProper ==
    ASSUME IInv, NEW r \in Requests, req[r].at = "handle", NEW k \in Own(r, "task")
    PROVE  LET c == Over(Only(k, None), [p \in {q \in Table("pending") : rows[q].up = k} |->
                                            [rows[p] EXCEPT !.up = None]])
           IN Proper(r, c) /\ DOMAIN c \ DOMAIN rows = {}
<1> DEFINE P == {q \in Table("pending") : rows[q].up = k}
           c == Over(Only(k, None), [p \in P |-> [rows[p] EXCEPT !.up = None]])
<1>1. k \in DOMAIN rows /\ k \in Rows /\ rows[k].home = Mine(r) /\ KindOf[k] = "task" /\ Mine(r) \in Projects
  BY OwnRows
<1>2. k # None
  BY <1>1, DispatchAssumption
<1>3. k \notin P /\ P = {x \in DOMAIN rows : rows[x].up = k}
  BY <1>1, <1>2 DEF IInv, RowsInv, MayRefer, Table
<1> HIDE DEF P
<1>4. /\ DOMAIN c = {k} \cup P /\ c[k] = None
      /\ \A p \in P : c[p] = [rows[p] EXCEPT !.up = None]
  BY <1>3 DEF Over, Only
<1> HIDE DEF c
<1>5. ASSUME NEW p \in P PROVE c[p] # None /\ GoodRow(r, c, p) /\ p \in DOMAIN rows
  <2>1. p \in DOMAIN rows /\ rows[p] \in Row /\ rows[p].up = k /\ rows[p].home = Mine(r)
    BY <1>1, <1>2, <1>3 DEF IInv, RowsInv
  <2>2. c[p] \in Row /\ c[p].up = None /\ c[p].home = Mine(r)
    BY <1>4, <2>1 DEF Row
  <2> QED BY <1>1, <2>1, <2>2, DispatchAssumption DEF GoodRow
<1>6. GoodDeletion(r, c, k)
  BY <1>1, <1>3, <1>4 DEF GoodDeletion
<1>7. DOMAIN c \subseteq Rows
  BY <1>1, <1>4, <1>5 DEF IInv, RowsInv
<1> QED BY <1>1, <1>4, <1>5, <1>6, <1>7 DEF Proper, c, P

-----------------------------------------------------------------------------
LEMMA ReadSafe ==
    ASSUME IInv, NEW r \in Requests, Read(r)
    PROVE  IInv'
<1> DEFINE here == {id \in DOMAIN rows : rows[id].home = Mine(r)}
<1>1. req[r].at = "handle"
  BY DEF Read, Calling, Context, ListItems, ViewItems, GetItem, ListThreads, GetThread,
         ListIncidents, GetIncident, ShowDocuments, ListPendings, ShowPlan
<1>2. \A kind : Own(r, kind) \subseteq here
  BY DEF Own, Table
<1>3. \A t \in Own(r, "thread") : {t} \cup Linked(t) \subseteq here
  BY DispatchAssumption DEF Own, Table, Linked, IInv, RowsInv
<1> SUFFICES \E ids \in SUBSET here : Show(r, ids)
  BY <1>1, ShowSafe
<1>4. CASE Context(r)
  BY <1>2, <1>4 DEF Context
<1>5. CASE GetThread(r)
  BY <1>3, <1>5 DEF GetThread
<1>6. CASE ListItems(r) \/ ViewItems(r) \/ GetItem(r)
  BY <1>2, <1>6 DEF ListItems, ViewItems, GetItem
<1>7. CASE ListThreads(r) \/ ListIncidents(r) \/ GetIncident(r)
  BY <1>2, <1>7 DEF ListThreads, ListIncidents, GetIncident
<1>8. CASE ShowDocuments(r) \/ ListPendings(r) \/ ShowPlan(r)
  BY <1>2, <1>8 DEF ShowDocuments, ListPendings, ShowPlan
<1> QED BY <1>4, <1>5, <1>6, <1>7, <1>8 DEF Read

LEMMA WritingTools ==
    /\ \A t \in {"create", "move", "link", "edit", "unlink"} : Writes(t)
    /\ \A t \in {"thread_create", "thread_advance", "thread_link", "thread_write"} : Writes(t)
    /\ \A t \in {"resolve", "promote", "ignore", "backfill"} : Writes(t)
    /\ \A t \in {"doc_write", "pending_upsert", "pending_complete", "pending_delete"} : Writes(t)
    /\ Writes("task_upsert") /\ Writes("task_remove")
BY DEF Writes, ToolsOf, CoreTools, ThreadTools, IncidentTools, ManagementTools

(* The ways a tool that writes changes rows. *)
LEMMA TouchSafe ==
    ASSUME IInv, NEW r \in Requests, req[r].at = "handle", Writes(req[r].tool), NEW ids,
           ids \subseteq {id \in DOMAIN rows : rows[id].home = Mine(r)}, Stage(r, Touch(ids))
    PROVE  IInv'
<1>1. Proper(r, Touch(ids)) /\ DOMAIN Touch(ids) \ DOMAIN rows = {}
  BY TouchProper
<1> QED BY <1>1, StageSafe

LEMMA NewSafe ==
    ASSUME IInv, NEW r \in Requests, req[r].at = "handle", Writes(req[r].tool),
           NEW kind, NEW id \in Unused(kind), NEW up,
           up # None => \/ kind = "item" /\ up \in Own(r, "thread")
                        \/ kind = "pending" /\ up \in Own(r, "task"),
           Stage(r, New(r, id, up))
    PROVE  IInv'
<1>1. /\ Proper(r, New(r, id, up)) /\ DOMAIN New(r, id, up) = {id}
      /\ \A o \in Requests : id \notin req[o].shown
  BY NewProper
<1> QED BY <1>1, StageSafe

LEMMA PointSafe ==
    ASSUME IInv, NEW r \in Requests, req[r].at = "handle", Writes(req[r].tool),
           NEW k1, NEW id \in Own(r, k1), NEW k2, NEW up \in Own(r, k2),
           <<k1, k2>> \in {<<"item", "thread">>, <<"pending", "task">>},
           Stage(r, Point(id, up))
    PROVE  IInv'
<1>1. Proper(r, Point(id, up)) /\ DOMAIN Point(id, up) \ DOMAIN rows = {}
  BY PointProper
<1> QED BY <1>1, StageSafe

LEMMA NoChangeSafe ==
    ASSUME IInv, NEW r \in Requests, req[r].at = "handle", Writes(req[r].tool),
           Stage(r, Nothing)
    PROVE  IInv'
<1>1. Proper(r, Nothing) /\ DOMAIN Nothing \ DOMAIN rows = {}
  BY NothingProper
<1> QED BY <1>1, StageSafe

LEMMA WriteSafe ==
    ASSUME IInv, NEW r \in Requests, Write(r)
    PROVE  IInv'
<1> DEFINE here == {id \in DOMAIN rows : rows[id].home = Mine(r)}
<1>1. req[r].at = "handle" /\ Writes(req[r].tool)
  BY WritingTools DEF Write, Calling, CreateItem, MoveItem, LinkItems, EditItem, UnlinkItems,
     CreateThread, AdvanceThread, LinkThread, WriteThread, ResolveIncident, PromoteIncident,
     IgnoreIncident, BackfillIncidents, WriteDocument, UpsertPending, CompletePending,
     DeletePending, UpsertTask, RemoveTask
<1>2. \A kind : Own(r, kind) \subseteq here
  BY DEF Own, Table
<1>3. \A kind : \A id \in Own(r, kind) : {id} \subseteq here
  BY <1>2
<1>4. \A s \in Own(r, "issue") : rows[s].up # None => {s, rows[s].up} \subseteq here
  BY <1>1, OwnRows
<1>5. CASE CreateItem(r)
  <2>1. CASE \E id \in Unused("item"), t \in Own(r, "thread") \cup {None} : Stage(r, New(r, id, t))
    BY <2>1, <1>1, NewSafe
  <2>2. CASE \E id \in Own(r, "item") : Show(r, {id})
    BY <2>2, <1>1, <1>3, ShowSafe
  <2> QED BY <2>1, <2>2, <1>5 DEF CreateItem
<1>6. CASE MoveItem(r) \/ EditItem(r) \/ LinkItems(r)
  BY <1>6, <1>1, <1>3, TouchSafe DEF MoveItem, EditItem, LinkItems
<1>7. CASE UnlinkItems(r)
  BY <1>7, <1>1, <1>3, TouchSafe, NoChangeSafe DEF UnlinkItems
<1>8. CASE CreateThread(r)
  BY <1>8, <1>1, NewSafe DEF CreateThread
<1>9. CASE AdvanceThread(r) \/ WriteThread(r)
  BY <1>9, <1>1, <1>3, TouchSafe DEF AdvanceThread, WriteThread
<1>10. CASE LinkThread(r)
  <2>1. PICK t \in Own(r, "thread"), id \in Own(r, "item") : Stage(r, Point(id, t))
    BY <1>10 DEF LinkThread, LinkTargets
  <2> QED BY <2>1, <1>1, PointSafe
<1>11. CASE ResolveIncident(r)
  BY <1>11, <1>1, <1>3, <1>4, TouchSafe DEF ResolveIncident
<1>12. CASE PromoteIncident(r)
  <2>1. PICK s \in Own(r, "issue") :
          \/ rows[s].up # None /\ Show(r, {s, rows[s].up})
          \/ /\ rows[s].up = None
             /\ \E id \in Unused("item") : Stage(r, Over(New(r, id, None), Point(s, id)))
    BY <1>12 DEF PromoteIncident
  <2>2. CASE rows[s].up # None /\ Show(r, {s, rows[s].up})
    BY <2>2, <1>1, <1>4, ShowSafe
  <2>3. CASE \E id \in Unused("item") : Stage(r, Over(New(r, id, None), Point(s, id)))
    <3>1. PICK id \in Unused("item") : Stage(r, Over(New(r, id, None), Point(s, id)))
      BY <2>3
    <3> DEFINE c == Over(New(r, id, None), Point(s, id))
    <3>2. Proper(r, c) /\ \A x \in DOMAIN c \ DOMAIN rows : \A o \in Requests : x \notin req[o].shown
      BY <1>1, PromoteProper
    <3> HIDE DEF c
    <3>3. Stage(r, c)
      BY <3>1 DEF c
    <3> QED BY <3>2, <3>3, <1>1, StageSafe
  <2> QED BY <2>1, <2>2, <2>3
<1>13. CASE IgnoreIncident(r)
  BY <1>13, <1>1, <1>3, TouchSafe, NoChangeSafe DEF IgnoreIncident
<1>14. CASE BackfillIncidents(r)
  <2>1. PICK s \in {id \in Rows : KindOf[id] = "issue"} : Stage(r, Ingested(r, s)) \/ Stage(r, Nothing)
    BY <1>14 DEF BackfillIncidents
  <2>2. req[r].tool = "backfill"
    BY <1>14 DEF BackfillIncidents, Calling
  <2>3. /\ Proper(r, Ingested(r, s))
        /\ \A x \in DOMAIN Ingested(r, s) \ DOMAIN rows : \A o \in Requests : x \notin req[o].shown
    BY <1>1, <2>2, IngestedProper
  <2> QED BY <2>1, <2>3, <1>1, StageSafe, NoChangeSafe
<1>15. CASE WriteDocument(r)
  <2>1. CASE \E d \in Unused("document") : Stage(r, New(r, d, None))
    BY <2>1, <1>1, NewSafe
  <2>2. CASE \E d \in Own(r, "document") : Stage(r, Touch({d})) \/ Show(r, {d})
    BY <2>2, <1>1, <1>3, TouchSafe, ShowSafe
  <2> QED BY <2>1, <2>2, <1>15 DEF WriteDocument
<1>16. CASE UpsertPending(r)
  <2>1. CASE \E p \in Unused("pending"), k \in Own(r, "task") \cup {None} : Stage(r, New(r, p, k))
    BY <2>1, <1>1, NewSafe
  <2>2. CASE \E p \in Own(r, "pending") :
               Stage(r, Touch({p})) \/ \E k \in Own(r, "task") : Stage(r, Point(p, k))
    BY <2>2, <1>1, <1>3, TouchSafe, PointSafe
  <2> QED BY <2>1, <2>2, <1>16 DEF UpsertPending
<1>17. CASE CompletePending(r)
  BY <1>17, <1>1, <1>3, TouchSafe DEF CompletePending
<1>18. CASE DeletePending(r)
  <2>1. ASSUME NEW p \in Own(r, "pending"), Stage(r, Only(p, None)) PROVE IInv'
    <3>1. Proper(r, Only(p, None)) /\ DOMAIN Only(p, None) \ DOMAIN rows = {}
      BY <1>1, PendingProper
    <3> QED BY <3>1, <2>1, <1>1, StageSafe
  <2> QED BY <2>1, <1>1, <1>18, NoChangeSafe DEF DeletePending
<1>19. CASE UpsertTask(r)
  BY <1>19, <1>1, <1>3, NewSafe, TouchSafe DEF UpsertTask
<1>20. CASE RemoveTask(r)
  <2>1. PICK k \in Own(r, "task") :
          Stage(r, Over(Only(k, None), [p \in {q \in Table("pending") : rows[q].up = k} |->
                                           [rows[p] EXCEPT !.up = None]]))
    BY <1>20 DEF RemoveTask
  <2> DEFINE c == Over(Only(k, None), [p \in {q \in Table("pending") : rows[q].up = k} |->
                                           [rows[p] EXCEPT !.up = None]])
  <2>2. Proper(r, c) /\ DOMAIN c \ DOMAIN rows = {}
    BY <1>1, TaskProper
  <2>3. Stage(r, c)
    BY <2>1
  <2> HIDE DEF c
  <2> QED BY <2>2, <2>3, <1>1, StageSafe
<1> QED BY <1>5, <1>6, <1>7, <1>8, <1>9, <1>10, <1>11, <1>12, <1>13, <1>14, <1>15, <1>16, <1>17,
           <1>18, <1>19, <1>20 DEF Write

-----------------------------------------------------------------------------
(* An answer with nothing staged; with success, only if nothing was. *)
LEMMA AnsweredHolds ==
    ASSUME NEW q \in Request, q.project \in Projects, DOMAIN q.staged = {},
           NEW answer \in {"ok", "error", "none"},
           q.did \subseteq 1..(Len(q.answers) + 1), q.wrote \subseteq q.did,
           \A p \in q.did : p <= Len(q.answers) => (q.answers[p] = "ok" <=> p \in q.wrote),
           Len(q.answers) + 1 \notin q.wrote,
           answer = "ok" => Len(q.answers) + 1 \notin q.did
    PROVE  ReqInv(Answered(q, answer))
<1> DEFINE a == Answered(q, answer)
           n == Len(q.answers) + 1
<1>1. /\ a \in Request
      /\ a.at = "next" /\ a.shown = {} /\ Len(a.answers) = n /\ a.answers[n] = answer
      /\ \A p \in 1..Len(q.answers) : a.answers[p] = q.answers[p]
      /\ a.project = q.project /\ a.staged = q.staged /\ a.did = q.did /\ a.wrote = q.wrote
  BY AnsweredFields
<1> HIDE DEF a
<1>2. n \in Nat \ {0}
  BY DEF Request
<1>3. ASSUME NEW p \in a.did PROVE a.answers[p] = "ok" <=> p \in a.wrote
  <2>1. CASE p = n
    BY <2>1, <1>1, <1>2, <1>3
  <2>2. CASE p # n
    <3>1. p \in 1..Len(q.answers) /\ p \in q.did /\ p <= Len(q.answers)
      BY <2>2, <1>1, <1>2, <1>3
    <3> QED BY <3>1, <1>1
  <2> QED BY <2>1, <2>2
<1>4. a.did \subseteq 1..(Len(a.answers) + 1) /\ Len(a.answers) + 1 \notin a.did
  BY <1>1, <1>2
<1>5. a.wrote \subseteq a.did /\ Len(a.answers) + 1 \notin a.wrote
  BY <1>1, <1>4
<1>6. ReqInv(a)
  BY <1>1, <1>3, <1>4, <1>5 DEF ReqInv
<1> QED BY <1>6 DEF a

LEMMA NextHolds ==
    ASSUME IInv, NEW r \in Requests, req[r].at = "next", NEW answer \in {"ok", "error", "none"},
           req' = [req EXCEPT ![r] = Answered(@, answer)], UNCHANGED <<rows, on>>
    PROVE  IInv'
<1> DEFINE a == Answered(req[r], answer)
<1>1. req[r] \in Request /\ ReqInv(req[r]) /\ DOMAIN req[r].staged = {}
  BY DEF IInv, ReqInv
<1>2. ReqInv(a)
  <2> DEFINE q == req[r]
             n == Len(q.answers) + 1
  <2>1. q.project \in Projects /\ q.did \subseteq 1..n /\ q.wrote \subseteq q.did
    BY <1>1 DEF ReqInv
  <2>2. \A p \in q.did : p <= Len(q.answers) => (q.answers[p] = "ok" <=> p \in q.wrote)
    BY <1>1 DEF ReqInv
  <2>3. n \notin q.wrote /\ n \notin q.did
    BY <1>1 DEF ReqInv
  <2> HIDE DEF q
  <2>4. q \in Request /\ DOMAIN q.staged = {}
    BY <1>1 DEF q
  <2>5. ReqInv(Answered(q, answer))
    BY <2>1, <2>2, <2>3, <2>4, AnsweredHolds
  <2> QED BY <2>5 DEF q
<1>3. a.shown = {} /\ DOMAIN a.staged = {}
  BY <1>1, AnsweredFields
<1>4. req' = [req EXCEPT ![r] = a]
  OBVIOUS
<1> HIDE DEF a
<1> QED BY <1>2, <1>3, <1>4, LetGo

(* A request that goes on to a stage in which it holds nothing. *)
LEMMA GoOn ==
    ASSUME IInv, NEW r \in Requests, req[r].at \in {"idle", "next"}, NEW q \in Request,
           req' = [req EXCEPT ![r] = q], UNCHANGED <<rows, on>>,
           q.staged = req[r].staged, q.shown = req[r].shown, q.answers = req[r].answers,
           q.did = req[r].did, q.wrote = req[r].wrote,
           q.project \in Projects, q.at \in {"next", "handle", "done", "dead"},
           q.at = "handle" => q.lit /\ (Writes(q.tool) => q.scope = "write")
    PROVE  IInv'
<1>1. ReqInv(req[r]) /\ DOMAIN req[r].staged = {} /\ req[r].shown = {} /\ req[r].at # "killed"
  BY DEF IInv, ReqInv
<1>2. ReqInv(q)
  BY <1>1 DEF ReqInv
<1> QED BY <1>1, <1>2, LetGo

LEMMA RefuseSafe ==
    ASSUME IInv, NEW r \in Requests, Refuse(r)
    PROVE  IInv'
<1> DEFINE b == RolledBack(req[r])
           a == Answered(b, "error")
<1>1. req[r] \in Request /\ ReqInv(req[r]) /\ req[r].project \in Projects
  BY DEF IInv, ReqInv, Refuse
<1>2. /\ b \in Request /\ b.staged = Nothing /\ b.project = req[r].project
      /\ b.answers = req[r].answers /\ b.did = req[r].did /\ b.wrote = req[r].wrote
  BY <1>1, NothingStaged DEF RolledBack, Request
<1>3. req' = [req EXCEPT ![r] = a] /\ UNCHANGED <<rows, on>>
  BY DEF Refuse
<1> HIDE DEF b
<1>4. ReqInv(a)
  BY <1>1, <1>2, NothingStaged, AnsweredHolds DEF ReqInv
<1>5. a.shown = {} /\ DOMAIN a.staged = {}
  BY <1>2, NothingStaged, AnsweredFields
<1> HIDE DEF a
<1> QED BY <1>3, <1>4, <1>5, LetGo

LEMMA KillSafe ==
    ASSUME IInv, NEW r \in Requests, Kill(r)
    PROVE  IInv'
<1> DEFINE q == [RolledBack(req[r]) EXCEPT !.at = "killed", !.tool = None, !.shown = {}]
<1>1. req[r] \in Request /\ ReqInv(req[r]) /\ req[r].project \in Projects
  BY DEF IInv, ReqInv, Kill
<1>2. /\ q \in Request /\ q.at = "killed" /\ q.staged = Nothing /\ q.shown = {}
      /\ q.project = req[r].project
      /\ q.answers = req[r].answers /\ q.did = req[r].did /\ q.wrote = req[r].wrote
  BY <1>1, NothingStaged DEF RolledBack, Request
<1>3. req' = [req EXCEPT ![r] = q] /\ UNCHANGED <<rows, on>>
  BY DEF Kill
<1> HIDE DEF q
<1>4. ReqInv(q)
  BY <1>1, <1>2, NothingStaged DEF ReqInv
<1> QED BY <1>2, <1>3, <1>4, NothingStaged, LetGo

(* Steps between messages and at the ends of a request. *)
LEMMA WaySafe ==
    ASSUME IInv, NEW r \in Requests,
           \/ Open(r) \/ Notification(r) \/ TokenExpired(r) \/ Describe(r) \/ GetPrompt(r)
           \/ \E t \in Tools : Gate(r, t)
           \/ \E m \in DOMAIN Resources : \E u \in Resources[m] \ {"decision"} : ReadResource(r, u)
           \/ Close(r)
    PROVE  IInv'
<1>1. req[r] \in Request /\ req \in [Requests -> Request] /\ (req[r].at = "next" => req[r].project \in Projects)
  BY DEF IInv, ReqInv
<1>2. CASE Open(r)
  <2>1. PICK p \in TokensOf[r], s \in {"read", "write"} :
          req' = [req EXCEPT ![r].at = "next", ![r].project = p, ![r].scope = s, ![r].loaded = TRUE]
    BY <1>2 DEF Open
  <2> DEFINE q == [req[r] EXCEPT !.at = "next", !.project = p, !.scope = s, !.loaded = TRUE]
  <2>2. p \in Projects
    BY DispatchAssumption
  <2>3. /\ q \in Request /\ q.at = "next" /\ q.project = p
        /\ q.staged = req[r].staged /\ q.shown = req[r].shown /\ q.answers = req[r].answers
        /\ q.did = req[r].did /\ q.wrote = req[r].wrote
    BY <1>1, <2>2 DEF Request
  <2>4. req' = [req EXCEPT ![r] = q] /\ UNCHANGED <<rows, on>> /\ req[r].at = "idle"
    BY <1>1, <1>2, <2>1 DEF Open
  <2> HIDE DEF q
  <2> QED BY <2>2, <2>3, <2>4, GoOn
<1>3. CASE Notification(r) \/ Describe(r)
  BY <1>3, NextHolds DEF Notification, Describe, HasMore
<1>4. CASE TokenExpired(r)
  <2> DEFINE q == [req[r] EXCEPT !.at = "dead"]
  <2>1. /\ q \in Request /\ q.at = "dead" /\ q.project = req[r].project
        /\ q.staged = req[r].staged /\ q.shown = req[r].shown /\ q.answers = req[r].answers
        /\ q.did = req[r].did /\ q.wrote = req[r].wrote
    BY <1>1 DEF Request
  <2>2. req' = [req EXCEPT ![r] = q] /\ UNCHANGED <<rows, on>> /\ req[r].at = "next"
    BY <1>1, <1>4 DEF TokenExpired, HasMore
  <2> HIDE DEF q
  <2> QED BY <1>1, <2>1, <2>2, GoOn
<1>5. CASE GetPrompt(r) \/ \E u : ReadResource(r, u)
  <2>1. PICK u : ReadResource(r, u)
    BY <1>5 DEF GetPrompt
  <2> DEFINE answer == IF Enabled(Mine(r), Module(u)) THEN "ok" ELSE "error"
  <2>2. req' = [req EXCEPT ![r] = Answered(@, answer)] /\ answer \in {"ok", "error"}
        /\ UNCHANGED <<rows, on>> /\ req[r].at = "next"
    BY <2>1 DEF ReadResource, HasMore
  <2> HIDE DEF answer
  <2> QED BY <2>2, NextHolds
<1>6. ASSUME NEW t \in Tools, Gate(r, t) PROVE IInv'
  <2>1. req[r].at = "next" /\ UNCHANGED <<rows, on>>
    BY <1>6 DEF Gate, HasMore
  <2>2. CASE ModuleAdmits(r, t) /\ ScopeAdmits(r, t)
    <3> DEFINE lit == Enabled(Mine(r), Module(t))
               q == [req[r] EXCEPT !.at = "handle", !.tool = t, !.lit = lit]
    <3>1. lit = TRUE /\ (Writes(t) => req[r].scope = "write")
      BY <2>2 DEF ModuleAdmits, ScopeAdmits, Enabled
    <3>2. req' = [req EXCEPT ![r] = q]
      BY <1>1, <1>6, <2>2 DEF Gate
    <3> HIDE DEF lit
    <3>3. /\ q \in Request /\ q.at = "handle" /\ q.project = req[r].project
          /\ q.lit /\ q.tool = t /\ q.scope = req[r].scope
          /\ q.staged = req[r].staged /\ q.shown = req[r].shown /\ q.answers = req[r].answers
          /\ q.did = req[r].did /\ q.wrote = req[r].wrote
      BY <1>1, <3>1 DEF Request
    <3> HIDE DEF q
    <3> QED BY <1>1, <2>1, <3>1, <3>2, <3>3, GoOn
  <2>3. CASE ~(ModuleAdmits(r, t) /\ ScopeAdmits(r, t))
    BY <1>6, <2>1, <2>3, NextHolds DEF Gate
  <2> QED BY <2>2, <2>3
<1>7. CASE Close(r)
  <2> DEFINE q == [req[r] EXCEPT !.at = "done"]
  <2>1. /\ q \in Request /\ q.at = "done" /\ q.project = req[r].project
        /\ q.staged = req[r].staged /\ q.shown = req[r].shown /\ q.answers = req[r].answers
        /\ q.did = req[r].did /\ q.wrote = req[r].wrote
    BY <1>1 DEF Request
  <2>2. req' = [req EXCEPT ![r] = q] /\ UNCHANGED <<rows, on>> /\ req[r].at = "next"
    BY <1>1, <1>7 DEF Close
  <2> HIDE DEF q
  <2> QED BY <1>1, <2>1, <2>2, GoOn
<1> QED BY <1>2, <1>3, <1>4, <1>5, <1>6, <1>7

(* The rows, the messages and the requests are untouched. *)
LEMMA ToggleSafe ==
    ASSUME IInv, NEW s \in Switches, Toggle(s[1], s[2])
    PROVE  IInv'
<1>1. rows' = rows /\ req' = req
  BY DEF Toggle
<1>2. s[1] \in Projects /\ s[2] \in Optional
  BY DispatchAssumption
<1>3. on' \in [Projects -> SUBSET Optional]
  BY <1>2 DEF Toggle, IInv
<1>4. \A r \in Requests : Flushed(r)' = Flushed(r) /\ Mine(r)' = Mine(r)
  BY <1>1 DEF Flushed, Mine
<1>5. ASSUME NEW r \in Requests PROVE Proper(r, Flushed(r))'
  BY <1>1, <1>4 DEF IInv, Proper, GoodRow, GoodDeletion
<1>6. ASSUME NEW r \in Requests, NEW o \in Requests, r # o PROVE Apart(r, o)'
  BY <1>4, <1>6 DEF IInv, Apart
<1>7. ShownInv'
  BY <1>1, <1>4 DEF IInv, ShownInv
<1> QED BY <1>1, <1>3, <1>5, <1>6, <1>7 DEF IInv, RowsInv

LEMMA IInvInit == Init => IInv
<1> SUFFICES ASSUME Init PROVE IInv
  OBVIOUS
<1>1. Fresh \in Request
  <2>1. <<>> \in Seq({"ok", "error", "none"})
    OBVIOUS
  <2> QED BY <2>1, NothingStaged DEF Fresh, Request
<1>2. req \in [Requests -> Request] /\ \A r \in Requests : req[r] = Fresh
  BY <1>1 DEF Init
<1>3. ReqInv(Fresh)
  <2>1. Len(<<>>) = 0 /\ DOMAIN Fresh.staged = {}
    BY NothingStaged DEF Fresh
  <2> QED BY <1>1, <2>1 DEF ReqInv, Fresh
<1>4. \A r \in Requests : DOMAIN Flushed(r) = {} /\ req[r].shown = {}
  <2>1. Fresh.staged = Nothing /\ Fresh.shown = {}
    BY DEF Fresh
  <2> QED BY <1>2, <2>1, NothingStaged DEF Flushed
<1>5. \A r \in Requests : Proper(r, Flushed(r))
  BY <1>4 DEF Proper
<1>6. \A r, o \in Requests : Apart(r, o)
  BY <1>4 DEF Apart, Deleted, Referred
<1>7. RowsInv
  BY DispatchAssumption DEF Init, RowsInv, Row
<1>8. on \in [Projects -> SUBSET Optional]
  BY DEF Init
<1> QED BY <1>2, <1>3, <1>4, <1>5, <1>6, <1>7, <1>8 DEF IInv, ShownInv

LEMMA IInvNext == IInv /\ [Next]_vars => IInv'
<1> SUFFICES ASSUME IInv, [Next]_vars PROVE IInv'
  OBVIOUS
<1>1. CASE UNCHANGED vars
  <2>1. rows' = rows /\ on' = on /\ req' = req
    BY <1>1 DEF vars
  <2>2. \A r \in Requests : Flushed(r)' = Flushed(r) /\ Mine(r)' = Mine(r)
    BY <2>1 DEF Flushed, Mine
  <2>3. ASSUME NEW r \in Requests PROVE Proper(r, Flushed(r))'
    BY <2>1, <2>2 DEF IInv, Proper, GoodRow, GoodDeletion
  <2>4. ASSUME NEW r \in Requests, NEW o \in Requests, r # o PROVE Apart(r, o)'
    BY <2>2, <2>4 DEF IInv, Apart
  <2>5. ShownInv'
    BY <2>1, <2>2 DEF IInv, ShownInv
  <2> QED BY <2>1, <2>3, <2>4, <2>5 DEF IInv, RowsInv
<1>2. ASSUME NEW s \in Switches, Toggle(s[1], s[2]) PROVE IInv'
  BY <1>2, ToggleSafe
<1>3. ASSUME NEW r \in Requests, Read(r) \/ Write(r) \/ Commit(r) \/ Refuse(r) \/ Kill(r)
      PROVE IInv'
  BY <1>3, ReadSafe, WriteSafe, CommitSafe, RefuseSafe, KillSafe
<1>4. ASSUME NEW r \in Requests,
             \/ Open(r) \/ Notification(r) \/ TokenExpired(r) \/ Describe(r) \/ GetPrompt(r)
             \/ \E t \in Tools : Gate(r, t)
             \/ \E m \in DOMAIN Resources : \E u \in Resources[m] \ {"decision"} : ReadResource(r, u)
             \/ Close(r)
      PROVE IInv'
  BY <1>4, WaySafe
<1>5. CASE Next
  BY <1>2, <1>3, <1>4, <1>5 DEF Next
<1> QED BY <1>1, <1>5

THEOREM DispatchInvariant == Spec => []IInv
BY IInvInit, IInvNext, PTL DEF Spec

(* Every reference from row to row and every answer to a token stays in    *)
(* one project, whichever tools run in which order, also for the tasks     *)
(* that are removed and the incidents that are attached meanwhile.         *)
THEOREM DispatchWithinProject == Spec => []WithinProject
<1>1. IInv => WithinProject
  BY DEF IInv, RowsInv, ReqInv, Request, ShownInv, WithinProject, TypeOK
<1> QED BY <1>1, DispatchInvariant, PTL

(* What a call staged is kept if and only if it was answered with success. *)
THEOREM DispatchAllOrNothing == Spec => []AllOrNothing
<1>1. IInv => AllOrNothing
  BY DEF IInv, ReqInv, AllOrNothing
<1> QED BY <1>1, DispatchInvariant, PTL

(* Nothing but a commit writes, and a tool that was admitted stages it.    *)
LEMMA OnlyCommitsWrite ==
    ASSUME IInv, [Next]_vars, NEW r \in Requests, ~Commit(r)
    PROVE  req'[r].wrote = req[r].wrote
<1>1. \A o \in Requests : req[o] \in Request
  BY DEF IInv
<1>2. \A q \in Request : \A answer : Answered(q, answer).wrote = q.wrote
  BY DEF Answered, Request
<1>3. \A q \in Request : RolledBack(q).wrote = q.wrote /\ RolledBack(q) \in Request
  BY NothingStaged DEF RolledBack, Request
<1> SUFFICES ASSUME ~(UNCHANGED vars), ~(\E s \in Switches : Toggle(s[1], s[2]))
             PROVE  req'[r].wrote = req[r].wrote
  BY DEF vars, Toggle
<1>4. ASSUME NEW o \in Requests, NEW q, req' = [req EXCEPT ![o] = q], q.wrote = req[o].wrote
      PROVE  req'[r].wrote = req[r].wrote
  BY <1>4 DEF IInv
<1>5. ASSUME NEW o \in Requests, Read(o) \/ Write(o) PROVE req'[r].wrote = req[r].wrote
  <2>1. (\E ids : Show(o, ids)) \/ (\E c : Stage(o, c))
    BY <1>5 DEF Read, Write, Context, ListItems, ViewItems, GetItem, ListThreads, GetThread,
       ListIncidents, GetIncident, ShowDocuments, ListPendings, ShowPlan,
       CreateItem, MoveItem, LinkItems, EditItem, UnlinkItems,
       CreateThread, AdvanceThread, LinkThread, WriteThread, ResolveIncident, PromoteIncident,
       IgnoreIncident, BackfillIncidents, WriteDocument, UpsertPending, CompletePending,
       DeletePending, UpsertTask, RemoveTask
  <2>2. CASE \E ids : Show(o, ids)
    <3>1. PICK ids : req' = [req EXCEPT ![o] = [@ EXCEPT !.at = "commit", !.shown = ids]]
      BY <2>2 DEF Show, IInv
    <3>2. [req[o] EXCEPT !.at = "commit", !.shown = ids].wrote = req[o].wrote
      BY <1>1 DEF Request
    <3> QED BY <3>1, <3>2, <1>4
  <2>3. CASE \E c : Stage(o, c)
    <3>1. PICK c : Stage(o, c)
      BY <2>3
    <3> DEFINE staged == Over([id \in DOMAIN c |-> [row |-> c[id], by |-> Position(o)]], req[o].staged)
               did == IF DOMAIN c = {} THEN req[o].did ELSE req[o].did \cup {Position(o)}
               q == [req[o] EXCEPT !.at = "commit", !.staged = staged, !.did = did]
    <3>2. req' = [req EXCEPT ![o] = q]
      BY <3>1, <1>1 DEF Stage, IInv
    <3> HIDE DEF staged, did
    <3>3. q.wrote = req[o].wrote
      BY <1>1 DEF Request
    <3> HIDE DEF q
    <3> QED BY <3>2, <3>3, <1>4
  <2> QED BY <2>1, <2>2, <2>3
<1>6. ASSUME NEW o \in Requests, Notification(o) \/ Describe(o) \/ GetPrompt(o) \/ \E u : ReadResource(o, u)
      PROVE req'[r].wrote = req[r].wrote
  <2>1. \E answer : req' = [req EXCEPT ![o] = Answered(req[o], answer)]
    BY <1>6 DEF Notification, Describe, GetPrompt, ReadResource
  <2> QED BY <2>1, <1>1, <1>2 DEF IInv
<1>7. ASSUME NEW o \in Requests, Open(o) \/ TokenExpired(o) \/ Close(o)
      PROVE req'[r].wrote = req[r].wrote
  <2>1. CASE Open(o)
    <3>1. PICK p, s : req' = [req EXCEPT ![o].at = "next", ![o].project = p, ![o].scope = s, ![o].loaded = TRUE]
      BY <2>1 DEF Open
    <3>2. req' = [req EXCEPT ![o] = [req[o] EXCEPT !.at = "next", !.project = p, !.scope = s, !.loaded = TRUE]]
      BY <3>1, <1>1 DEF IInv
    <3>3. [req[o] EXCEPT !.at = "next", !.project = p, !.scope = s, !.loaded = TRUE].wrote = req[o].wrote
      BY <1>1 DEF Request
    <3> QED BY <3>2, <3>3, <1>4
  <2>2. CASE TokenExpired(o) \/ Close(o)
    <3>1. PICK at \in {"dead", "done"} : req' = [req EXCEPT ![o].at = at]
      BY <2>2 DEF TokenExpired, Close
    <3>2. req' = [req EXCEPT ![o] = [req[o] EXCEPT !.at = at]]
      BY <3>1, <1>1 DEF IInv
    <3>3. [req[o] EXCEPT !.at = at].wrote = req[o].wrote
      BY <1>1 DEF Request
    <3> QED BY <3>2, <3>3, <1>4
  <2> QED BY <2>1, <2>2, <1>7
<1>8. ASSUME NEW o \in Requests, \E t \in Tools : Gate(o, t) PROVE req'[r].wrote = req[r].wrote
  <2>1. PICK t \in Tools : Gate(o, t)
    BY <1>8
  <2> DEFINE lit == Enabled(Mine(o), Module(t))
             q == [req[o] EXCEPT !.at = "handle", !.tool = t, !.lit = lit]
  <2>2. req' = [req EXCEPT ![o] = q] \/ req' = [req EXCEPT ![o] = Answered(req[o], "error")]
    BY <2>1, <1>1 DEF Gate, IInv
  <2> HIDE DEF lit
  <2>3. q.wrote = req[o].wrote
    BY <1>1 DEF Request
  <2> HIDE DEF q
  <2> QED BY <2>2, <2>3, <1>1, <1>2, <1>4
<1>9. ASSUME NEW o \in Requests, Refuse(o) PROVE req'[r].wrote = req[r].wrote
  BY <1>1, <1>2, <1>3, <1>9 DEF Refuse, IInv
<1>10. ASSUME NEW o \in Requests, Kill(o) PROVE req'[r].wrote = req[r].wrote
  BY <1>1, <1>3, <1>10 DEF Kill, IInv, Request
<1>11. ASSUME NEW o \in Requests, Commit(o) PROVE req'[r].wrote = req[r].wrote
  BY <1>11 DEF Commit, IInv
<1> QED BY <1>4, <1>5, <1>6, <1>7, <1>8, <1>9, <1>10, <1>11 DEF Next

(* A commit changes only rows of the token's project, for a token that may *)
(* write and a module that was enabled when the call came in.              *)
THEOREM DispatchCommitsAreCovered == Spec => CommitsAreCovered
<1>1. ASSUME IInv, [Next]_vars, NEW r \in Requests, req'[r].wrote # req[r].wrote
      PROVE  /\ req[r].scope = "write" /\ req[r].lit
             /\ \A id \in DOMAIN req[r].staged :
                   \/ id \in DOMAIN rows => rows[id].home \in {Mine(r), None}
                   \/ req[r].tool = "backfill" /\ req[r].staged[id].row = rows[id]
  <2>1. Commit(r)
    BY <1>1, OnlyCommitsWrite
  <2>2. req[r].at = "commit" /\ ReqInv(req[r]) /\ Proper(r, Flushed(r))
    BY <1>1, <2>1 DEF Commit, IInv
  <2>3. DOMAIN req[r].staged # {}
    <3> SUFFICES ASSUME DOMAIN req[r].staged = {} PROVE FALSE
      OBVIOUS
    <3> DEFINE k == Kept(req[r])
    <3>1. k \in Request /\ k.wrote = req[r].wrote
      BY <2>2, KeptFields
    <3>2. req' = [req EXCEPT ![r] = Answered(k, "ok")]
      BY <2>1 DEF Commit
    <3> HIDE DEF k
    <3>3. Answered(k, "ok").wrote = k.wrote
      BY <3>1, AnsweredFields
    <3> QED BY <1>1, <3>1, <3>2, <3>3 DEF IInv
  <2>4. req[r].scope = "write" /\ req[r].lit
    BY <2>2, <2>3 DEF ReqInv
  <2>5. ASSUME NEW id \in DOMAIN req[r].staged, id \in DOMAIN rows
        PROVE  \/ rows[id].home \in {Mine(r), None}
               \/ req[r].tool = "backfill" /\ req[r].staged[id].row = rows[id]
    <3>1. id \in DOMAIN Flushed(r) /\ Flushed(r)[id] = req[r].staged[id].row
      BY DEF Flushed
    <3> QED BY <3>1, <2>2, <2>5 DEF Proper, GoodRow, GoodDeletion
  <2> QED BY <2>4, <2>5
<1>2. IInv /\ [Next]_vars => [\A r \in Requests : req'[r].wrote # req[r].wrote =>
         /\ req[r].scope = "write" /\ req[r].lit
         /\ \A id \in DOMAIN req[r].staged :
               \/ id \in DOMAIN rows => rows[id].home \in {Mine(r), None}
               \/ req[r].tool = "backfill" /\ req[r].staged[id].row = rows[id]]_vars
  BY <1>1
<1> QED BY <1>2, DispatchInvariant, PTL DEF Spec, CommitsAreCovered
=============================================================================
