--------------------------- MODULE AIConfigProofs ---------------------------
(***************************************************************************)
(* What concurrent requests can never do to the versions of the AI         *)
(* configuration, for any number of requests, any names, models, patches   *)
(* and hand-made drafts: leave no version or two versions active, change   *)
(* what was published, enable AI through the settings with a provider      *)
(* whose connection test did not pass, or activate a configuration that    *)
(* leaves questions without a provider or, unless a provider is named like *)
(* the key of another, shows another route than they take.  As in the      *)
(* runs, the draft API is used by one request at a time and alone          *)
(* (ExpertAlone): without it these are false.                              *)
(***************************************************************************)
EXTENDS AIConfig, RouteProofs

-----------------------------------------------------------------------------
(* The rows, as a sequence of records.                                      *)

Outcomes == {"not_run", "pass", "fail"}

IsShaped(cfg) == DOMAIN cfg = {"enabled", "providers", "route"} /\ cfg.enabled \in BOOLEAN

IsVersion(row) ==
    /\ row = [status |-> row.status, cfg |-> row.cfg, val |-> row.val]
    /\ row.status \in Statuses /\ IsShaped(row.cfg) /\ row.val \in Outcomes

RowsOK(all) == all \in Seq(Range(all)) /\ \A v \in DOMAIN all : IsVersion(all[v])

\* v is the active version, and the only one.
OnlyActive(all, v) ==
    v \in DOMAIN all /\ \A w \in DOMAIN all : all[w].status = "active" <=> w = v

SomeActive(all) == DOMAIN all # {} => \E v \in DOMAIN all : OnlyActive(all, v)

\* A row that is or was active stays one and keeps its contents.
Frozen(all, new) ==
    \A v \in DOMAIN all : all[v].status \in {"active", "superseded"} =>
        new[v].cfg = all[v].cfg /\ new[v].status \in {"active", "superseded"}

\* What every statement keeps of the rows; that one is active takes a
\* transaction.
Kept(all, new) == RowsOK(new) /\ DOMAIN all \subseteq DOMAIN new /\ Frozen(all, new)

\* Every edit of a configuration keeps its shape.
LEMMA ShapeKept ==
  ASSUME NEW cfg, IsShaped(cfg), NEW x
  PROVE  /\ IsShaped([cfg EXCEPT !.providers = x]) /\ IsShaped([cfg EXCEPT !.route = x])
         /\ IsShaped(Normalize(cfg)) /\ IsShaped(WithDefaultRoute(cfg, x))
         /\ x \in BOOLEAN => IsShaped([cfg EXCEPT !.enabled = x])
BY DEF IsShaped, Normalize, WithDefaultRoute

LEMMA DefaultIsShaped == IsShaped(DefaultConfig)
BY DEF IsShaped, DefaultConfig

LEMMA RowIsVersion ==
  ASSUME NEW status \in Statuses, NEW cfg, IsShaped(cfg), NEW val \in Outcomes
  PROVE  /\ IsVersion(Row(status, cfg, val)) /\ Row(status, cfg, val).status = status
         /\ IsVersion([Row(status, cfg, val) EXCEPT !.status = "superseded"])
         /\ [Row(status, cfg, val) EXCEPT !.status = "superseded"].status = "superseded"
<1>1. IsShaped(Normalize(cfg))
  BY ShapeKept
<1> QED BY <1>1 DEF IsVersion, Row, Statuses

LEMMA SequenceOfRows ==
  ASSUME NEW all, all \in Seq(Range(all))
  PROVE  Len(all) \in Nat /\ DOMAIN all = 1..Len(all)
BY LenProperties

LEMMA AppendRow ==
  ASSUME NEW all, RowsOK(all), NEW row, IsVersion(row)
  PROVE  LET new == Append(all, row)
         IN /\ RowsOK(new) /\ Len(all) \in Nat
            /\ DOMAIN new = DOMAIN all \union {Len(all) + 1}
            /\ Len(all) + 1 \notin DOMAIN all
            /\ new[Len(all) + 1] = row
            /\ \A v \in DOMAIN all : new[v] = all[v]
<1> DEFINE new == Append(all, row)
           both == Range(all) \union {row}
<1>1. Len(all) \in Nat /\ DOMAIN all = 1..Len(all) /\ all \in [1..Len(all) -> Range(all)]
  BY SequenceOfRows, LenProperties DEF RowsOK
<1>2. all \in Seq(both) /\ row \in both
  <2>1. all \in [1..Len(all) -> both]
    BY <1>1
  <2> QED BY <1>1, <2>1, SeqDef
<1>3. /\ new \in Seq(both) /\ Len(new) = Len(all) + 1 /\ DOMAIN new = 1..(Len(all) + 1)
      /\ \A v \in 1..Len(all) : new[v] = all[v]
      /\ new[Len(all) + 1] = row
  BY <1>2, AppendProperties, LenProperties
<1> HIDE DEF new, both
<1>4. new \in Seq(Range(new))
  <2>0. Len(all) + 1 \in Nat
    BY <1>1
  <2>1. new \in [1..(Len(all) + 1) -> both]
    BY <1>1, <1>3, LenProperties
  <2> QED BY <2>0, <2>1, FunctionIsSequence
<1>5. DOMAIN new = DOMAIN all \union {Len(all) + 1} /\ Len(all) + 1 \notin DOMAIN all
  BY <1>1, <1>3
<1>6. \A v \in DOMAIN new : IsVersion(new[v])
  BY <1>1, <1>3, <1>5 DEF RowsOK
<1>7. RowsOK(new)
  BY <1>4, <1>6 DEF RowsOK
<1> QED BY <1>1, <1>3, <1>5, <1>7 DEF new

LEMMA KeptTrans ==
  ASSUME NEW all, NEW mid, NEW new, Kept(all, mid), Kept(mid, new)
  PROVE  Kept(all, new)
BY DEF Kept, Frozen

LEMMA KeptSame ==
  ASSUME NEW all, RowsOK(all)
  PROVE  Kept(all, all)
BY DEF Kept, Frozen

\* UPDATE of a version that is a draft, or failed.
LEMMA RewriteRow ==
  ASSUME NEW all, RowsOK(all), NEW v \in DOMAIN all,
         all[v].status \in {"draft", "failed"},
         NEW row, IsVersion(row), row.status \in {"draft", "failed"}
  PROVE  LET new == [all EXCEPT ![v] = row]
         IN /\ Kept(all, new) /\ DOMAIN new = DOMAIN all
            /\ SomeActive(all) => SomeActive(new)
<1> DEFINE new == [all EXCEPT ![v] = row]
<1>1. Len(all) \in Nat /\ DOMAIN all = 1..Len(all)
  BY SequenceOfRows DEF RowsOK
<1>2. /\ DOMAIN new = DOMAIN all /\ new[v] = row
      /\ \A w \in DOMAIN all : w # v => new[w] = all[w]
  OBVIOUS
<1>3. new \in [1..Len(all) -> Range(new)]
  BY <1>1 DEF Range
<1> HIDE DEF new
<1>4. RowsOK(new)
  BY <1>1, <1>2, <1>3, FunctionIsSequence DEF RowsOK
<1>5. Kept(all, new)
  BY <1>2, <1>4 DEF Kept, Frozen
<1>6. SomeActive(all) => SomeActive(new)
  BY <1>2 DEF SomeActive, OnlyActive
<1> QED BY <1>2, <1>5, <1>6 DEF new

\* INSERT of a version that is not active.
LEMMA InsertRow ==
  ASSUME NEW all, RowsOK(all), NEW row, IsVersion(row), row.status # "active"
  PROVE  LET new == Append(all, row)
         IN /\ Kept(all, new) /\ Len(all) + 1 \in DOMAIN new
            /\ SomeActive(all) /\ DOMAIN all # {} => SomeActive(new)
<1> DEFINE new == Append(all, row)
<1>1. /\ RowsOK(new)
      /\ DOMAIN new = DOMAIN all \union {Len(all) + 1}
      /\ Len(all) + 1 \notin DOMAIN all
      /\ new[Len(all) + 1] = row
      /\ \A v \in DOMAIN all : new[v] = all[v]
  BY AppendRow
<1> HIDE DEF new
<1>2. Kept(all, new)
  BY <1>1 DEF Kept, Frozen
<1>3. SomeActive(all) /\ DOMAIN all # {} => SomeActive(new)
  BY <1>1 DEF SomeActive, OnlyActive
<1> QED BY <1>1, <1>2, <1>3 DEF new

\* UPDATE ... SET status = 'superseded' WHERE status = 'active'.
LEMMA SupersedeRows ==
  ASSUME NEW all, RowsOK(all)
  PROVE  /\ Kept(all, Superseded(all)) /\ DOMAIN Superseded(all) = DOMAIN all
         /\ Len(Superseded(all)) = Len(all)
         /\ \A v \in DOMAIN all : Superseded(all)[v].status # "active"
<1> DEFINE new == Superseded(all)
<1>1. Len(all) \in Nat /\ DOMAIN all = 1..Len(all)
  BY SequenceOfRows DEF RowsOK
<1>2. DOMAIN new = DOMAIN all /\ new \in [1..Len(all) -> Range(new)]
  BY <1>1 DEF Superseded, Range
<1>3. ASSUME NEW v \in DOMAIN all
      PROVE  /\ IsVersion(new[v]) /\ new[v].status # "active"
             /\ new[v].cfg = all[v].cfg
             /\ all[v].status = "superseded" => new[v].status = "superseded"
             /\ all[v].status = "active" => new[v].status = "superseded"
  <2>1. IsVersion(all[v])
    BY DEF RowsOK
  <2>2. CASE all[v].status = "active"
    <3>1. new[v] = [all[v] EXCEPT !.status = "superseded"]
      BY <2>2 DEF Superseded
    <3> HIDE DEF new
    <3>2. new[v] = [status |-> "superseded", cfg |-> all[v].cfg, val |-> all[v].val]
      BY <2>1, <3>1 DEF IsVersion
    <3>3. IsShaped(all[v].cfg) /\ all[v].val \in Outcomes
      BY <2>1 DEF IsVersion
    <3> QED BY <2>2, <3>2, <3>3 DEF IsVersion, Statuses
  <2>3. CASE all[v].status # "active"
    <3>1. new[v] = all[v]
      BY <2>3 DEF Superseded
    <3> QED BY <2>1, <2>3, <3>1
  <2> QED BY <2>2, <2>3
<1> HIDE DEF new
<1>4. RowsOK(new) /\ Len(new) = Len(all)
  BY <1>1, <1>2, <1>3, FunctionIsSequence DEF RowsOK
<1>5. Kept(all, new)
  BY <1>2, <1>3, <1>4 DEF Kept, Frozen
<1> QED BY <1>2, <1>3, <1>4, <1>5 DEF new

\* The transaction that makes version v the active one.
LEMMA ActivateRow ==
  ASSUME NEW all, RowsOK(all), NEW v \in DOMAIN all
  PROVE  LET new == [Superseded(all) EXCEPT ![v].status = "active"]
         IN Kept(all, new) /\ SomeActive(new)
<1> DEFINE old == Superseded(all)
           new == [old EXCEPT ![v].status = "active"]
<1>1. /\ RowsOK(old) /\ Kept(all, old) /\ DOMAIN old = DOMAIN all
      /\ \A w \in DOMAIN all : old[w].status # "active"
  BY SupersedeRows DEF Kept
<1>2. Len(old) \in Nat /\ DOMAIN old = 1..Len(old)
  BY <1>1, SequenceOfRows DEF RowsOK
<1> HIDE DEF old
<1>3. /\ DOMAIN new = DOMAIN old /\ new[v] = [old[v] EXCEPT !.status = "active"]
      /\ \A w \in DOMAIN old : w # v => new[w] = old[w]
  BY <1>1
<1>4. new \in [1..Len(old) -> Range(new)]
  BY <1>2, <1>3 DEF Range
<1> HIDE DEF new
<1>5. new[v] = [status |-> "active", cfg |-> old[v].cfg, val |-> old[v].val]
  BY <1>1, <1>3 DEF RowsOK, IsVersion
<1>6. IsVersion(new[v]) /\ new[v].status = "active" /\ new[v].cfg = old[v].cfg
  <2>1. IsShaped(old[v].cfg) /\ old[v].val \in Outcomes
    BY <1>1 DEF RowsOK, IsVersion
  <2> QED BY <1>5, <2>1 DEF IsVersion, Statuses
<1>7. RowsOK(new)
  BY <1>1, <1>2, <1>3, <1>4, <1>6, FunctionIsSequence DEF RowsOK
<1>8. Kept(old, new)
  BY <1>1, <1>3, <1>6, <1>7 DEF Kept, Frozen
<1>9. SomeActive(new)
  <2>1. ASSUME NEW w \in DOMAIN new, w # v PROVE new[w].status # "active"
    BY <1>1, <1>3, <2>1
  <2>2. v \in DOMAIN new
    BY <1>1, <1>3
  <2>3. OnlyActive(new, v)
    BY <1>6, <2>1, <2>2 DEF OnlyActive
  <2> QED BY <2>2, <2>3 DEF SomeActive
<1>10. Kept(all, new)
  BY <1>1, <1>8, KeptTrans
<1> QED BY <1>9, <1>10 DEF old, new

\* A version appended as the active one, after the others are superseded.
LEMMA AppendActive ==
  ASSUME NEW all, RowsOK(all), NEW row, IsVersion(row), row.status = "active"
  PROVE  LET new == Append(Superseded(all), row) IN Kept(all, new) /\ SomeActive(new)
<1> DEFINE old == Superseded(all)
           new == Append(old, row)
<1>1. /\ RowsOK(old) /\ Kept(all, old) /\ DOMAIN old = DOMAIN all
      /\ \A w \in DOMAIN all : old[w].status # "active"
  BY SupersedeRows DEF Kept
<1> HIDE DEF old
<1>2. /\ RowsOK(new)
      /\ DOMAIN new = DOMAIN old \union {Len(old) + 1}
      /\ Len(old) + 1 \notin DOMAIN old
      /\ new[Len(old) + 1] = row
      /\ \A v \in DOMAIN old : new[v] = old[v]
  BY <1>1, AppendRow
<1> HIDE DEF new
<1>3. Kept(old, new) /\ SomeActive(new)
  BY <1>1, <1>2 DEF Kept, Frozen, SomeActive, OnlyActive
<1> QED BY <1>1, <1>3, KeptTrans DEF old, new

-----------------------------------------------------------------------------
(* The requests.                                                            *)

Hand == {"read", "overwrite", "stamp", "recheck", "activate"}
Loads == {"ensure", "default", "reread", "edit", "editable"}
Works == {"edit", "editable", "test", "secret", "newkey", "seal", "update", "max",
          "insert", "publish"}

\* What a request knows of the rows: that the version it holds exists, that
\* there is one once it has loaded a configuration, and that what the draft
\* API is about to write is a draft.
GoodReq(q, all) ==
    /\ DOMAIN q = DOMAIN Idle
    /\ IsShaped(q.cfg) /\ q.on \in BOOLEAN /\ q.val \in Outcomes
    /\ q.kind # "secret" => q.ver \in {0} \cup DOMAIN all
    /\ q.pc = "idle" => q.kind = "none"
    /\ q.kind = "secret" => q.pc \in {"secret", "newkey", "seal"}
    /\ q.pc \in Hand => q.kind \in ExpertKinds /\ q.ver \in DOMAIN all
    /\ q.pc \in {"overwrite", "stamp"} => all[q.ver].status \in {"draft", "failed"}
    /\ q.pc \in Loads => ~q.hasEd
    /\ q.hasEd => q.ver \in DOMAIN all
    /\ q.pc = "update" => q.hasEd
    /\ q.pc \in Works /\ q.kind # "secret" => DOMAIN all # {}

\* A request of the draft API is alone.
Alone(r) == req[r].kind \in ExpertKinds =>
    \A o \in Requests : o # r => req[o].pc = "idle"

ReqOK ==
    /\ DOMAIN req = Requests
    /\ \A r \in Requests : GoodReq(req[r], rows) /\ Alone(r)

IInv == RowsOK(rows) /\ SomeActive(rows) /\ ReqOK

\* What a step does.
Preserved == IInv' /\ Kept(rows, rows')

\* A request that a step leaves with no master key in hand, and away from the
\* secrets API.
Sealing == {"secret", "newkey", "seal"}
Unsealed(r) == req'[r].pc # "seal" /\ req'[r].kind # "secret"

LEMMA IdleIsGood ==
  ASSUME NEW all
  PROVE  /\ GoodReq(Idle, all) /\ Idle.kind \notin ExpertKinds
         /\ GoodReq([Idle EXCEPT !.pc = "respond"], all)
         /\ [Idle EXCEPT !.pc = "respond"].kind \notin ExpertKinds
         /\ Idle.pc \notin Sealing /\ [Idle EXCEPT !.pc = "respond"].pc \notin Sealing
BY DEF GoodReq, Idle, Hand, Loads, Works, ExpertKinds, IsShaped, DefaultConfig, Outcomes,
   Sealing

\* A step of one request that is under way: the rows are kept, and what becomes
\* of the request is good.
LEMMA StepKeeps ==
  ASSUME IInv, NEW r \in Requests, req[r].pc # "idle", NEW q,
         req' = [req EXCEPT ![r] = q],
         Kept(rows, rows'), SomeActive(rows'),
         GoodReq(q, rows'), q.kind \in ExpertKinds => req[r].kind \in ExpertKinds
  PROVE  /\ Preserved
         /\ q.pc \notin Sealing \/ (q.pc # "seal" /\ q.kind # "secret") => Unsealed(r)
<1>1. DOMAIN req' = Requests /\ req'[r] = q /\ \A o \in Requests : o # r => req'[o] = req[o]
  BY DEF IInv, ReqOK
<1>2. ASSUME NEW o \in Requests, o # r
      PROVE  GoodReq(req'[o], rows') /\ Alone(o)'
  <2>1. GoodReq(req[o], rows) /\ Alone(o) /\ req'[o] = req[o]
    BY <1>1, <1>2 DEF IInv, ReqOK
  <2>2. req[o].kind \notin ExpertKinds
    BY <1>2, <2>1 DEF Alone
  <2>3. req[o].pc \notin Hand
    BY <2>1, <2>2 DEF GoodReq
  <2>4. DOMAIN rows \subseteq DOMAIN rows'
    BY DEF Kept
  <2>5. GoodReq(req[o], rows')
    BY <2>1, <2>3, <2>4 DEF GoodReq, Hand
  <2> QED BY <2>1, <2>2, <2>5 DEF Alone
<1>3. GoodReq(req'[r], rows') /\ Alone(r)'
  <2>1. q.kind \in ExpertKinds => \A o \in Requests : o # r => req[o].pc = "idle"
    BY DEF IInv, ReqOK, Alone
  <2> QED BY <1>1, <2>1 DEF Alone
<1>4. ReqOK'
  BY <1>1, <1>2, <1>3 DEF ReqOK
<1>5. q.pc \notin Sealing \/ (q.pc # "seal" /\ q.kind # "secret") => Unsealed(r)
  BY <1>1 DEF GoodReq, Sealing, Unsealed
<1> QED BY <1>4, <1>5 DEF IInv, Kept, Preserved

\* The same when the rows are as they were.
LEMMA StepWithoutWrite ==
  ASSUME IInv, NEW r \in Requests, req[r].pc # "idle", NEW q,
         req' = [req EXCEPT ![r] = q], UNCHANGED rows,
         GoodReq(q, rows), q.kind \in ExpertKinds => req[r].kind \in ExpertKinds
  PROVE  /\ Preserved
         /\ q.pc \notin Sealing \/ (q.pc # "seal" /\ q.kind # "secret") => Unsealed(r)
<1>1. Kept(rows, rows') /\ SomeActive(rows')
  BY KeptSame DEF IInv
<1> QED BY <1>1, StepKeeps

LEMMA EndKeeps ==
  ASSUME IInv, NEW r \in Requests, req[r].pc # "idle",
         Done(r) \/ Responds(r), Kept(rows, rows'), SomeActive(rows')
  PROVE  Preserved /\ Unsealed(r)
<1>1. PICK q \in {Idle, [Idle EXCEPT !.pc = "respond"]} : req' = [req EXCEPT ![r] = q]
  BY DEF Done, Responds, Put
<1>2. GoodReq(q, rows') /\ q.kind \notin ExpertKinds /\ q.pc \notin Sealing
  BY <1>1, IdleIsGood
<1> QED BY <1>1, <1>2, StepKeeps

LEMMA EndWithoutWrite ==
  ASSUME IInv, NEW r \in Requests, req[r].pc # "idle",
         Done(r) \/ Responds(r), UNCHANGED rows
  PROVE  Preserved /\ Unsealed(r)
<1>1. Kept(rows, rows') /\ SomeActive(rows')
  BY KeptSame DEF IInv
<1> QED BY <1>1, EndKeeps

-----------------------------------------------------------------------------
(* What a settings request loads, and what it is about to write.            *)

LEMMA EditableExists ==
  ASSUME RowsOK(rows), NEW seen, EditableAbove(seen) # 0
  PROVE  EditableAbove(seen) \in Versions
<1> DEFINE T == {0} \cup {v \in WithStatus({"draft", "failed"}) : v > seen}
<1>1. Len(rows) \in Nat /\ DOMAIN rows = 1..Len(rows)
  BY SequenceOfRows DEF RowsOK
<1>2. T \subseteq 0..Len(rows) /\ T # {}
  BY <1>1 DEF WithStatus, Versions
<1>3. Max(T) \in T
  BY <1>1, <1>2, GreatestExists
<1>4. EditableAbove(seen) = Max(T)
  BY DEF EditableAbove
<1> QED BY <1>3, <1>4 DEF WithStatus, Versions

LEMMA ActiveExists ==
  ASSUME RowsOK(rows), ActiveVersion # 0
  PROVE  ActiveVersion \in DOMAIN rows /\ rows[ActiveVersion].status = "active"
<1> DEFINE T == {0} \cup WithStatus({"active"})
<1>1. Len(rows) \in Nat /\ DOMAIN rows = 1..Len(rows)
  BY SequenceOfRows DEF RowsOK
<1>2. T \subseteq 0..Len(rows) /\ T # {}
  BY <1>1 DEF WithStatus, Versions
<1>3. Max(T) \in T
  BY <1>1, <1>2, GreatestExists
<1>4. ActiveVersion = Max(T)
  BY DEF ActiveVersion
<1> QED BY <1>3, <1>4 DEF WithStatus, Versions

\* A request that holds what an edit needs.
Editing(q) ==
    /\ DOMAIN q = DOMAIN Idle /\ q.kind # "secret"
    /\ IsShaped(q.cfg) /\ q.on \in BOOLEAN /\ q.val \in Outcomes
    /\ q.ver \in {0} \cup DOMAIN rows
    /\ q.hasEd => q.ver \in DOMAIN rows
    /\ DOMAIN rows # {}

LEMMA WithProviderEdits ==
  ASSUME NEW q, Editing(q), NEW p
  PROVE  Editing(WithProvider(q, p)) /\ WithProvider(q, p).kind = q.kind
BY DEF Editing, Idle, IsShaped, WithProvider

LEMMA SettledIsGood ==
  ASSUME NEW q, Editing(q), NEW ids
  PROVE  /\ GoodReq(Settled(q, ids), rows) /\ Settled(q, ids).kind = q.kind
         /\ Settled(q, ids).pc \in {"update", "max", "publish"}
<1> DEFINE s == Settled(q, ids)
<1>1. /\ DOMAIN s = DOMAIN Idle /\ s.kind = q.kind /\ s.ver = q.ver /\ s.hasEd = q.hasEd
      /\ s.pc \in {"update", "max", "publish"}
      /\ s.pc = "update" => s.hasEd
  BY DEF Settled, Writing, Editing, Idle
<1>2. IsShaped(s.cfg) /\ s.on = q.on /\ s.val \in Outcomes
  <2> DEFINE cfg(ps, enabled) == [q.cfg EXCEPT !.providers = ps, !.enabled = enabled]
             made(ps, enabled) == Normalize(WithDefaultRoute(cfg(ps, enabled), ids))
  <2>1. \/ s.cfg = Normalize(q.cfg)
        \/ \E ps : \E enabled \in BOOLEAN : s.cfg = made(ps, enabled)
    BY DEF Settled, Writing, Editing, Idle, IsShaped
  <2>2. \A ps : \A enabled \in BOOLEAN : IsShaped(cfg(ps, enabled))
    BY DEF Editing, IsShaped
  <2> HIDE DEF cfg
  <2>3. \A ps : \A enabled \in BOOLEAN : IsShaped(made(ps, enabled))
    BY <2>2, ShapeKept
  <2>4. IsShaped(Normalize(q.cfg))
    BY ShapeKept DEF Editing
  <2> HIDE DEF made
  <2>5. IsShaped(s.cfg)
    <3> HIDE DEF s
    <3> QED BY <2>1, <2>3, <2>4
  <2>6. s.on = q.on /\ s.val \in Outcomes
    BY DEF Settled, Writing, Editing, Idle, Outcomes
  <2> QED BY <2>5, <2>6
<1> HIDE DEF s
<1> QED BY <1>1, <1>2 DEF Editing, GoodReq, Hand, Loads, s

LEMMA AfterLoadIsGood ==
  ASSUME NEW q, Editing(q)
  PROVE  /\ GoodReq(AfterTest(q), rows) /\ AfterTest(q).kind = q.kind
         /\ AfterTest(q).pc \in {"secret", "update", "max", "publish"}
         /\ GoodReq(AfterLoad(q), rows) /\ AfterLoad(q).kind = q.kind
         /\ AfterLoad(q).pc \in {"test", "secret", "update", "max", "publish"}
<1>1. /\ GoodReq(AfterTest(q), rows) /\ AfterTest(q).kind = q.kind
      /\ AfterTest(q).pc \in {"secret", "update", "max", "publish"}
  <2>1. CASE q.cred
    BY <2>1 DEF AfterTest, Editing, GoodReq, Idle, Hand, Loads
  <2>2. CASE ~q.cred
    BY <2>2, SettledIsGood DEF AfterTest
  <2> QED BY <2>1, <2>2
<1>2. CASE q.toTest # {}
  BY <1>1, <1>2 DEF AfterLoad, Editing, GoodReq, Idle, Hand, Loads
<1>3. CASE q.toTest = {}
  BY <1>1, <1>3 DEF AfterLoad
<1> QED BY <1>1, <1>2, <1>3

\* A request that goes on with another configuration.
LEMMA EditingWith ==
  ASSUME NEW q, Editing(q), NEW cfg, IsShaped(cfg)
  PROVE  Editing([q EXCEPT !.cfg = cfg]) /\ [q EXCEPT !.cfg = cfg].kind = q.kind
BY DEF Editing, Idle

LEMMA ConfigIsShaped ==
  ASSUME RowsOK(rows), NEW v \in DOMAIN rows
  PROVE  IsShaped(Config(v))
<1>1. IsShaped(rows[v].cfg)
  BY DEF RowsOK, IsVersion
<1> QED BY <1>1, ShapeKept DEF Config

LEMMA LoadedIsEditing ==
  ASSUME IInv, NEW r \in Requests, req[r].pc = "editable"
  PROVE  Editing(Loaded(r)) /\ Loaded(r).kind = req[r].kind
<1> DEFINE q == req[r]
           e == EditableAbove(q.seen)
           base == IF e = 0 THEN q ELSE [q EXCEPT !.ver = e, !.hasEd = TRUE, !.cfg = Config(e)]
<1>1. GoodReq(req[r], rows) /\ RowsOK(rows)
  BY DEF IInv, ReqOK
<1>2. Editing(base) /\ base.kind = q.kind
  <2>1. CASE e = 0
    BY <1>1, <2>1 DEF Editing, GoodReq, Loads, Works
  <2>2. CASE e # 0
    <3>1. e \in DOMAIN rows
      BY <1>1, <2>2, EditableExists DEF Versions
    <3>2. IsShaped(Config(e))
      BY <1>1, <3>1, ConfigIsShaped
    <3> HIDE DEF e
    <3> QED BY <1>1, <2>2, <3>1, <3>2 DEF Editing, GoodReq, Works, Idle
  <2> QED BY <2>1, <2>2
<1>3. Loaded(r) = [base EXCEPT !.cfg = Normalize(base.cfg)]
  BY DEF Loaded
<1> HIDE DEF base
<1>4. IsShaped(Normalize(base.cfg))
  BY <1>2, ShapeKept DEF Editing
<1> QED BY <1>2, <1>3, <1>4, EditingWith

-----------------------------------------------------------------------------
(* The steps, one lemma for each part of the API.                           *)

LEMMA ArrivalKeeps ==
  ASSUME IInv, ExpertAlone, NEW r \in Requests, NEW body, Arrive(r, body),
         GoodReq(body, rows)
  PROVE  Preserved
<1>1. /\ req[r].pc = "idle" /\ req' = [req EXCEPT ![r] = body] /\ UNCHANGED rows
      /\ IF body.kind \in ExpertKinds THEN Quiet ELSE ~ExpertInFlight
  BY DEF Arrive, Free
<1>2. /\ DOMAIN req' = Requests /\ req'[r] = body
      /\ \A o \in Requests : o # r => req'[o] = req[o]
  BY <1>1 DEF IInv, ReqOK
<1>3. ASSUME NEW o \in Requests PROVE GoodReq(req'[o], rows)
  BY <1>2 DEF IInv, ReqOK
<1>4. CASE body.kind \in ExpertKinds
  <2>1. \A o \in Requests : req[o].pc = "idle" /\ req[o].kind = "none"
    BY <1>1, <1>4 DEF Quiet, IInv, ReqOK, GoodReq
  <2>2. \A o \in Requests : Alone(o)'
    BY <1>2, <2>1 DEF Alone, ExpertKinds
  <2> QED BY <1>1, <1>2, <1>3, <2>2, KeptSame DEF IInv, ReqOK, Preserved
<1>5. CASE body.kind \notin ExpertKinds
  <2>1. \A o \in Requests : req'[o].kind \notin ExpertKinds
    BY <1>1, <1>2, <1>5 DEF ExpertInFlight
  <2>2. \A o \in Requests : Alone(o)'
    BY <2>1 DEF Alone
  <2> QED BY <1>1, <1>2, <1>3, <2>2, KeptSame DEF IInv, ReqOK, Preserved
<1> QED BY <1>4, <1>5

Arrivals(r) ==
    \/ CreateArrives(r) \/ UpdateArrives(r) \/ DeleteArrives(r) \/ ApplyArrives(r)
    \/ DisableArrives(r) \/ SaveDefaultArrives(r) \/ ExpertArrives(r) \/ ViewArrives(r)
    \/ ProbeArrives(r) \/ SecretArrives(r)

\* A request as it arrives: it holds no version, or one the draft API named.
Arrived(body, kind, pc) ==
    /\ DOMAIN body = DOMAIN Idle /\ body.kind = kind /\ body.pc = pc /\ ~body.hasEd
    /\ IsShaped(body.cfg) /\ body.on \in BOOLEAN /\ body.val \in Outcomes
    /\ pc = "ensure" => body.ver = 0

LEMMA BodyArrived ==
  ASSUME NEW kind, NEW pc
  PROVE  Arrived(Body(kind, pc), kind, pc)
BY DefaultIsShaped DEF Arrived, Body, Idle, Outcomes

GoodArrival(body) ==
    /\ GoodReq(body, rows) /\ body.pc # "seal"
    /\ body.kind = "secret" => body.ver \in {0} \cup DOMAIN secrets

LEMMA ArrivedIsGood ==
  ASSUME NEW body, NEW kind, NEW pc, Arrived(body, kind, pc),
         \/ pc = "ensure" /\ kind # "secret"
         \/ pc = "secret" /\ kind = "secret" /\ body.ver \in {0} \cup DOMAIN secrets
         \/ pc = "read" /\ kind \in ExpertKinds /\ body.ver \in DOMAIN rows
  PROVE  GoodArrival(body)
BY DEF Arrived, GoodArrival, GoodReq, Hand, Loads, Works, ExpertKinds

LEMMA ArrivesGood ==
  ASSUME NEW r \in Requests, Arrivals(r)
  PROVE  \E body : Arrive(r, body) /\ GoodArrival(body)
<1>1. CASE CreateArrives(r)
  <2> DEFINE body(name, model, prio, test) ==
        [Body("create", "ensure") EXCEPT
           !.patch = [NoProvider EXCEPT !.name = name, !.model = model, !.prio = prio],
           !.cred = TRUE, !.test = test]
  <2>1. \E name, model, prio, test : Arrive(r, body(name, model, prio, test))
    BY <1>1 DEF CreateArrives
  <2>2. \A name, model, prio, test :
           Arrived(body(name, model, prio, test), "create", "ensure")
    BY BodyArrived DEF Arrived, Idle
  <2>3. \A name, model, prio, test : GoodArrival(body(name, model, prio, test))
    BY <2>2, ArrivedIsGood
  <2> HIDE DEF body
  <2> QED BY <2>1, <2>3
<1>2. CASE UpdateArrives(r)
  <2> DEFINE body(key, p) ==
        [Body("update", "ensure") EXCEPT
           !.key = key, !.cred = p.cred, !.flag = p.makeDefault, !.test = p.test,
           !.patch = [NoProvider EXCEPT !.name = p.name, !.model = p.model,
                                        !.prio = p.prio]]
  <2>1. \E key, p : Arrive(r, body(key, p))
    BY <1>2 DEF UpdateArrives
  <2>2. \A key, p : Arrived(body(key, p), "update", "ensure")
    BY BodyArrived DEF Arrived, Idle
  <2>3. \A key, p : GoodArrival(body(key, p))
    BY <2>2, ArrivedIsGood
  <2> HIDE DEF body
  <2> QED BY <2>1, <2>3
<1>3. CASE DeleteArrives(r)
  <2> DEFINE body(key, other) ==
        [Body("delete", "ensure") EXCEPT !.key = key, !.other = other]
  <2>1. \E key, other : Arrive(r, body(key, other))
    BY <1>3 DEF DeleteArrives
  <2>2. \A key, other : Arrived(body(key, other), "delete", "ensure")
    BY BodyArrived DEF Arrived, Idle
  <2>3. \A key, other : GoodArrival(body(key, other))
    BY <2>2, ArrivedIsGood
  <2> HIDE DEF body
  <2> QED BY <2>1, <2>3
<1>4. CASE ApplyArrives(r)
  <2> DEFINE body(on, all) ==
        [Body("apply", "ensure") EXCEPT !.on = on, !.flag = all]
  <2>1. \E on \in BOOLEAN : \E all : Arrive(r, body(on, all))
    BY <1>4 DEF ApplyArrives
  <2>2. \A on \in BOOLEAN : \A all : Arrived(body(on, all), "apply", "ensure")
    BY BodyArrived DEF Arrived, Idle
  <2>3. \A on \in BOOLEAN : \A all : GoodArrival(body(on, all))
    BY <2>2, ArrivedIsGood
  <2> HIDE DEF body
  <2> QED BY <2>1, <2>3
<1>5. CASE ProbeArrives(r)
  <2> DEFINE body(key) ==
        [Body("probe", "ensure") EXCEPT !.key = key]
  <2>1. \E key : Arrive(r, body(key))
    BY <1>5 DEF ProbeArrives
  <2>2. \A key : Arrived(body(key), "probe", "ensure")
    BY BodyArrived DEF Arrived, Idle
  <2>3. \A key : GoodArrival(body(key))
    BY <2>2, ArrivedIsGood
  <2> HIDE DEF body
  <2> QED BY <2>1, <2>3
<1>6. CASE SecretArrives(r)
  <2> DEFINE body(id) ==
        [Body("secret", "secret") EXCEPT !.ver = id]
  <2>1. \E id \in {0} \cup DOMAIN secrets : Arrive(r, body(id))
    BY <1>6 DEF SecretArrives, SecretIds
  <2>2. \A id : Arrived(body(id), "secret", "secret") /\ body(id).ver = id
    BY BodyArrived DEF Arrived, Idle
  <2>3. \A id \in {0} \cup DOMAIN secrets : GoodArrival(body(id))
    BY <2>2, ArrivedIsGood
  <2> HIDE DEF body
  <2> QED BY <2>1, <2>3
<1>7. CASE DisableArrives(r) \/ ViewArrives(r)
  BY <1>7, BodyArrived, ArrivedIsGood DEF DisableArrives, ViewArrives
<1>8. CASE SaveDefaultArrives(r)
  <2> DEFINE body(kind, key, model, prio, cred, name) ==
        [Body(kind, "ensure") EXCEPT
           !.key = key, !.cred = cred,
           !.patch = [NoProvider EXCEPT !.name = name, !.model = model, !.prio = prio]]
  <2>1. \E kind \in {"enable", "save"} : \E key, model, prio, cred, name :
          Arrive(r, body(kind, key, model, prio, cred, name))
    BY <1>8 DEF SaveDefaultArrives
  <2>2. \A kind, key, model, prio, cred, name :
          Arrived(body(kind, key, model, prio, cred, name), kind, "ensure")
    BY BodyArrived DEF Arrived, Idle
  <2>3. \A kind \in {"enable", "save"} : \A key, model, prio, cred, name :
          GoodArrival(body(kind, key, model, prio, cred, name))
    BY <2>2, ArrivedIsGood
  <2> HIDE DEF body
  <2> QED BY <2>1, <2>3
<1>9. CASE ExpertArrives(r)
  <2> DEFINE put(v, data) == [Body("put", "read") EXCEPT !.ver = v, !.cfg = Normalize(data)]
             other(kind, v) == [Body(kind, "read") EXCEPT !.ver = v]
  <2>1. \/ Arrive(r, Body("new", "ensure"))
        \/ \E v \in DOMAIN rows : \E data \in Handmade : Arrive(r, put(v, data))
        \/ \E v \in DOMAIN rows, kind \in {"validate", "publish"} :
              Arrive(r, other(kind, v))
    BY <1>9 DEF ExpertArrives, Versions
  <2>0. \A data \in Handmade : IsShaped(Normalize(data))
    BY InputAssumption, ShapeKept DEF IsShaped, IsConfig
  <2>2. /\ \A v : \A data \in Handmade :
             Arrived(put(v, data), "put", "read") /\ put(v, data).ver = v
        /\ \A kind, v : Arrived(other(kind, v), kind, "read") /\ other(kind, v).ver = v
    BY <2>0, BodyArrived DEF Arrived, Idle
  <2> HIDE DEF put, other
  <2>3. /\ GoodArrival(Body("new", "ensure"))
        /\ \A v \in DOMAIN rows : \A data \in Handmade : GoodArrival(put(v, data))
        /\ \A v \in DOMAIN rows, kind \in {"validate", "publish"} :
             GoodArrival(other(kind, v))
    BY <2>2, BodyArrived, ArrivedIsGood DEF ExpertKinds
  <2> QED BY <2>1, <2>3
<1> QED BY <1>1, <1>2, <1>3, <1>4, <1>5, <1>6, <1>7, <1>8, <1>9 DEF Arrivals

\* ensureActiveAIConfig.
LEMMA EnsuredKeeps ==
  ASSUME IInv, NEW r \in Requests, req[r].pc \in {"ensure", "reread"},
         NEW v \in DOMAIN rows, Ensured(r, v), UNCHANGED rows
  PROVE  Preserved /\ Unsealed(r)
<1>1. GoodReq(req[r], rows) /\ IsShaped(rows[v].cfg) /\ IsShaped(Config(v))
  BY ConfigIsShaped DEF IInv, ReqOK, RowsOK, IsVersion
<1>2. CASE Responds(r)
  BY <1>2, EndWithoutWrite
<1>3. CASE ~Responds(r)
  <2>1. PICK q : /\ req' = [req EXCEPT ![r] = q]
                 /\ DOMAIN q = DOMAIN Idle /\ q.kind = req[r].kind
                 /\ q.hasEd = req[r].hasEd /\ q.pc \in {"publish", "max", "edit"}
                 /\ q.cfg = Config(v) /\ q.on \in BOOLEAN /\ q.val = req[r].val
                 /\ q.ver = v
    <3> DEFINE kind == req[r].kind
               q(pc) == [[req[r] EXCEPT !.ver = v, !.cfg = Config(v),
                           !.on = IF kind = "apply" THEN @ ELSE rows[v].cfg.enabled]
                           EXCEPT !.pc = pc]
    <3>1. \E pc \in {"publish", "max", "edit"} : req' = [req EXCEPT ![r] = q(pc)]
      BY <1>3 DEF Ensured, Put
    <3>2. \A pc \in {"publish", "max", "edit"} :
            /\ DOMAIN q(pc) = DOMAIN Idle /\ q(pc).kind = req[r].kind
            /\ q(pc).hasEd = req[r].hasEd /\ q(pc).pc = pc
            /\ q(pc).cfg = Config(v) /\ q(pc).on \in BOOLEAN
            /\ q(pc).val = req[r].val /\ q(pc).ver = v
      BY <1>1 DEF GoodReq, Idle, IsShaped
    <3> HIDE DEF q
    <3> QED BY <3>1, <3>2
  <2>2. GoodReq(q, rows)
    BY <1>1, <2>1 DEF GoodReq, Hand, Loads, Works
  <2> QED BY <2>1, <2>2, StepWithoutWrite DEF Sealing
<1> QED BY <1>2, <1>3

\* A request that only goes on to another step.
LEMMA GoesOn ==
  ASSUME IInv, NEW r \in Requests, req[r].pc # "idle", NEW pc, Goto(r, pc),
         UNCHANGED rows, GoodReq([req[r] EXCEPT !.pc = pc], rows), pc \notin Sealing
  PROVE  Preserved /\ Unsealed(r)
<1> DEFINE q == [req[r] EXCEPT !.pc = pc]
<1>1. req' = [req EXCEPT ![r] = q]
  BY DEF Goto, IInv, ReqOK
<1>2. q.kind = req[r].kind /\ q.pc = pc
  BY DEF IInv, ReqOK, GoodReq, Idle
<1> HIDE DEF q
<1> QED BY <1>1, <1>2, StepWithoutWrite DEF q

LEMMA LoadingKeeps ==
  ASSUME IInv, NEW r \in Requests,
         ReadActive(r) \/ InsertDefault(r) \/ RereadActive(r) \/ ReadActiveVersion(r)
  PROVE  Preserved /\ Unsealed(r)
<1>0. GoodReq(req[r], rows) /\ RowsOK(rows)
  BY DEF IInv, ReqOK
<1>1. CASE ReadActive(r)
  <2>1. CASE ActiveVersion = 0
    <3>1. GoodReq([req[r] EXCEPT !.pc = "default"], rows)
      BY <1>0, <1>1 DEF ReadActive, GoodReq, Idle, Hand, Loads, Works
    <3> QED BY <1>1, <2>1, <3>1, GoesOn DEF ReadActive, Sealing
  <2>2. CASE ActiveVersion # 0
    BY <1>0, <1>1, <2>2, ActiveExists, EnsuredKeeps DEF ReadActive
  <2> QED BY <2>1, <2>2
<1>2. CASE InsertDefault(r)
  <2>1. CASE rows = <<>>
    <3>1. rows' = <<Row("active", DefaultConfig, "pass")>> /\ Goto(r, "reread")
      BY <1>2, <2>1 DEF InsertDefault
    <3> DEFINE row == Row("active", DefaultConfig, "pass")
               q == [req[r] EXCEPT !.pc = "reread"]
    <3>2. IsVersion(row) /\ row.status = "active"
      <4>1. "active" \in Statuses
        BY DEF Statuses
      <4> QED BY <4>1, RowIsVersion, DefaultIsShaped DEF Outcomes
    <3> HIDE DEF row
    <3>3. DOMAIN rows' = {1} /\ rows'[1] = row
      BY <3>1 DEF row
    <3>4. rows' \in [1..1 -> {row}]
      BY <3>1 DEF row
    <3>5. RowsOK(rows')
      BY <3>2, <3>3, <3>4, FunctionIsSequence DEF RowsOK
    <3>6. Kept(rows, rows') /\ SomeActive(rows')
      BY <2>1, <3>2, <3>3, <3>5 DEF Kept, Frozen, SomeActive, OnlyActive
    <3>7. /\ req' = [req EXCEPT ![r] = q] /\ q.kind = req[r].kind
          /\ req[r].pc # "idle"
      BY <1>0, <1>2, <3>1 DEF InsertDefault, Goto, IInv, ReqOK, GoodReq, Idle
    <3>8. GoodReq(q, rows') /\ q.pc \notin Sealing
      BY <1>0, <1>2, <3>3 DEF InsertDefault, GoodReq, Idle, Hand, Loads, Works, Sealing
    <3> HIDE DEF q
    <3> QED BY <3>6, <3>7, <3>8, StepKeeps
  <2>2. CASE rows # <<>>
    BY <1>2, <2>2, EndWithoutWrite DEF InsertDefault
  <2> QED BY <2>1, <2>2
<1>3. CASE RereadActive(r)
  <2>1. CASE ActiveVersion = 0
    BY <1>3, <2>1, EndWithoutWrite DEF RereadActive
  <2>2. CASE ActiveVersion # 0
    BY <1>0, <1>3, <2>2, ActiveExists, EnsuredKeeps DEF RereadActive
  <2> QED BY <2>1, <2>2
<1>4. CASE ReadActiveVersion(r)
  <2> DEFINE q == [req[r] EXCEPT !.seen = ActiveVersion, !.pc = "editable"]
  <2>1. req' = [req EXCEPT ![r] = q] /\ UNCHANGED rows /\ req[r].pc = "edit"
    BY <1>4 DEF ReadActiveVersion, Put
  <2>2. GoodReq(q, rows) /\ q.kind = req[r].kind /\ q.pc \notin Sealing
    BY <1>0, <2>1 DEF GoodReq, Idle, Hand, Loads, Works, Sealing
  <2> HIDE DEF q
  <2> QED BY <2>1, <2>2, StepWithoutWrite
<1> QED BY <1>1, <1>2, <1>3, <1>4

\* A request that has made its edit goes to the test, the secret or the write.
LEMMA EditKeeps ==
  ASSUME IInv, NEW r \in Requests, req[r].pc # "idle", UNCHANGED rows,
         NEW q, Editing(q), q.kind = req[r].kind,
         \/ Put(r, AfterLoad(q)) \/ Put(r, AfterTest(q))
         \/ \E ids : Put(r, Settled(q, ids))
  PROVE  Preserved /\ Unsealed(r)
<1>1. PICK s : /\ req' = [req EXCEPT ![r] = s] /\ GoodReq(s, rows)
               /\ s.kind = req[r].kind /\ s.pc # "seal" /\ s.kind # "secret"
  BY AfterLoadIsGood, SettledIsGood DEF Put, Editing
<1> QED BY <1>1, StepWithoutWrite

LEMMA SettingsKeep ==
  ASSUME IInv, NEW r \in Requests,
         \/ CreateProvider(r) \/ UpdateProvider(r) \/ DeleteProvider(r)
         \/ ApplySettings(r) \/ SaveDefault(r) \/ ProbeProvider(r)
  PROVE  Preserved /\ Unsealed(r)
<1>1. req[r].pc = "editable" /\ UNCHANGED rows
  BY DEF CreateProvider, UpdateProvider, DeleteProvider, ApplySettings, SaveDefault,
     ProbeProvider, Loading
<1>2. Editing(Loaded(r)) /\ Loaded(r).kind = req[r].kind
  BY <1>1, LoadedIsEditing
<1>3. CASE CreateProvider(r)
  <2> DEFINE q(key, ps, keys) ==
        [Loaded(r) EXCEPT !.key = key, !.cfg.providers = ps, !.toTest = keys]
  <2>1. \E key, ps, keys : Put(r, AfterLoad(q(key, ps, keys)))
    BY <1>3 DEF CreateProvider
  <2>2. \A key, ps, keys : /\ Editing(q(key, ps, keys))
                           /\ q(key, ps, keys).kind = req[r].kind
    BY <1>2 DEF Editing, Idle, IsShaped
  <2> HIDE DEF q
  <2> QED BY <1>1, <2>1, <2>2, EditKeeps
<1>4. CASE UpdateProvider(r)
  <2> DEFINE q(p, keys) == [WithProvider(Loaded(r), p) EXCEPT !.toTest = keys]
  <2>1. Done(r) \/ \E p, keys : Put(r, AfterLoad(q(p, keys)))
    BY <1>4 DEF UpdateProvider
  <2>2. \A p, keys : Editing(q(p, keys)) /\ q(p, keys).kind = req[r].kind
    BY <1>2 DEF Editing, Idle, IsShaped, WithProvider
  <2> HIDE DEF q
  <2> QED BY <1>1, <2>1, <2>2, EditKeeps, EndWithoutWrite
<1>5. CASE DeleteProvider(r)
  <2> DEFINE q(ps) == [Loaded(r) EXCEPT !.cfg.providers = ps]
  <2>1. Done(r) \/ \E ps : Put(r, Settled(q(ps), SecretIds))
    BY <1>5 DEF DeleteProvider
  <2>2. \A ps : Editing(q(ps)) /\ q(ps).kind = req[r].kind
    BY <1>2 DEF Editing, Idle, IsShaped
  <2> HIDE DEF q
  <2> QED BY <1>1, <2>1, <2>2, EditKeeps, EndWithoutWrite
<1>6. CASE ApplySettings(r)
  <2> DEFINE cfg == WithDefaultRoute([Loaded(r).cfg EXCEPT !.enabled = Loaded(r).on], SecretIds)
             q(keys) == [Loaded(r) EXCEPT !.cfg = cfg, !.toTest = keys]
  <2>1. Responds(r) \/ \E keys : Put(r, AfterLoad(q(keys)))
    BY <1>6 DEF ApplySettings
  <2>2. IsShaped(cfg)
    BY <1>2, ShapeKept DEF Editing
  <2> HIDE DEF cfg
  <2>3. \A keys : Editing(q(keys)) /\ q(keys).kind = req[r].kind
    BY <1>2, <2>2 DEF Editing, Idle
  <2> HIDE DEF q
  <2> QED BY <1>1, <2>1, <2>3, EditKeeps, EndWithoutWrite
<1>7. CASE SaveDefault(r)
  <2> DEFINE with(all, p) ==
               WithProvider([Loaded(r) EXCEPT !.cfg.providers = all, !.key = p.key], p)
             q(all, p, keys) ==
               [with(all, p) EXCEPT !.cfg = Normalize(@), !.toTest = keys]
  <2>1. Done(r) \/ \E all, p, keys : Put(r, AfterLoad(q(all, p, keys)))
    BY <1>7 DEF SaveDefault
  <2>2. \A all, p, keys : /\ Editing(q(all, p, keys))
                          /\ q(all, p, keys).kind = req[r].kind
    <3>1. \A all, p : Editing(with(all, p)) /\ with(all, p).kind = req[r].kind
      <4> DEFINE new(all, k) == [Loaded(r) EXCEPT !.cfg.providers = all, !.key = k]
      <4>1. \A all, k : Editing(new(all, k)) /\ new(all, k).kind = req[r].kind
        BY <1>2 DEF Editing, Idle, IsShaped
      <4>2. \A all, p : with(all, p) = WithProvider(new(all, p.key), p)
        OBVIOUS
      <4> HIDE DEF new, with
      <4> QED BY <4>1, <4>2, WithProviderEdits
    <3> HIDE DEF with
    <3>2. \A all, p : IsShaped(Normalize(with(all, p).cfg))
      BY <3>1, ShapeKept DEF Editing
    <3> QED BY <3>1, <3>2 DEF Editing, Idle
  <2> HIDE DEF q
  <2> QED BY <1>1, <2>1, <2>2, EditKeeps, EndWithoutWrite
<1>8. CASE ProbeProvider(r)
  BY <1>1, <1>8, EndWithoutWrite DEF ProbeProvider
<1> QED BY <1>3, <1>4, <1>5, <1>6, <1>7, <1>8

\* The connection test, the master key and the secret.
LEMMA SecretsKeep ==
  ASSUME IInv, NEW r \in Requests,
         \/ TestProviders(r) \/ ReadMasterKey(r) \/ WriteMasterKey(r)
         \/ InsertSecret(r) \/ StoreSecret(r)
  PROVE  Preserved /\ (ReadMasterKey(r) \/ WriteMasterKey(r) \/ Unsealed(r))
<1>0. GoodReq(req[r], rows)
  BY DEF IInv, ReqOK
<1>1. CASE TestProviders(r)
  <2>1. req[r].pc = "test" /\ UNCHANGED rows /\ Editing(req[r])
    BY <1>0, <1>1 DEF TestProviders, GoodReq, Works, Editing
  <2>2. Put(r, AfterTest(req[r])) \/ Done(r) \/ Responds(r)
    BY <1>1 DEF TestProviders
  <2> QED BY <2>1, <2>2, EditKeeps, EndWithoutWrite
<1>2. CASE ReadMasterKey(r)
  <2> DEFINE q == IF keyFile = 0
                  THEN [req[r] EXCEPT !.pc = IF @ = "secret" THEN "newkey" ELSE "firstkey"]
                  ELSE [req[r] EXCEPT !.mk = keyFile, !.pc = "seal"]
  <2>1. req[r].pc \in {"secret", "respond"} /\ UNCHANGED rows
    BY <1>2 DEF ReadMasterKey
  <2>2. CASE keyFile # 0 /\ req[r].pc = "respond"
    BY <1>2, <2>1, <2>2, EndWithoutWrite DEF ReadMasterKey
  <2>3. CASE ~(keyFile # 0 /\ req[r].pc = "respond")
    <3>1. req' = [req EXCEPT ![r] = q]
      BY <1>2, <2>3 DEF ReadMasterKey, Put
    <3>2. GoodReq(q, rows) /\ q.kind = req[r].kind
      BY <1>0, <2>1, <2>3 DEF GoodReq, Idle, Hand, Loads, Works
    <3> HIDE DEF q
    <3> QED BY <1>2, <2>1, <3>1, <3>2, StepWithoutWrite
  <2> QED BY <2>2, <2>3
<1>3. CASE WriteMasterKey(r)
  <2> DEFINE q == [req[r] EXCEPT !.mk = keyFile + 1, !.pc = "seal"]
  <2>1. req[r].pc \in {"newkey", "firstkey"} /\ UNCHANGED rows
    BY <1>3 DEF WriteMasterKey
  <2>2. CASE req[r].pc = "firstkey"
    BY <1>3, <2>1, <2>2, EndWithoutWrite DEF WriteMasterKey
  <2>3. CASE req[r].pc = "newkey"
    <3>1. req' = [req EXCEPT ![r] = q]
      BY <1>3, <2>3 DEF WriteMasterKey, Put
    <3>2. GoodReq(q, rows) /\ q.kind = req[r].kind
      BY <1>0, <2>3 DEF GoodReq, Idle, Hand, Loads, Works
    <3> HIDE DEF q
    <3> QED BY <1>3, <2>1, <3>1, <3>2, StepWithoutWrite
  <2> QED BY <2>1, <2>2, <2>3
<1>4. CASE InsertSecret(r)
  <2> DEFINE q(p) == WithProvider([req[r] EXCEPT !.mk = 0], p)
  <2>1. req[r].pc = "seal" /\ req[r].kind # "secret" /\ UNCHANGED rows
    BY <1>4 DEF InsertSecret
  <2>2. \E p, ids : Put(r, Settled(q(p), ids))
    BY <1>4 DEF InsertSecret
  <2>3. \A p : Editing(q(p)) /\ q(p).kind = req[r].kind
    BY <1>0, <2>1 DEF Editing, GoodReq, Works, Idle, IsShaped, WithProvider
  <2> HIDE DEF q
  <2> QED BY <2>1, <2>2, <2>3, EditKeeps
<1>5. CASE StoreSecret(r)
  BY <1>5, EndWithoutWrite DEF StoreSecret
<1> QED BY <1>1, <1>2, <1>3, <1>4, <1>5

LEMMA DraftIsVersion ==
  ASSUME NEW cfg, IsShaped(cfg), NEW val \in Outcomes
  PROVE  /\ IsVersion(Row(StatusFor(val), cfg, val))
         /\ Row(StatusFor(val), cfg, val).status \in {"draft", "failed"}
<1>1. StatusFor(val) \in {"draft", "failed"} /\ StatusFor(val) \in Statuses
  BY DEF StatusFor, Statuses
<1>2. ASSUME NEW status \in Statuses
      PROVE  IsVersion(Row(status, cfg, val)) /\ Row(status, cfg, val).status = status
  BY RowIsVersion
<1> QED BY <1>1, <1>2

\* saveEditableAIConfig.
LEMMA SavesKeep ==
  ASSUME IInv, NEW r \in Requests,
         UpdateEditable(r) \/ ReadMaxVersion(r) \/ InsertDraft(r)
  PROVE  Preserved /\ Unsealed(r)
<1>0. /\ GoodReq(req[r], rows) /\ RowsOK(rows) /\ SomeActive(rows) /\ Kept(rows, rows)
      /\ IsShaped(req[r].cfg) /\ req[r].val \in Outcomes
  BY KeptSame DEF IInv, ReqOK, GoodReq
<1>1. CASE UpdateEditable(r)
  <2> DEFINE v == req[r].ver
             row == Row(StatusFor(req[r].val), req[r].cfg, req[r].val)
  <2>1. req[r].pc = "update" /\ (Done(r) \/ Responds(r)) /\ v \in DOMAIN rows
    BY <1>0, <1>1 DEF UpdateEditable, Written, GoodReq
  <2>2. rows' = IF rows[v].status \in {"draft", "failed"}
                THEN [rows EXCEPT ![v] = row] ELSE rows
    BY <1>1 DEF UpdateEditable
  <2>3. IsVersion(row) /\ row.status \in {"draft", "failed"}
    BY <1>0, DraftIsVersion
  <2> HIDE DEF v, row
  <2>4. Kept(rows, rows') /\ SomeActive(rows')
    BY <1>0, <2>1, <2>2, <2>3, RewriteRow
  <2> QED BY <2>1, <2>4, EndKeeps
<1>2. CASE ReadMaxVersion(r)
  <2> DEFINE q == [req[r] EXCEPT !.seen = Len(rows), !.pc = "insert"]
  <2>1. req' = [req EXCEPT ![r] = q] /\ UNCHANGED rows /\ req[r].pc = "max"
    BY <1>2 DEF ReadMaxVersion, Put
  <2>2. GoodReq(q, rows) /\ q.kind = req[r].kind /\ q.pc \notin Sealing
    BY <1>0, <2>1 DEF GoodReq, Idle, Hand, Loads, Works, Sealing
  <2> HIDE DEF q
  <2> QED BY <2>1, <2>2, StepWithoutWrite
<1>3. CASE InsertDraft(r)
  <2>1. req[r].pc = "insert" /\ DOMAIN rows # {}
    BY <1>0, <1>3 DEF InsertDraft, GoodReq, Works
  <2>2. CASE Len(rows) = req[r].seen
    <3> DEFINE row == Row(StatusFor(req[r].val), req[r].cfg, req[r].val)
    <3>1. rows' = Append(rows, row) /\ (Done(r) \/ Responds(r))
      BY <1>3, <2>2 DEF InsertDraft, Written
    <3>2. IsVersion(row) /\ row.status # "active"
      BY <1>0, DraftIsVersion
    <3> HIDE DEF row
    <3>3. Kept(rows, rows') /\ SomeActive(rows')
      BY <1>0, <2>1, <3>1, <3>2, InsertRow
    <3> QED BY <2>1, <3>1, <3>3, EndKeeps
  <2>3. CASE Len(rows) # req[r].seen
    BY <1>3, <2>1, <2>3, EndWithoutWrite DEF InsertDraft
  <2> QED BY <2>2, <2>3
<1> QED BY <1>1, <1>2, <1>3

\* publishAIConfig and publishAIEnabled.
LEMMA PublishingKeeps ==
  ASSUME IInv, NEW r \in Requests, Publish(r) \/ PublishDisabled(r)
  PROVE  Preserved /\ Unsealed(r)
<1>0. /\ GoodReq(req[r], rows) /\ RowsOK(rows) /\ Kept(rows, rows)
      /\ IsShaped(req[r].cfg)
  BY KeptSame DEF IInv, ReqOK, GoodReq
<1>1. req[r].pc = "publish" /\ Responds(r)
  BY DEF Publish, PublishDisabled
<1>2. CASE Publish(r)
  <2> DEFINE draft == Row("draft", req[r].cfg, "pass")
             v == IF req[r].hasEd THEN req[r].ver ELSE Len(rows) + 1
             stored == IF ~req[r].hasEd THEN Append(rows, draft)
                       ELSE IF rows[v].status \in {"draft", "failed"}
                       THEN [rows EXCEPT ![v] = draft]
                       ELSE rows
  <2>1. rows' = [Superseded(stored) EXCEPT ![v].status = "active"]
    BY <1>2 DEF Publish
  <2>2. IsVersion(draft) /\ draft.status = "draft"
    <3>1. "draft" \in Statuses /\ "pass" \in Outcomes
      BY DEF Statuses, Outcomes
    <3> QED BY <1>0, <3>1, RowIsVersion
  <2> HIDE DEF draft
  <2>3. Kept(rows, stored) /\ v \in DOMAIN stored
    <3>1. CASE ~req[r].hasEd
      BY <1>0, <2>2, <3>1, InsertRow
    <3>2. CASE req[r].hasEd
      <4>1. v \in DOMAIN rows
        BY <1>0, <3>2 DEF GoodReq
      <4>2. CASE rows[v].status \in {"draft", "failed"}
        <5> HIDE DEF v
        <5>1. stored = [rows EXCEPT ![v] = draft]
          BY <3>2, <4>2
        <5> HIDE DEF stored
        <5> QED BY <1>0, <2>2, <4>1, <4>2, <5>1, RewriteRow
      <4>3. CASE rows[v].status \notin {"draft", "failed"}
        BY <1>0, <3>2, <4>1, <4>3
      <4> QED BY <4>2, <4>3
    <3> QED BY <3>1, <3>2
  <2> HIDE DEF v, stored
  <2>4. Kept(stored, rows') /\ SomeActive(rows')
    BY <2>1, <2>3, ActivateRow DEF Kept
  <2>5. Kept(rows, rows')
    BY <2>3, <2>4, KeptTrans
  <2> QED BY <1>1, <2>4, <2>5, EndKeeps
<1>3. CASE PublishDisabled(r)
  <2> DEFINE cfg == Normalize(req[r].cfg)
             row == Row("active", [cfg EXCEPT !.enabled = FALSE], "pass")
  <2>1. rows' = Append(Superseded(rows), row)
    BY <1>3 DEF PublishDisabled
  <2>2. IsVersion(row) /\ row.status = "active"
    <3>1. "active" \in Statuses /\ "pass" \in Outcomes
      BY DEF Statuses, Outcomes
    <3>2. IsShaped(cfg)
      BY <1>0, ShapeKept
    <3> HIDE DEF cfg
    <3>3. IsShaped([cfg EXCEPT !.enabled = FALSE])
      BY <3>2, ShapeKept
    <3> QED BY <3>1, <3>3, RowIsVersion
  <2> HIDE DEF row
  <2>3. Kept(rows, rows') /\ SomeActive(rows')
    BY <1>0, <2>1, <2>2, AppendActive
  <2> QED BY <1>1, <2>3, EndKeeps
<1> QED BY <1>2, <1>3

LEMMA RestampedIsVersion ==
  ASSUME NEW row, IsVersion(row), NEW val \in Outcomes, NEW status \in {"draft", "failed"}
  PROVE  /\ IsVersion([row EXCEPT !.val = val])
         /\ IsVersion([row EXCEPT !.status = status])
         /\ [row EXCEPT !.status = status].status = status
<1>1. /\ row = [status |-> row.status, cfg |-> row.cfg, val |-> row.val]
      /\ IsShaped(row.cfg) /\ row.val \in Outcomes
  BY DEF IsVersion
<1>2. [row EXCEPT !.val = val] = [status |-> row.status, cfg |-> row.cfg, val |-> val]
  BY <1>1
<1>3. [row EXCEPT !.status = status] = [status |-> status, cfg |-> row.cfg, val |-> row.val]
  BY <1>1
<1>4. row.status \in Statuses /\ status \in Statuses
  BY DEF IsVersion, Statuses
<1> QED BY <1>1, <1>2, <1>3, <1>4 DEF IsVersion

\* The draft API, whose statements do not look at the status they overwrite:
\* nobody else has published the version, since the request is alone.
LEMMA DraftApiKeeps ==
  ASSUME IInv, NEW r \in Requests,
         \/ ReadVersion(r) \/ OverwriteDraft(r) \/ StampValidation(r)
         \/ RereadValidation(r) \/ ActivateDraft(r)
  PROVE  Preserved /\ Unsealed(r)
<1> DEFINE v == req[r].ver
<1>0. /\ GoodReq(req[r], rows) /\ RowsOK(rows) /\ SomeActive(rows)
      /\ IsShaped(req[r].cfg) /\ req[r].val \in Outcomes
  BY DEF IInv, ReqOK, GoodReq
<1>1. req[r].pc \in Hand /\ v \in DOMAIN rows /\ req[r].kind \in ExpertKinds
  BY <1>0 DEF ReadVersion, OverwriteDraft, StampValidation, RereadValidation,
     ActivateDraft, GoodReq, Hand
<1>2. req[r].pc # "idle"
  BY <1>1 DEF Hand
<1>3. CASE ReadVersion(r)
  <2>1. CASE ~Editable(v)
    BY <1>2, <1>3, <2>1, EndWithoutWrite DEF ReadVersion
  <2>2. CASE Editable(v)
    <3>1. PICK q : /\ req' = [req EXCEPT ![r] = q] /\ DOMAIN q = DOMAIN Idle
                   /\ q.pc \in {"overwrite", "stamp"} /\ q.kind = req[r].kind
                   /\ q.ver = v /\ q.hasEd = req[r].hasEd
                   /\ q.cfg = req[r].cfg /\ q.on = req[r].on /\ q.val \in Outcomes
      <4> DEFINE stamped(val) == [req[r] EXCEPT !.pc = "stamp", !.val = val]
                 over == [req[r] EXCEPT !.pc = "overwrite"]
      <4>1. req' = [req EXCEPT ![r] = over] \/ \E val \in Outcomes : req' = [req EXCEPT ![r] = stamped(val)]
        BY <1>3, <2>2 DEF ReadVersion, Goto, Put, IInv, ReqOK, Outcomes
      <4>2. /\ DOMAIN over = DOMAIN Idle /\ over.pc = "overwrite"
            /\ over.kind = req[r].kind /\ over.ver = v /\ over.hasEd = req[r].hasEd
            /\ over.cfg = req[r].cfg /\ over.on = req[r].on /\ over.val = req[r].val
        BY <1>0 DEF GoodReq, Idle
      <4>3. \A val : /\ DOMAIN stamped(val) = DOMAIN Idle /\ stamped(val).pc = "stamp"
                     /\ stamped(val).kind = req[r].kind /\ stamped(val).ver = v
                     /\ stamped(val).hasEd = req[r].hasEd
                     /\ stamped(val).cfg = req[r].cfg /\ stamped(val).on = req[r].on
                     /\ stamped(val).val = val
        BY <1>0 DEF GoodReq, Idle
      <4> HIDE DEF over, stamped
      <4> QED BY <1>0, <4>1, <4>2, <4>3
    <3>2. GoodReq(q, rows)
      BY <1>0, <1>1, <2>2, <3>1 DEF GoodReq, Editable, Hand, Loads, Works, ExpertKinds
    <3>3. UNCHANGED rows
      BY <1>3 DEF ReadVersion
    <3> QED BY <1>2, <3>1, <3>2, <3>3, StepWithoutWrite DEF Sealing
  <2> QED BY <2>1, <2>2
<1>4. CASE OverwriteDraft(r)
  <2> DEFINE row == Row("draft", req[r].cfg, "not_run")
  <2>1. rows' = [rows EXCEPT ![v] = row] /\ Done(r)
    BY <1>4 DEF OverwriteDraft
  <2>2. IsVersion(row) /\ row.status = "draft"
    <3>1. "draft" \in Statuses /\ "not_run" \in Outcomes
      BY DEF Statuses, Outcomes
    <3> QED BY <1>0, <3>1, RowIsVersion
  <2>3. rows[v].status \in {"draft", "failed"}
    BY <1>0, <1>4 DEF OverwriteDraft, GoodReq
  <2> HIDE DEF row, v
  <2>4. Kept(rows, rows') /\ SomeActive(rows')
    BY <1>0, <1>1, <2>1, <2>2, <2>3, RewriteRow
  <2> QED BY <1>2, <2>1, <2>4, EndKeeps
<1>5. CASE StampValidation(r)
  <2> DEFINE row == [rows[v] EXCEPT !.val = req[r].val, !.status = StatusFor(req[r].val)]
  <2>1. rows' = [rows EXCEPT ![v] = row]
    BY <1>5 DEF StampValidation
  <2>2. IsVersion(row) /\ row.status \in {"draft", "failed"}
    <3>1. IsVersion(rows[v])
      BY <1>0, <1>1 DEF RowsOK
    <3>2. StatusFor(req[r].val) \in {"draft", "failed"}
      BY DEF StatusFor
    <3> DEFINE mid == [rows[v] EXCEPT !.val = req[r].val]
    <3>3. IsVersion(mid)
      BY <1>0, <3>1, <3>2, RestampedIsVersion
    <3>4. row = [mid EXCEPT !.status = StatusFor(req[r].val)]
      OBVIOUS
    <3> HIDE DEF mid, row
    <3> QED BY <1>0, <3>2, <3>3, <3>4, RestampedIsVersion
  <2>3. rows[v].status \in {"draft", "failed"}
    BY <1>0, <1>5 DEF StampValidation, GoodReq
  <2> HIDE DEF row, v
  <2>4. /\ Kept(rows, rows') /\ SomeActive(rows')
        /\ DOMAIN rows' = DOMAIN rows
    BY <1>0, <1>1, <2>1, <2>2, <2>3, RewriteRow
  <2>5. CASE Done(r)
    BY <1>2, <2>4, <2>5, EndKeeps
  <2>6. CASE ~Done(r)
    <3> DEFINE q == [req[r] EXCEPT !.pc = "recheck"]
    <3>1. req' = [req EXCEPT ![r] = q]
      BY <1>5, <2>6 DEF StampValidation, Goto, IInv, ReqOK
    <3>2. GoodReq(q, rows') /\ q.kind = req[r].kind /\ q.pc \notin Sealing
      BY <1>0, <1>1, <2>4 DEF GoodReq, Idle, Hand, Loads, Works, Sealing, v
    <3> HIDE DEF q
    <3> QED BY <1>2, <2>4, <3>1, <3>2, StepKeeps
  <2> QED BY <2>5, <2>6
<1>6. CASE RereadValidation(r)
  <2>1. CASE Done(r)
    BY <1>2, <1>6, <2>1, EndWithoutWrite DEF RereadValidation
  <2>2. CASE ~Done(r)
    <3>1. GoodReq([req[r] EXCEPT !.pc = "activate"], rows)
      BY <1>0, <1>1 DEF GoodReq, Idle, Hand, Loads, Works
    <3> QED BY <1>2, <1>6, <2>2, <3>1, GoesOn DEF RereadValidation, Sealing
  <2> QED BY <2>1, <2>2
<1>7. CASE ActivateDraft(r)
  <2>1. rows' = [Superseded(rows) EXCEPT ![v].status = "active"] /\ Done(r)
    BY <1>7 DEF ActivateDraft
  <2> HIDE DEF v
  <2>2. Kept(rows, rows') /\ SomeActive(rows')
    BY <1>0, <1>1, <2>1, ActivateRow
  <2> QED BY <1>2, <2>1, <2>2, EndKeeps
<1> QED BY <1>3, <1>4, <1>5, <1>6, <1>7

-----------------------------------------------------------------------------
(* The theorems.                                                            *)

Steps(r) ==
    \/ ReadActive(r) \/ InsertDefault(r) \/ RereadActive(r) \/ ReadActiveVersion(r)
    \/ CreateProvider(r) \/ UpdateProvider(r) \/ DeleteProvider(r)
    \/ ApplySettings(r) \/ SaveDefault(r) \/ ProbeProvider(r)
    \/ TestProviders(r) \/ ReadMasterKey(r) \/ WriteMasterKey(r)
    \/ InsertSecret(r) \/ StoreSecret(r)
    \/ UpdateEditable(r) \/ ReadMaxVersion(r) \/ InsertDraft(r)
    \/ Publish(r) \/ PublishDisabled(r)
    \/ ReadVersion(r) \/ OverwriteDraft(r) \/ StampValidation(r)
    \/ RereadValidation(r) \/ ActivateDraft(r)

LEMMA InitIInv == Init => IInv
<1> SUFFICES ASSUME Init PROVE IInv
  OBVIOUS
<1>1. ReqOK
  BY IdleIsGood DEF Init, ReqOK, Alone
<1>2. CASE rows = <<>>
  <2>1. rows \in [1..0 -> {}] /\ DOMAIN rows = {}
    BY <1>2
  <2>2. RowsOK(rows)
    BY <2>1, FunctionIsSequence DEF RowsOK
  <2> QED BY <1>1, <2>1, <2>2 DEF IInv, SomeActive
<1>3. CASE rows # <<>>
  <2>1. PICK q \in Served :
          rows = <<[Row("active", DefaultConfig, "pass") EXCEPT !.status = "superseded"],
                   Row("active", [enabled |-> TRUE, providers |-> <<q>>,
                                  route |-> <<q.key>>], "pass")>>
    BY <1>3 DEF Init
  <2> DEFINE old == [Row("active", DefaultConfig, "pass") EXCEPT !.status = "superseded"]
             new == Row("active", [enabled |-> TRUE, providers |-> <<q>>,
                                   route |-> <<q.key>>], "pass")
  <2>2. /\ IsVersion(old) /\ old.status = "superseded"
        /\ IsVersion(new) /\ new.status = "active"
    <3>1. "active" \in Statuses /\ "pass" \in Outcomes
      BY DEF Statuses, Outcomes
    <3>2. IsVersion(old) /\ old.status = "superseded"
      BY <3>1, RowIsVersion, DefaultIsShaped
    <3>3. IsVersion(new) /\ new.status = "active"
      <4>1. IsShaped([enabled |-> TRUE, providers |-> <<q>>, route |-> <<q.key>>])
        BY DEF IsShaped
      <4> QED BY <3>1, <4>1, RowIsVersion
    <3> QED BY <3>2, <3>3
  <2>3. rows = <<old, new>>
    BY <2>1
  <2> HIDE DEF old, new
  <2>4. rows \in [1..2 -> {old, new}] /\ DOMAIN rows = {1, 2} /\ rows[1] = old /\ rows[2] = new
    BY <2>3
  <2>5. RowsOK(rows)
    BY <2>2, <2>4, FunctionIsSequence DEF RowsOK
  <2>6. OnlyActive(rows, 2)
    BY <2>2, <2>4 DEF OnlyActive
  <2> QED BY <1>1, <2>4, <2>5, <2>6 DEF IInv, SomeActive
<1> QED BY <1>2, <1>3

LEMMA StepPreserves ==
  ASSUME ExpertAlone, IInv, [Next]_vars
  PROVE  Preserved
<1>1. CASE UNCHANGED vars
  BY <1>1, KeptSame DEF vars, IInv, ReqOK, Alone, Preserved
<1>2. ASSUME NEW r \in Requests, Arrivals(r) PROVE Preserved
  BY <1>2, ArrivesGood, ArrivalKeeps DEF GoodArrival
<1>3. ASSUME NEW r \in Requests, Steps(r) PROVE Preserved
  BY <1>3, LoadingKeeps, SettingsKeep, SecretsKeep, SavesKeep, PublishingKeeps,
     DraftApiKeeps DEF Steps
<1>4. CASE Next
  <2>1. PICK r \in Requests : Arrivals(r) \/ Steps(r)
    BY <1>4 DEF Next, Arrivals, Steps
  <2> QED BY <1>2, <1>3, <2>1
<1> QED BY <1>1, <1>4

LEMMA SpecIInv == ExpertAlone => (Spec => []IInv)
<1> SUFFICES ASSUME ExpertAlone PROVE Spec => []IInv
  OBVIOUS
<1>1. IInv /\ [Next]_vars => IInv'
  BY StepPreserves DEF Preserved
<1> QED BY <1>1, InitIInv, PTL DEF Spec

-----------------------------------------------------------------------------
(* Master keys and secrets.                                                 *)

\* Every secret is sealed with a key that was in the file; a request about to
\* store one holds such a key.
KeysOK ==
    /\ keyFile \in Nat /\ arrivals \in 0..MaxArrivals
    /\ secrets \in Seq(1..keyFile)
    /\ byHand \subseteq DOMAIN rows
    /\ \A r \in Requests : /\ req[r].pc = "seal" => req[r].mk \in 1..keyFile
                           /\ req[r].kind = "secret" => req[r].ver \in {0} \cup DOMAIN secrets

LEMMA SecretList ==
  ASSUME NEW n \in Nat, NEW list \in Seq(1..n)
  PROVE  /\ Len(list) \in Nat /\ DOMAIN list = 1..Len(list)
         /\ \A i \in DOMAIN list : list[i] \in 1..n
         /\ list \in Seq(1..(n + 1))
         /\ \A k \in 1..n : /\ Append(list, k) \in Seq(1..n)
                            /\ DOMAIN list \subseteq DOMAIN Append(list, k)
                            /\ \A i \in DOMAIN list : [list EXCEPT ![i] = k] \in Seq(1..n)
<1>1. /\ Len(list) \in Nat /\ DOMAIN list = 1..Len(list)
      /\ list \in [1..Len(list) -> 1..n]
  BY LenProperties
<1>2. list \in Seq(1..(n + 1))
  <2>1. list \in [1..Len(list) -> 1..(n + 1)]
    BY <1>1
  <2> QED BY <1>1, <2>1, SeqDef
<1>3. ASSUME NEW k \in 1..n
      PROVE  /\ Append(list, k) \in Seq(1..n)
             /\ DOMAIN list \subseteq DOMAIN Append(list, k)
             /\ \A i \in DOMAIN list : [list EXCEPT ![i] = k] \in Seq(1..n)
  <2>1. /\ Append(list, k) \in Seq(1..n)
        /\ DOMAIN Append(list, k) = 1..(Len(list) + 1)
    BY <1>1, AppendProperties, LenProperties
  <2>2. ASSUME NEW i \in DOMAIN list PROVE [list EXCEPT ![i] = k] \in Seq(1..n)
    <3>1. [list EXCEPT ![i] = k] \in [1..Len(list) -> 1..n]
      BY <1>1
    <3> QED BY <1>1, <3>1, SeqDef
  <2> QED BY <1>1, <2>1, <2>2
<1> QED BY <1>1, <1>2, <1>3

\* Statements that leave the secrets alone.
LEMMA KeysKept ==
  ASSUME KeysOK, NEW r \in Requests, Unsealed(r),
         UNCHANGED <<secrets, keyFile, arrivals>>, DOMAIN rows \subseteq DOMAIN rows',
         byHand' \subseteq DOMAIN rows',
         \A o \in Requests : o # r => req'[o] = req[o]
  PROVE  KeysOK'
BY DEF KeysOK, Unsealed

LEMMA OthersStay ==
  ASSUME IInv, NEW r \in Requests, Steps(r)
  PROVE  \E q : req' = [req EXCEPT ![r] = q] /\ req'[r] = q
<1>1. DOMAIN req = Requests
  BY DEF IInv, ReqOK
<1> DEFINE Moves == \E q : req' = [req EXCEPT ![r] = q]
<1>2. /\ \A q : Put(r, q) => Moves
      /\ \A pc : Goto(r, pc) => Moves
      /\ Done(r) => Moves
      /\ Responds(r) => Moves
  BY <1>1 DEF Put, Goto, Done, Responds
<1> HIDE DEF Moves
<1>3. Moves
  <2>1. CASE \/ ReadActive(r) \/ InsertDefault(r) \/ RereadActive(r) \/ ReadActiveVersion(r)
             \/ ProbeProvider(r) \/ ReadMasterKey(r) \/ WriteMasterKey(r)
             \/ StoreSecret(r) \/ InsertSecret(r)
    BY <1>2, <2>1 DEF ReadActive, InsertDefault, RereadActive, ReadActiveVersion, Ensured,
       ProbeProvider, ReadMasterKey, WriteMasterKey, StoreSecret, InsertSecret
  <2>2. CASE \/ CreateProvider(r) \/ UpdateProvider(r) \/ DeleteProvider(r)
             \/ ApplySettings(r) \/ SaveDefault(r) \/ TestProviders(r)
    BY <1>2, <2>2 DEF CreateProvider, UpdateProvider, DeleteProvider, ApplySettings,
       SaveDefault, TestProviders
  <2>3. CASE \/ UpdateEditable(r) \/ ReadMaxVersion(r) \/ InsertDraft(r)
             \/ Publish(r) \/ PublishDisabled(r)
             \/ ReadVersion(r) \/ OverwriteDraft(r) \/ StampValidation(r)
             \/ RereadValidation(r) \/ ActivateDraft(r)
    BY <1>2, <2>3 DEF UpdateEditable, ReadMaxVersion, InsertDraft, Written, Publish,
       PublishDisabled, ReadVersion, OverwriteDraft, StampValidation, RereadValidation,
       ActivateDraft
  <2> QED BY <2>1, <2>2, <2>3 DEF Steps
<1> QED BY <1>1, <1>3 DEF Moves

LEMMA InitKeys == Init => KeysOK
<1> SUFFICES ASSUME Init PROVE KeysOK
  OBVIOUS
<1>1. arrivals \in 0..MaxArrivals /\ byHand = {}
  BY InputAssumption DEF Init
<1>2. \A r \in Requests : req[r].pc = "idle" /\ req[r].kind = "none"
  BY DEF Init, Idle
<1>3. keyFile \in Nat /\ secrets \in Seq(1..keyFile)
  <2>1. CASE secrets = <<>> /\ keyFile \in {0, 1}
    BY <2>1
  <2>2. CASE secrets = <<1>> /\ keyFile = 1
    <3>1. 1 \in 1..keyFile
      BY <2>2
    <3> QED BY <2>2, <3>1
  <2> QED BY <2>1, <2>2 DEF Init
<1> QED BY <1>1, <1>2, <1>3 DEF KeysOK

LEMMA KeysStep ==
  ASSUME ExpertAlone, IInv, KeysOK, [Next]_vars
  PROVE  KeysOK'
<1>0. IInv' /\ DOMAIN rows \subseteq DOMAIN rows'
  BY StepPreserves DEF Preserved, Kept
<1>1. CASE UNCHANGED vars
  BY <1>1 DEF vars, KeysOK
<1>3. ASSUME NEW r \in Requests, Arrivals(r) PROVE KeysOK'
  <2>1. PICK body : Arrive(r, body) /\ GoodArrival(body)
    BY <1>3, ArrivesGood
  <2>2. /\ UNCHANGED <<rows, secrets, keyFile, byHand>> /\ arrivals' = arrivals + 1
        /\ arrivals < MaxArrivals
        /\ req' = [req EXCEPT ![r] = body]
    BY <2>1 DEF Arrive, Free
  <2>3. req'[r] = body /\ \A o \in Requests : o # r => req'[o] = req[o]
    BY <2>2 DEF IInv, ReqOK
  <2>4. arrivals' \in 0..MaxArrivals
    BY <2>2, InputAssumption DEF KeysOK
  <2> QED BY <2>1, <2>2, <2>3, <2>4 DEF KeysOK, GoodArrival
<1>4. ASSUME NEW r \in Requests, Steps(r) PROVE KeysOK'
  <2>1. PICK q : req' = [req EXCEPT ![r] = q] /\ req'[r] = q
    BY <1>4, OthersStay
  <2>2. \A o \in Requests : o # r => req'[o] = req[o]
    BY <2>1
  <2>3. GoodReq(req[r], rows) /\ DOMAIN req[r] = DOMAIN Idle
    BY DEF IInv, ReqOK, GoodReq
  <2>4. CASE ReadMasterKey(r)
    <3>1. UNCHANGED <<rows, secrets, keyFile, arrivals, byHand>>
      BY <2>4 DEF ReadMasterKey
    <3>2. /\ req'[r].pc = "seal" => req'[r].mk = keyFile /\ keyFile # 0
          /\ req'[r].kind = "secret" => req[r].kind = "secret" /\ req'[r].ver = req[r].ver
      <4>1. CASE req' = [req EXCEPT ![r] = Idle]
        BY <4>1 DEF Idle, IInv, ReqOK
      <4>2. CASE /\ keyFile # 0
                 /\ req' = [req EXCEPT ![r] = [req[r] EXCEPT !.mk = keyFile, !.pc = "seal"]]
        BY <2>3, <4>2 DEF Idle, IInv, ReqOK
      <4>3. CASE \E pc \in {"newkey", "firstkey"} :
                   req' = [req EXCEPT ![r] = [req[r] EXCEPT !.pc = pc]]
        BY <2>3, <4>3 DEF Idle, IInv, ReqOK
      <4> QED BY <2>4, <4>1, <4>2, <4>3 DEF ReadMasterKey, Done, Put
    <3> QED BY <2>2, <3>1, <3>2 DEF KeysOK
  <2>5. CASE WriteMasterKey(r)
    <3>1. UNCHANGED <<rows, secrets, arrivals, byHand>> /\ keyFile' = keyFile + 1
      BY <2>5 DEF WriteMasterKey
    <3>2. /\ req'[r].pc = "seal" => req'[r].mk = keyFile + 1
          /\ req'[r].kind = "secret" => req[r].kind = "secret" /\ req'[r].ver = req[r].ver
      <4>1. CASE req' = [req EXCEPT ![r] = Idle]
        BY <4>1 DEF Idle, IInv, ReqOK
      <4>2. CASE req' = [req EXCEPT ![r] = [req[r] EXCEPT !.mk = keyFile + 1, !.pc = "seal"]]
        BY <2>3, <4>2 DEF Idle, IInv, ReqOK
      <4> QED BY <2>5, <4>1, <4>2 DEF WriteMasterKey, Done, Put
    <3>3. keyFile' \in Nat /\ secrets' \in Seq(1..keyFile') /\ keyFile + 1 \in 1..keyFile'
      BY <3>1, SecretList DEF KeysOK
    <3>4. \A o \in Requests : req[o].pc = "seal" => req[o].mk \in 1..keyFile'
      BY <3>1 DEF KeysOK
    <3> QED BY <2>2, <3>1, <3>2, <3>3, <3>4 DEF KeysOK
  <2>6. CASE InsertSecret(r)
    <3>1. /\ UNCHANGED <<rows, keyFile, arrivals, byHand>>
          /\ secrets' = Append(secrets, req[r].mk)
          /\ req[r].pc = "seal" /\ req[r].kind # "secret"
      BY <2>6 DEF InsertSecret
    <3>2. secrets' \in Seq(1..keyFile) /\ DOMAIN secrets \subseteq DOMAIN secrets'
      BY <3>1, SecretList DEF KeysOK
    <3>3. Unsealed(r)
      BY <2>6, <3>1, SecretsKeep DEF ReadMasterKey, WriteMasterKey
    <3> QED BY <2>2, <3>1, <3>2, <3>3 DEF KeysOK, Unsealed
  <2>7. CASE StoreSecret(r)
    <3>1. /\ UNCHANGED <<rows, keyFile, arrivals, byHand>>
          /\ secrets' = IF req[r].ver = 0 THEN Append(secrets, req[r].mk)
                        ELSE [secrets EXCEPT ![req[r].ver] = req[r].mk]
          /\ req[r].pc = "seal" /\ req[r].kind = "secret"
      BY <2>7 DEF StoreSecret
    <3>2. secrets' \in Seq(1..keyFile) /\ DOMAIN secrets \subseteq DOMAIN secrets'
      BY <3>1, SecretList DEF KeysOK
    <3>3. req'[r].pc = "idle" /\ req'[r].kind = "none"
      BY <2>7 DEF StoreSecret, Done, Put, IInv, ReqOK, Idle
    <3> QED BY <2>2, <3>1, <3>2, <3>3 DEF KeysOK
  <2>8. CASE ~(ReadMasterKey(r) \/ WriteMasterKey(r) \/ InsertSecret(r) \/ StoreSecret(r))
    <3>1. Unsealed(r)
      BY <1>4, <2>8, LoadingKeeps, SettingsKeep, SecretsKeep, SavesKeep, PublishingKeeps,
         DraftApiKeeps DEF Steps
    <3>2. UNCHANGED <<secrets, keyFile, arrivals>>
      <4>1. CASE \/ ReadActive(r) \/ InsertDefault(r) \/ RereadActive(r)
                 \/ ReadActiveVersion(r) \/ ProbeProvider(r)
                 \/ CreateProvider(r) \/ UpdateProvider(r) \/ DeleteProvider(r)
                 \/ ApplySettings(r) \/ SaveDefault(r) \/ TestProviders(r)
        BY <4>1 DEF ReadActive, InsertDefault, RereadActive, ReadActiveVersion,
           ProbeProvider, CreateProvider, UpdateProvider, DeleteProvider, ApplySettings,
           SaveDefault, TestProviders
      <4>2. CASE \/ UpdateEditable(r) \/ ReadMaxVersion(r) \/ InsertDraft(r)
                 \/ Publish(r) \/ PublishDisabled(r)
                 \/ ReadVersion(r) \/ OverwriteDraft(r) \/ StampValidation(r)
                 \/ RereadValidation(r) \/ ActivateDraft(r)
        BY <4>2 DEF UpdateEditable, ReadMaxVersion, InsertDraft, Publish, PublishDisabled,
           ReadVersion, OverwriteDraft, StampValidation, RereadValidation, ActivateDraft
      <4> QED BY <1>4, <2>8, <4>1, <4>2 DEF Steps
    <3>3. byHand' \subseteq DOMAIN rows'
      <4>1. CASE ActivateDraft(r)
        BY <1>0, <2>3, <4>1 DEF ActivateDraft, GoodReq, Hand, KeysOK
      <4>2. CASE ~ActivateDraft(r)
        <5>1. UNCHANGED byHand
          <6>1. CASE \/ ReadActive(r) \/ InsertDefault(r) \/ RereadActive(r)
                     \/ ReadActiveVersion(r) \/ ProbeProvider(r)
                     \/ CreateProvider(r) \/ UpdateProvider(r) \/ DeleteProvider(r)
                     \/ ApplySettings(r) \/ SaveDefault(r) \/ TestProviders(r)
            BY <6>1 DEF ReadActive, InsertDefault, RereadActive, ReadActiveVersion,
               ProbeProvider, CreateProvider, UpdateProvider, DeleteProvider,
               ApplySettings, SaveDefault, TestProviders
          <6>2. CASE \/ UpdateEditable(r) \/ ReadMaxVersion(r) \/ InsertDraft(r)
                     \/ Publish(r) \/ PublishDisabled(r)
                     \/ ReadVersion(r) \/ OverwriteDraft(r) \/ StampValidation(r)
                     \/ RereadValidation(r)
            BY <6>2 DEF UpdateEditable, ReadMaxVersion, InsertDraft, Publish,
               PublishDisabled, ReadVersion, OverwriteDraft, StampValidation,
               RereadValidation
          <6> QED BY <1>4, <2>8, <4>2, <6>1, <6>2 DEF Steps
        <5> QED BY <1>0, <5>1 DEF KeysOK
      <4> QED BY <4>1, <4>2
    <3> QED BY <1>0, <2>2, <3>1, <3>2, <3>3, KeysKept
  <2> QED BY <2>4, <2>5, <2>6, <2>7, <2>8
<1>5. CASE Next
  <2>1. PICK r \in Requests : Arrivals(r) \/ Steps(r)
    BY <1>5 DEF Next, Arrivals, Steps
  <2> QED BY <1>3, <1>4, <2>1
<1> QED BY <1>1, <1>5

LEMMA SpecKeys == ExpertAlone => (Spec => [](IInv /\ KeysOK))
<1> SUFFICES ASSUME ExpertAlone PROVE Spec => [](IInv /\ KeysOK)
  OBVIOUS
<1>1. IInv /\ KeysOK /\ [Next]_vars => IInv' /\ KeysOK'
  BY StepPreserves, KeysStep DEF Preserved
<1> QED BY <1>1, InitIInv, InitKeys, PTL DEF Spec

(***************************************************************************)
(* Every row has a status, a configuration and an outcome of the code,     *)
(* every secret is sealed with a key that was in the file, and requests    *)
(* hold versions and secrets that exist.                                   *)
(***************************************************************************)
THEOREM TypeCorrect == ExpertAlone => (Spec => []TypeOK)
<1> SUFFICES ASSUME ExpertAlone PROVE Spec => []TypeOK
  OBVIOUS
<1>1. IInv /\ KeysOK => TypeOK
  <2> SUFFICES ASSUME IInv, KeysOK PROVE TypeOK
    OBVIOUS
  <2>1. ASSUME NEW v \in Versions
        PROVE  /\ rows[v].status \in Statuses /\ rows[v].cfg.enabled \in BOOLEAN
               /\ rows[v].val \in {"not_run", "pass", "fail"}
    BY DEF IInv, RowsOK, IsVersion, IsShaped, Outcomes, Versions
  <2>2. ASSUME NEW r \in Requests PROVE req[r].ver \in {0} \cup Versions \cup SecretIds
    BY DEF IInv, ReqOK, GoodReq, KeysOK, Versions, SecretIds
  <2>3. \A id \in SecretIds : secrets[id] \in 1..keyFile
    BY SecretList DEF KeysOK, SecretIds
  <2> QED BY <2>1, <2>2, <2>3 DEF TypeOK, KeysOK, Versions
<1> QED BY <1>1, SpecKeys, PTL

(***************************************************************************)
(* Once there is a version, exactly one is active, whichever settings      *)
(* requests edit, apply, disable and make the first default at the same    *)
(* time.                                                                   *)
(***************************************************************************)
THEOREM OneVersionIsActive == ExpertAlone => (Spec => []OneActive)
<1> SUFFICES ASSUME ExpertAlone PROVE Spec => []OneActive
  OBVIOUS
<1>1. IInv => OneActive
  <2> SUFFICES ASSUME IInv, rows # <<>>
               PROVE  Cardinality(WithStatus({"active"})) = 1
    BY DEF OneActive
  <2>1. DOMAIN rows # {}
    <3>1. Len(rows) \in Nat /\ DOMAIN rows = 1..Len(rows) /\ Len(rows) # 0
      BY SequenceOfRows, EmptySeq DEF IInv, RowsOK
    <3> QED BY <3>1
  <2>2. PICK v \in DOMAIN rows : OnlyActive(rows, v)
    BY <2>1 DEF IInv, SomeActive
  <2>3. WithStatus({"active"}) = {v}
    BY <2>2 DEF OnlyActive, WithStatus, Versions
  <2> QED BY <2>3, FS_Singleton
<1> QED BY <1>1, SpecIInv, PTL

(***************************************************************************)
(* What was published stays as it was: a statement of a request that read  *)
(* a version while it was a draft never changes it once it is active.      *)
(***************************************************************************)
THEOREM WhatIsPublishedIsFrozen == ExpertAlone => (Spec => PublishedIsFrozen)
<1> SUFFICES ASSUME ExpertAlone PROVE Spec => PublishedIsFrozen
  OBVIOUS
<1>1. IInv /\ [Next]_vars => [\A v \in Versions :
          rows[v].status \in {"active", "superseded"} =>
            /\ rows'[v].cfg = rows[v].cfg
            /\ rows'[v].status \in {"active", "superseded"}]_rows
  BY StepPreserves DEF Preserved, Kept, Frozen, Versions
<1> QED BY <1>1, SpecIInv, PTL DEF Spec, PublishedIsFrozen

-----------------------------------------------------------------------------
(* What is served: the configurations of rows and requests.                 *)

\* A provider that can be used passed its test as it is in the configuration.
TestedIn(cfg, ids, acc) ==
    \E p \in Range(cfg.providers) :
        /\ Usable(p, ids) /\ Tested(p) \in acc
        /\ NamesApart(cfg.providers) => p.key \in Range(cfg.route)

\* The route lists some of the routable providers by priority.
Ranked(cfg) ==
    NamesApart(cfg.providers) =>
        \E S \in SUBSET Range(cfg.providers) :
            (\A p \in S : Routable(p)) /\ cfg.route = ByPriority(S)

\* What the settings API enables.
Enabling(cfg, ids, acc) ==
    Sound(cfg, ids) /\ HasKey(cfg) /\ TestedIn(cfg, ids, acc) /\ Ranked(cfg)

\* A version that is or was active, with the secrets ids, the tests acc that
\* passed and the versions hand that the draft API activated.
RowServes(row, v, ids, acc, hand) ==
    LET cfg == Normalize(row.cfg)
    IN /\ Own(row.cfg)
       /\ row.status \in {"active", "superseded"} /\ row.cfg.enabled =>
            /\ Sound(cfg, ids) /\ HasKey(cfg)
            /\ v \in hand \/ (TestedIn(cfg, ids, acc) /\ Ranked(cfg))

Holds(q) == q.key \in KeysOf(q.cfg.providers)

\* A request: its configuration, what it tests, and what it is to publish.
ReqServes(q, ids, acc) ==
    /\ Own(q.cfg) /\ IsProvider(q.patch)
    /\ q.kind \in {"apply", "delete"} => ~q.cred
    /\ q.pc = "test" /\ q.cred => Holds(q)
    /\ q.pc \in Sealing /\ q.kind # "secret" => q.cred /\ Holds(q)
    /\ q.pc \in Sealing \cup {"test"} /\ q.kind = "enable" => q.toTest = {q.key} /\ Holds(q)
    /\ q.pc = "test" /\ q.kind = "apply" =>
         /\ Ranked(q.cfg)
         /\ \E p \in Range(q.cfg.providers) : /\ p.key \in q.toTest /\ Usable(p, ids)
                                              /\ p.key \in Range(q.cfg.route)
    /\ q.pc = "publish" /\ q.kind # "disable" /\ q.cfg.enabled => Enabling(q.cfg, ids, acc)

\* A request of the draft API that is about to activate a version.
HandServes(q, all, ids) ==
    /\ q.kind = "publish" /\ q.pc = "stamp" /\ q.val = "pass" =>
         Valid(Normalize(all[q.ver].cfg), TRUE, ids)
    /\ q.pc = "recheck" /\ all[q.ver].val = "pass" =>
         Valid(Normalize(all[q.ver].cfg), TRUE, ids)
    /\ q.pc = "activate" => Valid(Normalize(all[q.ver].cfg), TRUE, ids)

LEMMA ServesGrows ==
  ASSUME NEW ids, NEW ids2, ids \subseteq ids2, NEW acc, NEW acc2, acc \subseteq acc2,
         NEW hand, NEW hand2, hand \subseteq hand2
  PROVE  /\ \A q : ReqServes(q, ids, acc) => ReqServes(q, ids2, acc2)
         /\ \A row, v : RowServes(row, v, ids, acc, hand) => RowServes(row, v, ids2, acc2, hand2)
         /\ \A q, all : HandServes(q, all, ids) => HandServes(q, all, ids2)
<1>1. \A cfg : Valid(cfg, TRUE, ids) => Valid(cfg, TRUE, ids2)
  BY ValidGrows
<1>2. \A cfg : Sound(cfg, ids) => Sound(cfg, ids2)
  BY SoundGrows
<1>3. \A p : Usable(p, ids) => Usable(p, ids2)
  BY DEF Usable
<1>4. \A cfg : TestedIn(cfg, ids, acc) => TestedIn(cfg, ids2, acc2)
  BY <1>3 DEF TestedIn
<1>5. ASSUME NEW q, ReqServes(q, ids, acc) PROVE ReqServes(q, ids2, acc2)
  BY <1>2, <1>3, <1>4, <1>5 DEF ReqServes, Enabling
<1>6. ASSUME NEW row, NEW v, RowServes(row, v, ids, acc, hand)
      PROVE  RowServes(row, v, ids2, acc2, hand2)
  BY <1>2, <1>4, <1>6 DEF RowServes
<1>7. ASSUME NEW q, NEW all, HandServes(q, all, ids) PROVE HandServes(q, all, ids2)
  BY <1>1, <1>7 DEF HandServes
<1> QED BY <1>5, <1>6, <1>7

LEMMA EnablingNormalized ==
  ASSUME NEW cfg, Own(cfg), NEW ids, NEW acc, cfg.enabled => Enabling(cfg, ids, acc)
  PROVE  LET new == Normalize(cfg)
         IN Own(new) /\ new.enabled = cfg.enabled /\ (new.enabled => Enabling(new, ids, acc))
<1> DEFINE new == Normalize(cfg)
<1>1. Own(new) /\ new.enabled = cfg.enabled /\ new.providers = cfg.providers
  BY NormalizeProviders DEF Own
<1>2. ASSUME cfg.enabled PROVE Enabling(new, ids, acc)
  <2>1. Sound(cfg, ids) /\ HasKey(cfg) /\ TestedIn(cfg, ids, acc) /\ Ranked(cfg)
    BY <1>2 DEF Enabling
  <2>2. Sound(new, ids) /\ (NamesApart(cfg.providers) => new = cfg)
    BY <2>1, SoundNormalized
  <2> HIDE DEF new
  <2>3. HasKey(new)
    BY <1>1, <2>1 DEF HasKey
  <2>4. TestedIn(new, ids, acc) /\ Ranked(new)
    <3>1. CASE NamesApart(cfg.providers)
      BY <2>1, <2>2, <3>1
    <3>2. CASE ~NamesApart(cfg.providers)
      BY <1>1, <2>1, <3>2 DEF TestedIn, Ranked
    <3> QED BY <3>1, <3>2
  <2> QED BY <2>2, <2>3, <2>4 DEF Enabling
<1> QED BY <1>1, <1>2

\* The lists of providers that the edits make.
LEMMA ProvidersOwn ==
  ASSUME NEW cfg, Own(cfg), NEW ps, Keyed(ps)
  PROVE  /\ Own([cfg EXCEPT !.providers = ps])
         /\ [cfg EXCEPT !.providers = ps].providers = ps
         /\ [cfg EXCEPT !.providers = ps].enabled = cfg.enabled
<1> DEFINE new == [cfg EXCEPT !.providers = ps]
<1>1. new = [enabled |-> cfg.enabled, providers |-> ps, route |-> cfg.route]
  BY DEF Own, IsConfig
<1>2. /\ cfg.enabled \in BOOLEAN /\ cfg.route \in Seq(Range(cfg.route))
      /\ ps \in Seq(Range(ps)) /\ \A i \in DOMAIN ps : IsProvider(ps[i])
  BY DEF Own, IsConfig, Keyed
<1> HIDE DEF new
<1>3. IsConfig(new)
  BY <1>1, <1>2 DEF IsConfig
<1> QED BY <1>1, <1>3 DEF Own, new

LEMMA EnabledOwn ==
  ASSUME NEW cfg, Own(cfg), NEW on \in BOOLEAN
  PROVE  LET new == [cfg EXCEPT !.enabled = on]
         IN /\ Own(new) /\ new.providers = cfg.providers /\ new.enabled = on
            /\ new.route = cfg.route
<1> DEFINE new == [cfg EXCEPT !.enabled = on]
<1>1. new = [enabled |-> on, providers |-> cfg.providers, route |-> cfg.route]
  BY DEF Own, IsConfig
<1>2. /\ cfg.route \in Seq(Range(cfg.route)) /\ cfg.providers \in Seq(Range(cfg.providers))
      /\ \A i \in DOMAIN cfg.providers : IsProvider(cfg.providers[i])
  BY DEF Own, IsConfig
<1> HIDE DEF new
<1>3. IsConfig(new)
  BY <1>1, <1>2 DEF IsConfig
<1>4. Own(new) /\ new.providers = cfg.providers /\ new.enabled = on /\ new.route = cfg.route
  BY <1>1, <1>3 DEF Own
<1> QED BY <1>4 DEF new

LEMMA KeysAreFinite ==
  ASSUME NEW ps, Keyed(ps)
  PROVE  IsFiniteSet(KeysOf(ps))
<1>1. ps \in Seq(Range(ps)) /\ IsFiniteSet(DOMAIN ps)
  BY SequenceDomain DEF Keyed
<1> DEFINE f == [i \in DOMAIN ps |-> ps[i].key]
<1>2. f \in [DOMAIN ps -> KeysOf(ps)] /\ \A k \in KeysOf(ps) : \E i \in DOMAIN ps : f[i] = k
  BY DEF KeysOf
<1> HIDE DEF f
<1>3. f \in Surjection(DOMAIN ps, KeysOf(ps))
  BY <1>2 DEF Surjection
<1> QED BY <1>1, <1>3, FS_Surjection

LEMMA AppendKeyed ==
  ASSUME NEW ps, Keyed(ps), NEW p, IsProvider(p), p.key # NoKey, p.key \notin KeysOf(ps)
  PROVE  LET new == Append(ps, p)
         IN /\ Keyed(new) /\ Len(ps) + 1 \in DOMAIN new /\ new[Len(ps) + 1] = p
            /\ Range(new) = Range(ps) \cup {p}
<1> DEFINE new == Append(ps, p)
           both == Range(ps) \cup {p}
<1>1. Len(ps) \in Nat /\ DOMAIN ps = 1..Len(ps) /\ ps \in Seq(Range(ps))
  BY SequenceDomain DEF Keyed
<1>2. ps \in Seq(both) /\ p \in both
  <2>1. ps \in [1..Len(ps) -> both]
    BY <1>1 DEF Range
  <2> QED BY <1>1, <2>1, SeqDef
<1>3. /\ new \in Seq(both) /\ Len(new) = Len(ps) + 1 /\ DOMAIN new = 1..(Len(ps) + 1)
      /\ \A i \in 1..Len(ps) : new[i] = ps[i]
      /\ new[Len(ps) + 1] = p
  BY <1>1, <1>2, AppendProperties, LenProperties
<1> HIDE DEF new
<1>4. \A i \in DOMAIN new : \/ i \in DOMAIN ps /\ new[i] = ps[i]
                            \/ i = Len(ps) + 1 /\ new[i] = p
  BY <1>1, <1>3
<1>5. Range(new) = both
  BY <1>1, <1>3, <1>4 DEF Range
<1>6. new \in Seq(Range(new))
  BY <1>3, <1>5
<1>7. \A i \in DOMAIN new : IsProvider(new[i]) /\ new[i].key # NoKey
  BY <1>4 DEF Keyed
<1>8. ASSUME NEW i \in DOMAIN new, NEW j \in DOMAIN new, i # j PROVE new[i].key # new[j].key
  <2>1. CASE i \in DOMAIN ps /\ j \in DOMAIN ps /\ new[i] = ps[i] /\ new[j] = ps[j]
    BY <1>8, <2>1 DEF Keyed
  <2>2. CASE i \in DOMAIN ps /\ new[i] = ps[i] /\ new[j] = p
    BY <2>2 DEF KeysOf
  <2>3. CASE j \in DOMAIN ps /\ new[j] = ps[j] /\ new[i] = p
    BY <2>3 DEF KeysOf
  <2> QED BY <1>4, <1>8, <2>1, <2>2, <2>3
<1> QED BY <1>1, <1>3, <1>5, <1>6, <1>7, <1>8 DEF Keyed, new

\* The provider with a key gets new contents.
Replaced(ps, p) == [i \in DOMAIN ps |-> IF ps[i].key = p.key THEN p ELSE ps[i]]

LEMMA ReplacedKeyed ==
  ASSUME NEW ps, Keyed(ps), NEW p, IsProvider(p), p.key \in KeysOf(ps)
  PROVE  LET new == Replaced(ps, p)
         IN Keyed(new) /\ p \in Range(new) /\ KeysOf(new) = KeysOf(ps)
<1> DEFINE new == Replaced(ps, p)
<1>1. /\ Len(ps) \in Nat /\ DOMAIN ps = 1..Len(ps) /\ ps \in Seq(Range(ps))
      /\ \A i \in DOMAIN ps : IsProvider(ps[i]) /\ ps[i].key # NoKey
      /\ \A i, j \in DOMAIN ps : i # j => ps[i].key # ps[j].key
  BY SequenceDomain DEF Keyed
<1>2. /\ DOMAIN new = DOMAIN ps /\ \E k \in DOMAIN ps : new[k] = p
      /\ \A i \in DOMAIN ps : new[i].key = ps[i].key /\ (new[i] = p \/ new[i] = ps[i])
  BY DEF Replaced, KeysOf
<1>3. new = [i \in 1..Len(ps) |-> new[i]]
  BY <1>1 DEF Replaced
<1> HIDE DEF new
<1>4. new \in Seq(Range(new))
  BY <1>1, <1>3, FunctionIsSequence
<1>5. \A i \in DOMAIN new : IsProvider(new[i]) /\ new[i].key # NoKey
  BY <1>1, <1>2
<1>6. \A i, j \in DOMAIN new : i # j => new[i].key # new[j].key
  BY <1>1, <1>2
<1>7. p \in Range(new) /\ KeysOf(new) = KeysOf(ps)
  BY <1>2 DEF Range, KeysOf
<1> QED BY <1>4, <1>5, <1>6, <1>7 DEF Keyed, new

LEMMA AtKeyed ==
  ASSUME NEW ps, Keyed(ps), NEW I, I \subseteq DOMAIN ps
  PROVE  Keyed(At(ps, I))
<1> DEFINE s == At(ps, I)
<1>1. /\ ps \in Seq(Range(ps))
      /\ \A i \in DOMAIN ps : IsProvider(ps[i]) /\ ps[i].key # NoKey
      /\ \A i, j \in DOMAIN ps : i # j => ps[i].key # ps[j].key
  BY DEF Keyed
<1>2. \A i, j \in I : i # j => ps[i] # ps[j]
  BY <1>1
<1>3. /\ s \in Seq(Range(s))
      /\ \A k \in DOMAIN s : \E i \in I : s[k] = ps[i]
      /\ \A k, m \in DOMAIN s : k # m => s[k] # s[m]
  BY <1>1, <1>2, AtSelects
<1> HIDE DEF s
<1>4. ASSUME NEW k \in DOMAIN s, NEW m \in DOMAIN s, k # m PROVE s[k].key # s[m].key
  <2>1. PICK i \in I : s[k] = ps[i]
    BY <1>3
  <2>2. PICK j \in I : s[m] = ps[j]
    BY <1>3
  <2>3. i # j /\ i \in DOMAIN ps /\ j \in DOMAIN ps
    BY <1>3, <1>4, <2>1, <2>2
  <2> QED BY <1>1, <2>1, <2>2, <2>3
<1>5. \A k \in DOMAIN s : IsProvider(s[k]) /\ s[k].key # NoKey
  BY <1>1, <1>3
<1> QED BY <1>3, <1>4, <1>5 DEF Keyed, s

LEMMA GreatestOfMany ==
  ASSUME NEW n \in Nat, NEW f, \A i \in 1..n : f[i] \in Int
  PROVE  Max({0} \cup {f[i] : i \in 1..n}) \in Int
<1> DEFINE U(k) == {0} \cup {f[i] : i \in 1..k}
           Top(k) == \E x \in U(k) : \A y \in U(k) : x >= y
           T == {k \in 0..n : ~Top(k)}
<1>1. \A k \in 0..n : U(k) \subseteq Int
  OBVIOUS
<1>2. T \subseteq 0..n /\ \A k \in T : ~Top(k)
  OBVIOUS
<1>3. \A k \in 0..n : k \notin T => Top(k)
  OBVIOUS
<1>4. T = {}
  <2>1. SUFFICES ASSUME T # {} PROVE FALSE
    OBVIOUS
  <2>2. PICK m \in T : \A k \in T : m <= k
    <3>1. T \subseteq Nat
      BY <1>2
    <3> HIDE DEF T
    <3> QED BY <2>1, <3>1, LeastExists
  <2>3. m # 0
    <3>1. U(0) = {0}
      OBVIOUS
    <3>2. Top(0)
      BY <3>1
    <3> HIDE DEF T, Top
    <3> QED BY <1>2, <2>2, <3>2
  <2>4. m - 1 \in 0..n /\ m \in 1..n /\ m - 1 \notin T
    <3> HIDE DEF T
    <3> QED BY <1>2, <2>2, <2>3
  <2>5. Top(m - 1)
    BY <1>3, <2>4
  <2>6. U(m) = U(m - 1) \cup {f[m]}
    BY <2>4
  <2> HIDE DEF U
  <2>7. PICK x \in U(m - 1) : \A y \in U(m - 1) : x >= y
    BY <2>5
  <2>8. x \in Int /\ f[m] \in Int /\ U(m - 1) \subseteq Int
    BY <1>1, <2>4, <2>7
  <2>9. Top(m)
    <3>1. CASE x >= f[m]
      BY <2>6, <2>7, <3>1
    <3>2. CASE ~(x >= f[m])
      <4>1. f[m] >= x /\ f[m] >= f[m]
        BY <2>8, <3>2
      <4>2. \A y \in U(m - 1) : f[m] >= y
        BY <2>7, <2>8, <4>1
      <4> QED BY <2>6, <4>1, <4>2
    <3> QED BY <3>1, <3>2
  <2> HIDE DEF T, Top
  <2> QED BY <1>2, <2>2, <2>9
<1>5. Top(n)
  <2> HIDE DEF T, Top
  <2> QED BY <1>4, <1>3
<1>6. Max(U(n)) \in U(n)
  <2> HIDE DEF U
  <2> QED BY <1>5 DEF Max
<1> QED BY <1>1, <1>6

LEMMA NextPriorityType ==
  ASSUME NEW ps, Keyed(ps)
  PROVE  NextPriority(ps) \in Int
<1> DEFINE f == [i \in DOMAIN ps |-> ps[i].prio]
<1>1. Len(ps) \in Nat /\ DOMAIN ps = 1..Len(ps)
  BY SequenceDomain DEF Keyed
<1>2. \A i \in 1..Len(ps) : f[i] = ps[i].prio /\ f[i] \in Int
  BY <1>1 DEF Keyed, IsProvider
<1> HIDE DEF f
<1>3. Max({0} \cup {f[i] : i \in 1..Len(ps)}) \in Int
  BY <1>1, <1>2, GreatestOfMany
<1>4. Max({0} \cup {ps[i].prio : i \in DOMAIN ps}) \in Int
  BY <1>1, <1>2, <1>3
<1> QED BY <1>4, InputAssumption DEF NextPriority

-----------------------------------------------------------------------------
(* The end of an edit.                                                      *)

\* A request with its new providers, before they are tested.
Ready(q) ==
    /\ Editing(q) /\ Own(q.cfg) /\ IsProvider(q.patch)
    /\ q.kind \in {"apply", "delete"} => ~q.cred
    /\ q.cred => Holds(q)

\* Each of the routable providers that passed the test is tried.
LEMMA ValidIsEnabling ==
  ASSUME NEW cfg, Own(cfg), cfg.enabled, NEW ids, Valid(cfg, TRUE, ids), NEW acc, Ranked(cfg),
         \E p \in Range(cfg.providers) : /\ p.secret > 0 /\ p.secret \in ids /\ Tested(p) \in acc
                                         /\ p.model # NoModel => p.key \in Range(cfg.route)
  PROVE  Enabling(cfg, ids, acc)
<1>1. Sound(cfg, ids) /\ HasKey(cfg)
  BY ValidIsSound
<1>2. PICK p \in Range(cfg.providers) :
        /\ p.secret > 0 /\ p.secret \in ids /\ Tested(p) \in acc
        /\ p.model # NoModel => p.key \in Range(cfg.route)
  OBVIOUS
<1>3. p.model # NoModel
  BY <1>1 DEF Sound
<1>4. Usable(p, ids)
  BY <1>2, <1>3 DEF Usable, Routable
<1>5. TestedIn(cfg, ids, acc)
  BY <1>2, <1>3, <1>4 DEF TestedIn
<1> QED BY <1>1, <1>5 DEF Enabling

LEMMA SettledServes ==
  ASSUME NEW q, Ready(q), NEW ids, NEW acc,
         q.kind = "enable" =>
           \E p \in Range(q.cfg.providers) : p.secret > 0 /\ p.secret \in ids /\ Tested(p) \in acc,
         q.kind = "apply" =>
           /\ Ranked(q.cfg)
           /\ q.cfg.enabled => \E p \in Range(q.cfg.providers) :
                /\ p.secret > 0 /\ p.secret \in ids /\ Tested(p) \in acc
                /\ p.key \in Range(q.cfg.route)
  PROVE  ReqServes(Settled(q, ids), ids, acc)
<1> DEFINE s == Settled(q, ids)
           ps == IF q.kind = "update" /\ q.flag
                 THEN MakeDefault(q.cfg.providers, q.key) ELSE q.cfg.providers
           enabled == CASE q.kind = "enable" -> TRUE
                        [] q.kind = "save" -> q.on
                        [] OTHER -> q.cfg.enabled
           base == [q.cfg EXCEPT !.providers = ps, !.enabled = enabled]
           made == WithDefaultRoute(base, ids)
           cfg == IF q.kind = "apply" THEN q.cfg ELSE made
           new == Normalize(cfg)
<1>1. /\ Own(q.cfg) /\ Keyed(q.cfg.providers) /\ q.on \in BOOLEAN
      /\ q.cfg.enabled \in BOOLEAN /\ DOMAIN q = DOMAIN Idle
  BY DEF Ready, Own, IsConfig, Editing
<1>2. Keyed(ps)
  BY <1>1, MakeDefaultKeyed
<1>3. enabled \in BOOLEAN
  BY <1>1
<1>4. Own(base) /\ base.providers = ps /\ base.enabled = enabled
  <2> DEFINE mid == [q.cfg EXCEPT !.providers = ps]
  <2>1. Own(mid) /\ mid.providers = ps
    BY <1>1, <1>2, ProvidersOwn
  <2>2. base = [mid EXCEPT !.enabled = enabled]
    OBVIOUS
  <2> HIDE DEF mid, base, ps, enabled
  <2> QED BY <1>3, <2>1, <2>2, EnabledOwn
<1>5. /\ Own(made) /\ made.providers = ps /\ made.enabled = enabled
      /\ made.route = DefaultRoute(ps, ids)
  <2> HIDE DEF base, ps, enabled
  <2> QED BY <1>4, DefaultRouteOwn
<1>6. Own(cfg)
  BY <1>1, <1>5
<1>7. ASSUME Valid(cfg, TRUE, ids), q.kind \in {"enable", "apply"}, cfg.enabled
      PROVE  Enabling(cfg, ids, acc)
  <2>1. CASE q.kind = "apply"
    <3>1. cfg = q.cfg
      BY <2>1
    <3> HIDE DEF cfg
    <3> QED BY <1>1, <1>7, <2>1, <3>1, ValidIsEnabling
  <2>2. CASE q.kind = "enable"
    <3>1. cfg = made /\ ps = q.cfg.providers
      BY <2>2
    <3> HIDE DEF cfg, made, ps
    <3> DEFINE S == {p \in Range(ps) : Usable(p, ids)}
    <3>2. /\ cfg.providers = ps /\ cfg.route = ByPriority(S)
          /\ Range(cfg.route) = {p.key : p \in S}
      BY <1>2, <1>5, <3>1, DefaultRouteListsUsable DEF DefaultRoute
    <3>3. Ranked(cfg)
      <4>1. S \in SUBSET Range(cfg.providers) /\ \A p \in S : Routable(p)
        BY <3>2 DEF Usable
      <4> HIDE DEF S
      <4> QED BY <3>2, <4>1 DEF Ranked
    <3>4. PICK p \in Range(ps) : p.secret > 0 /\ p.secret \in ids /\ Tested(p) \in acc
      BY <2>2, <3>1
    <3>5. p.model # NoModel => p.key \in Range(cfg.route)
      BY <3>2, <3>4 DEF Usable, Routable
    <3> HIDE DEF S
    <3> QED BY <1>6, <1>7, <3>2, <3>3, <3>4, <3>5, ValidIsEnabling
  <2> QED BY <1>7, <2>1, <2>2
<1>8. /\ s.cfg = new /\ s.kind = q.kind /\ s.patch = q.patch /\ s.cred = q.cred
      /\ s.pc \in {"update", "max", "publish"}
      /\ s.pc = "publish" => q.kind \in {"enable", "apply"} /\ Valid(cfg, TRUE, ids)
  <2> HIDE DEF made, cfg
  <2> DEFINE t == [q EXCEPT !.cfg = new, !.toTest = {}]
             W(val) == Writing(t, val)
             P == [t EXCEPT !.val = "pass", !.pc = "publish"]
  <2>1. \/ s = W("not_run")
        \/ s = P /\ q.kind \in {"enable", "apply"} /\ Valid(cfg, TRUE, ids)
        \/ s = W("fail")
    BY DEF Settled, made, cfg
  <2> HIDE DEF new
  <2>2. \A val : /\ W(val).cfg = new /\ W(val).kind = q.kind /\ W(val).patch = q.patch
                 /\ W(val).pc \in {"update", "max"} /\ W(val).cred = q.cred
    BY <1>1 DEF Writing, Idle
  <2>3. /\ P.cfg = new /\ P.kind = q.kind /\ P.patch = q.patch
        /\ P.pc = "publish" /\ P.cred = q.cred
    BY <1>1 DEF Idle
  <2> HIDE DEF s, W, P
  <2> QED BY <2>1, <2>2, <2>3
<1> HIDE DEF cfg
<1>9. /\ Own(new)
      /\ s.pc = "publish" /\ new.enabled => Enabling(new, ids, acc)
  <2>1. Own(new) /\ new.enabled = cfg.enabled
    BY <1>6, NormalizeProviders DEF Own
  <2>2. ASSUME s.pc = "publish", new.enabled PROVE Enabling(new, ids, acc)
    BY <1>6, <1>7, <1>8, <2>1, <2>2, EnablingNormalized
  <2> QED BY <2>1, <2>2
<1> HIDE DEF s, new
<1>10. ReqServes(s, ids, acc)
  BY <1>8, <1>9 DEF ReqServes, Ready, Sealing
<1> QED BY <1>10 DEF s

LEMMA AfterTestServes ==
  ASSUME NEW q, Ready(q), NEW acc,
         q.kind = "enable" =>
           /\ q.toTest = {q.key} /\ Holds(q)
           /\ ~q.cred => \E p \in Range(q.cfg.providers) :
                p.secret > 0 /\ p.secret \in SecretIds /\ Tested(p) \in acc,
         q.kind = "apply" =>
           /\ Ranked(q.cfg)
           /\ q.cfg.enabled => \E p \in Range(q.cfg.providers) :
                /\ p.secret > 0 /\ p.secret \in SecretIds /\ Tested(p) \in acc
                /\ p.key \in Range(q.cfg.route)
  PROVE  ReqServes(AfterTest(q), SecretIds, acc)
<1>1. CASE ~q.cred
  <2>1. AfterTest(q) = Settled(q, SecretIds)
    BY <1>1 DEF AfterTest
  <2> QED BY <1>1, <2>1, SettledServes
<1>2. CASE q.cred
  <2> DEFINE s == [q EXCEPT !.pc = "secret"]
  <2>1. AfterTest(q) = s
    BY <1>2 DEF AfterTest
  <2>2. /\ s.cfg = q.cfg /\ s.kind = q.kind /\ s.patch = q.patch /\ s.pc = "secret"
        /\ s.cred = q.cred /\ s.key = q.key /\ s.toTest = q.toTest
    BY DEF Ready, Editing, Idle
  <2> HIDE DEF s
  <2>3. ReqServes(s, SecretIds, acc)
    BY <1>2, <2>2 DEF ReqServes, Ready, Sealing, Holds
  <2> QED BY <2>1, <2>3
<1> QED BY <1>1, <1>2

LEMMA AfterLoadServes ==
  ASSUME NEW q, Ready(q), NEW acc,
         q.kind = "enable" => q.toTest = {q.key} /\ Holds(q),
         q.kind = "apply" =>
           /\ Ranked(q.cfg)
           /\ IF q.cfg.enabled
              THEN \E p \in Range(q.cfg.providers) : /\ p.key \in q.toTest /\ Usable(p, SecretIds)
                                                     /\ p.key \in Range(q.cfg.route)
              ELSE q.toTest = {}
  PROVE  ReqServes(AfterLoad(q), SecretIds, acc)
<1>1. CASE q.toTest = {}
  <2>1. AfterLoad(q) = AfterTest(q)
    BY <1>1 DEF AfterLoad
  <2>2. q.kind # "enable" /\ (q.kind = "apply" => ~q.cfg.enabled)
    BY <1>1
  <2> QED BY <2>1, <2>2, AfterTestServes
<1>2. CASE q.toTest # {}
  <2> DEFINE s == [q EXCEPT !.pc = "test"]
  <2>1. AfterLoad(q) = s
    BY <1>2 DEF AfterLoad
  <2>2. /\ s.cfg = q.cfg /\ s.kind = q.kind /\ s.patch = q.patch /\ s.pc = "test"
        /\ s.cred = q.cred /\ s.key = q.key /\ s.toTest = q.toTest
    BY DEF Ready, Editing, Idle
  <2>3. q.kind = "apply" => q.cfg.enabled
    BY <1>2
  <2> HIDE DEF s
  <2>4. ReqServes(s, SecretIds, acc)
    BY <2>2, <2>3 DEF ReqServes, Ready, Sealing, Holds
  <2> QED BY <2>1, <2>4
<1> QED BY <1>1, <1>2

-----------------------------------------------------------------------------
(* The invariant.                                                           *)

RowsServe == \A v \in DOMAIN rows : RowServes(rows[v], v, SecretIds, tested, byHand)

ReqsServe ==
    \A r \in Requests : /\ ReqServes(req[r], SecretIds, tested)
                        /\ HandServes(req[r], rows, SecretIds)

SInv == RowsServe /\ ReqsServe

\* A step of one request that is under way.
LEMMA StepServes ==
  ASSUME IInv, SInv, NEW r \in Requests, req[r].pc # "idle",
         NEW q, req' = [req EXCEPT ![r] = q],
         SecretIds \subseteq SecretIds', tested \subseteq tested', byHand \subseteq byHand',
         \A v \in DOMAIN rows' : \/ v \in DOMAIN rows /\ rows'[v] = rows[v]
                                 \/ RowServes(rows'[v], v, SecretIds', tested', byHand'),
         ReqServes(q, SecretIds', tested'), HandServes(q, rows', SecretIds')
  PROVE  SInv'
<1>1. /\ req'[r] = q /\ DOMAIN req = Requests
      /\ \A o \in Requests : o # r => req'[o] = req[o]
  BY DEF IInv, ReqOK
<1>2. RowsServe'
  <2>1. ASSUME NEW v \in DOMAIN rows'
        PROVE  RowServes(rows'[v], v, SecretIds', tested', byHand')
    <3>1. CASE v \in DOMAIN rows /\ rows'[v] = rows[v]
      <4>1. RowServes(rows[v], v, SecretIds, tested, byHand)
        BY <3>1 DEF SInv, RowsServe
      <4> QED BY <3>1, <4>1, ServesGrows
    <3> QED BY <2>1, <3>1
  <2> QED BY <2>1 DEF RowsServe
<1>3. ReqsServe'
  <2>1. ASSUME NEW o \in Requests, o # r
        PROVE  /\ ReqServes(req[o], SecretIds', tested')
               /\ HandServes(req[o], rows', SecretIds')
    <3>1. ReqServes(req[o], SecretIds', tested')
      <4>1. ReqServes(req[o], SecretIds, tested)
        BY DEF SInv, ReqsServe
      <4> QED BY <4>1, ServesGrows
    <3>2. req[o].kind \notin ExpertKinds /\ req[o].pc \notin Hand
      BY <2>1 DEF IInv, ReqOK, Alone, GoodReq
    <3>3. HandServes(req[o], rows', SecretIds')
      BY <3>2 DEF HandServes, ExpertKinds, Hand
    <3> QED BY <3>1, <3>3
  <2> QED BY <1>1, <2>1 DEF ReqsServe
<1> QED BY <1>2, <1>3 DEF SInv

LEMMA DefaultServes ==
  /\ Own(DefaultConfig) /\ ~DefaultConfig.enabled
  /\ \A ids, acc, hand, v : RowServes(Row("active", DefaultConfig, "pass"), v, ids, acc, hand)
<1>1. Own(DefaultConfig) /\ ~DefaultConfig.enabled
  <2> DEFINE e == <<>>
  <2>1. e \in Seq(Range(e)) /\ DOMAIN e = {}
    BY DEF Range
  <2>2. DefaultConfig = [enabled |-> FALSE, providers |-> e, route |-> e]
    BY DEF DefaultConfig
  <2> HIDE DEF e
  <2> QED BY <2>1, <2>2 DEF Own, IsConfig, Keyed
<1>2. /\ Own(Normalize(DefaultConfig)) /\ ~Normalize(DefaultConfig).enabled
  BY <1>1, NormalizeProviders DEF Own
<1> QED BY <1>1, <1>2 DEF RowServes, Row

LEMMA IdleServes ==
  ASSUME NEW q, q = Idle \/ q = [Idle EXCEPT !.pc = "respond"]
  PROVE  /\ \A ids, acc : ReqServes(q, ids, acc)
         /\ \A all, ids : HandServes(q, all, ids)
<1>1. /\ q.cfg = DefaultConfig /\ q.patch = NoProvider /\ q.kind = "none"
      /\ q.pc \in {"idle", "respond"}
  BY DEF Idle
<1>2. IsProvider(NoProvider)
  BY DEF NoProvider, IsProvider, NoKey
<1> QED BY <1>1, <1>2, DefaultServes DEF ReqServes, HandServes, Sealing

LEMMA EndServes ==
  ASSUME IInv, SInv, NEW r \in Requests, req[r].pc # "idle",
         Done(r) \/ Responds(r),
         SecretIds \subseteq SecretIds', tested \subseteq tested', byHand \subseteq byHand',
         \A v \in DOMAIN rows' : \/ v \in DOMAIN rows /\ rows'[v] = rows[v]
                                 \/ RowServes(rows'[v], v, SecretIds', tested', byHand')
  PROVE  SInv'
<1>1. PICK q : /\ req' = [req EXCEPT ![r] = q]
               /\ q = Idle \/ q = [Idle EXCEPT !.pc = "respond"]
  BY DEF Done, Responds, Put
<1>2. ReqServes(q, SecretIds', tested') /\ HandServes(q, rows', SecretIds')
  BY <1>1, IdleServes
<1> QED BY <1>1, <1>2, StepServes

\* A settings request that has made, tested or stored its edit.
LEMMA EditServes ==
  ASSUME IInv, SInv, NEW r \in Requests, req[r].pc # "idle",
         UNCHANGED <<rows, byHand>>,
         SecretIds \subseteq SecretIds', tested \subseteq tested',
         NEW s, Put(r, s), s.pc \notin Hand, ReqServes(s, SecretIds', tested')
  PROVE  SInv'
<1>1. HandServes(s, rows', SecretIds')
  BY DEF HandServes, Hand
<1> QED BY <1>1, StepServes DEF Put

LEMMA ConfigOwn ==
  ASSUME SInv, NEW v \in DOMAIN rows
  PROVE  Own(Config(v))
<1>1. Own(rows[v].cfg)
  BY DEF SInv, RowsServe, RowServes
<1> QED BY <1>1, NormalizeProviders DEF Own, Config

LEMMA LoadedServes ==
  ASSUME IInv, SInv, NEW r \in Requests, req[r].pc = "editable"
  PROVE  LET q == Loaded(r)
         IN /\ Editing(q) /\ Own(q.cfg) /\ IsProvider(q.patch)
            /\ q.kind = req[r].kind /\ q.patch = req[r].patch /\ q.key = req[r].key
            /\ q.cred = req[r].cred /\ q.on = req[r].on
<1> DEFINE e == EditableAbove(req[r].seen)
           base == IF e = 0 THEN req[r]
                   ELSE [req[r] EXCEPT !.ver = e, !.hasEd = TRUE, !.cfg = Config(e)]
           q == Loaded(r)
<1>1. Editing(q) /\ DOMAIN req[r] = DOMAIN Idle
  BY LoadedIsEditing DEF IInv, ReqOK, GoodReq
<1>2. q = [base EXCEPT !.cfg = Normalize(@)]
  BY DEF Loaded
<1>3. ReqServes(req[r], SecretIds, tested)
  BY DEF SInv, ReqsServe
<1>4. /\ DOMAIN base = DOMAIN Idle /\ Own(base.cfg)
      /\ base.kind = req[r].kind /\ base.patch = req[r].patch /\ base.key = req[r].key
      /\ base.cred = req[r].cred /\ base.on = req[r].on
  <2>1. CASE e = 0
    BY <1>1, <1>3, <2>1 DEF ReqServes
  <2>2. CASE e # 0
    <3> DEFINE cfg == Config(e)
               b == [req[r] EXCEPT !.ver = e, !.hasEd = TRUE, !.cfg = cfg]
    <3>1. e \in DOMAIN rows /\ base = b
      BY <2>2, EditableExists DEF IInv, Versions
    <3>2. Own(cfg)
      BY <3>1, ConfigOwn
    <3> HIDE DEF base, cfg, e
    <3>3. /\ DOMAIN b = DOMAIN Idle /\ b.cfg = cfg
          /\ b.kind = req[r].kind /\ b.patch = req[r].patch /\ b.key = req[r].key
          /\ b.cred = req[r].cred /\ b.on = req[r].on
      BY <1>1 DEF Idle
    <3> QED BY <3>1, <3>2, <3>3
  <2> QED BY <2>1, <2>2
<1> HIDE DEF q, base
<1>5. /\ q.cfg = Normalize(base.cfg) /\ q.kind = base.kind /\ q.patch = base.patch
      /\ q.key = base.key /\ q.cred = base.cred /\ q.on = base.on
  BY <1>2, <1>4 DEF Idle
<1>6. Own(q.cfg)
  BY <1>4, <1>5, NormalizeProviders DEF Own
<1>7. IsProvider(req[r].patch)
  BY <1>3 DEF ReqServes
<1> QED BY <1>1, <1>4, <1>5, <1>6, <1>7 DEF q

-----------------------------------------------------------------------------
(* The steps, one lemma for each part of the API.                           *)

\* A request that goes on with a configuration that is stored or in hand.
LEMMA MovesServes ==
  ASSUME IInv, SInv, NEW r \in Requests, req[r].pc # "idle",
         NEW q, req' = [req EXCEPT ![r] = q], UNCHANGED <<secrets, tested, byHand>>,
         \A v \in DOMAIN rows' : \/ v \in DOMAIN rows /\ rows'[v] = rows[v]
                                 \/ RowServes(rows'[v], v, SecretIds', tested', byHand'),
         q.pc \in {"default", "reread", "edit", "editable", "max", "insert", "overwrite"},
         q.kind = req[r].kind, q.patch = req[r].patch, q.cred = req[r].cred,
         q.cfg = req[r].cfg \/ \E v \in DOMAIN rows : q.cfg = Config(v)
  PROVE  SInv'
<1>1. ReqServes(req[r], SecretIds, tested)
  BY DEF SInv, ReqsServe
<1>2. Own(q.cfg)
  BY <1>1, ConfigOwn DEF ReqServes
<1>3. ReqServes(q, SecretIds', tested')
  BY <1>1, <1>2 DEF ReqServes, Sealing
<1>4. HandServes(q, rows', SecretIds')
  BY DEF HandServes
<1>5. SecretIds' = SecretIds
  BY DEF SecretIds
<1> QED BY <1>3, <1>4, <1>5, StepServes

LEMMA EnsuredServes ==
  ASSUME IInv, SInv, NEW r \in Requests, req[r].pc \in {"ensure", "reread"},
         NEW v \in DOMAIN rows, Ensured(r, v),
         UNCHANGED <<rows, secrets, tested, byHand>>
  PROVE  SInv'
<1>1. DOMAIN req[r] = DOMAIN Idle /\ req[r].pc # "idle" /\ SecretIds' = SecretIds
  BY DEF IInv, ReqOK, GoodReq, SecretIds
<1>2. CASE Responds(r)
  BY <1>1, <1>2, EndServes
<1>3. CASE ~Responds(r)
  <2> DEFINE kind == req[r].kind
             cfg == Config(v)
             q(pc) == [[req[r] EXCEPT !.ver = v, !.cfg = cfg,
                         !.on = IF kind = "apply" THEN @ ELSE rows[v].cfg.enabled]
                         EXCEPT !.pc = pc]
  <2>1. \/ req' = [req EXCEPT ![r] = q("publish")] /\ req[r].kind = "disable"
        \/ \E pc \in {"max", "edit"} : req' = [req EXCEPT ![r] = q(pc)]
    BY <1>3 DEF Ensured, Put
  <2>2. \A pc : /\ q(pc).kind = req[r].kind /\ q(pc).pc = pc /\ q(pc).cfg = Config(v)
                /\ q(pc).patch = req[r].patch /\ q(pc).cred = req[r].cred
    <3> HIDE DEF cfg
    <3>1. \A pc : /\ q(pc).kind = req[r].kind /\ q(pc).pc = pc /\ q(pc).cfg = cfg
                  /\ q(pc).patch = req[r].patch /\ q(pc).cred = req[r].cred
      BY <1>1 DEF Idle
    <3> QED BY <3>1 DEF cfg
  <2> HIDE DEF q, cfg
  <2>3. CASE \E pc \in {"max", "edit"} : req' = [req EXCEPT ![r] = q(pc)]
    <3>1. PICK pc \in {"max", "edit"} : req' = [req EXCEPT ![r] = q(pc)]
      BY <2>3
    <3> QED BY <1>1, <2>2, <3>1, MovesServes
  <2>4. CASE req' = [req EXCEPT ![r] = q("publish")] /\ req[r].kind = "disable"
    <3> DEFINE s == q("publish")
    <3>1. /\ s.kind = "disable" /\ s.pc = "publish" /\ s.cfg = Config(v)
          /\ s.patch = req[r].patch /\ s.cred = req[r].cred
      BY <2>2, <2>4
    <3>2. req' = [req EXCEPT ![r] = s]
      BY <2>4
    <3> HIDE DEF s
    <3>3. ReqServes(req[r], SecretIds, tested) /\ Own(Config(v))
      BY ConfigOwn DEF SInv, ReqsServe
    <3>4. ReqServes(s, SecretIds, tested)
      BY <3>1, <3>3 DEF ReqServes, Sealing
    <3>5. HandServes(s, rows', SecretIds')
      BY <3>1 DEF HandServes
    <3> QED BY <1>1, <3>2, <3>4, <3>5, StepServes
  <2> QED BY <2>1, <2>3, <2>4
<1> QED BY <1>2, <1>3

LEMMA LoadingServes ==
  ASSUME IInv, SInv, NEW r \in Requests,
         ReadActive(r) \/ InsertDefault(r) \/ RereadActive(r) \/ ReadActiveVersion(r)
  PROVE  SInv'
<1>0. GoodReq(req[r], rows) /\ DOMAIN req[r] = DOMAIN Idle /\ RowsOK(rows) /\ DOMAIN req = Requests
  BY DEF IInv, ReqOK, GoodReq
<1>1. SecretIds' = SecretIds /\ UNCHANGED <<secrets, tested, byHand>>
  BY DEF SecretIds, ReadActive, InsertDefault, RereadActive, ReadActiveVersion
<1>2. ASSUME NEW pc, Goto(r, pc)
      PROVE  LET q == [req[r] EXCEPT !.pc = pc]
             IN /\ req' = [req EXCEPT ![r] = q] /\ q.pc = pc
                /\ q.kind = req[r].kind /\ q.patch = req[r].patch
                /\ q.cred = req[r].cred /\ q.cfg = req[r].cfg
  BY <1>0, <1>2 DEF Goto, Idle
<1>3. CASE ReadActive(r) \/ RereadActive(r)
  <2>1. req[r].pc \in {"ensure", "reread"} /\ UNCHANGED rows
    BY <1>3 DEF ReadActive, RereadActive
  <2>2. CASE ActiveVersion # 0
    BY <1>0, <1>1, <1>3, <2>1, <2>2, ActiveExists, EnsuredServes DEF ReadActive, RereadActive
  <2>3. CASE ActiveVersion = 0
    <3>1. CASE Goto(r, "default")
      <4> DEFINE q == [req[r] EXCEPT !.pc = "default"]
      <4>1. /\ req' = [req EXCEPT ![r] = q] /\ q.pc = "default"
            /\ q.kind = req[r].kind /\ q.patch = req[r].patch
            /\ q.cred = req[r].cred /\ q.cfg = req[r].cfg
        BY <1>2, <3>1
      <4> HIDE DEF q
      <4> QED BY <1>1, <2>1, <4>1, MovesServes
    <3>2. CASE Done(r)
      BY <1>1, <2>1, <3>2, EndServes
    <3> QED BY <1>3, <2>3, <3>1, <3>2 DEF ReadActive, RereadActive
  <2> QED BY <2>2, <2>3
<1>4. CASE InsertDefault(r)
  <2>1. req[r].pc = "default"
    BY <1>4 DEF InsertDefault
  <2>2. CASE rows = <<>>
    <3> DEFINE q == [req[r] EXCEPT !.pc = "reread"]
               row == Row("active", DefaultConfig, "pass")
    <3>1. rows' = <<row>> /\ Goto(r, "reread")
      BY <1>4, <2>2 DEF InsertDefault
    <3>2. /\ req' = [req EXCEPT ![r] = q] /\ q.pc = "reread"
          /\ q.kind = req[r].kind /\ q.patch = req[r].patch
          /\ q.cred = req[r].cred /\ q.cfg = req[r].cfg
      BY <1>2, <3>1
    <3>3. \A v : RowServes(row, v, SecretIds', tested', byHand')
      BY DefaultServes
    <3> HIDE DEF q, row
    <3>4. DOMAIN rows' = {1} /\ rows'[1] = row
      BY <3>1
    <3> QED BY <1>1, <2>1, <3>2, <3>3, <3>4, MovesServes
  <2>3. CASE rows # <<>>
    BY <1>1, <1>4, <2>1, <2>3, EndServes DEF InsertDefault
  <2> QED BY <2>2, <2>3
<1>5. CASE ReadActiveVersion(r)
  <2> DEFINE q == [req[r] EXCEPT !.seen = ActiveVersion, !.pc = "editable"]
  <2>1. req' = [req EXCEPT ![r] = q] /\ UNCHANGED rows /\ req[r].pc = "edit"
    BY <1>5 DEF ReadActiveVersion, Put
  <2>2. /\ q.pc = "editable" /\ q.kind = req[r].kind /\ q.patch = req[r].patch
        /\ q.cred = req[r].cred /\ q.cfg = req[r].cfg
    BY <1>0 DEF Idle
  <2> HIDE DEF q
  <2> QED BY <1>1, <2>1, <2>2, MovesServes
<1> QED BY <1>3, <1>4, <1>5

\* A settings request that goes on with its new providers.
LEMMA ReadyServes ==
  ASSUME IInv, SInv, NEW r \in Requests, req[r].pc # "idle",
         UNCHANGED <<rows, secrets, tested, byHand>>,
         NEW q, Ready(q), Put(r, AfterLoad(q)),
         q.kind = "enable" => q.toTest = {q.key} /\ Holds(q),
         q.kind = "apply" =>
           /\ Ranked(q.cfg)
           /\ IF q.cfg.enabled
              THEN \E p \in Range(q.cfg.providers) : /\ p.key \in q.toTest /\ Usable(p, SecretIds)
                                                     /\ p.key \in Range(q.cfg.route)
              ELSE q.toTest = {}
  PROVE  SInv'
<1> DEFINE s == AfterLoad(q)
<1>1. ReqServes(s, SecretIds, tested)
  BY AfterLoadServes
<1>2. s.pc \notin Hand
  <2>1. s.pc \in {"test", "secret", "update", "max", "publish"}
    BY AfterLoadIsGood DEF Ready
  <2> QED BY <2>1 DEF Hand
<1>3. Put(r, s) /\ SecretIds' = SecretIds
  BY DEF SecretIds
<1> HIDE DEF s
<1> QED BY <1>1, <1>2, <1>3, EditServes

LEMMA MadeProvider ==
  ASSUME NEW n \in Nat, NEW k \in Nat, NEW m, NEW id \in Nat, NEW prio \in Int
  PROVE  LET y == [name |-> n, key |-> k, model |-> m, secret |-> id, prio |-> prio]
         IN IsProvider(y) /\ y.key = k /\ y.secret = id
BY DEF IsProvider

\* A provider's name, model and priority are replaced.
Changed(x, n, m, prio) == [x EXCEPT !.name = n, !.model = m, !.prio = prio]

LEMMA ChangedProvider ==
  \A x, n, m, prio :
     IsProvider(x) /\ n \in Nat /\ prio \in Int =>
       /\ IsProvider(Changed(x, n, m, prio))
       /\ Changed(x, n, m, prio).key = x.key
<1> SUFFICES ASSUME NEW x, NEW n, NEW m, NEW prio, IsProvider(x), n \in Nat, prio \in Int
             PROVE  IsProvider(Changed(x, n, m, prio)) /\ Changed(x, n, m, prio).key = x.key
  OBVIOUS
<1>1. x.key \in Nat /\ x.secret \in Nat
  BY DEF IsProvider
<1> DEFINE y == [x EXCEPT !.name = n, !.model = m, !.prio = prio]
<1>2. DOMAIN x = {"name", "key", "model", "secret", "prio"}
  BY DEF IsProvider
<1>3. /\ DOMAIN y = {"name", "key", "model", "secret", "prio"}
      /\ y.name = n /\ y.key = x.key /\ y.model = m /\ y.secret = x.secret /\ y.prio = prio
      /\ y = [f \in DOMAIN y |-> y[f]]
  BY <1>2
<1> HIDE DEF y
<1>4. y = [name |-> n, key |-> x.key, model |-> m, secret |-> x.secret, prio |-> prio]
  BY <1>3
<1>5. IsProvider(y) /\ y.key = x.key
  BY <1>1, <1>4, MadeProvider
<1> QED BY <1>5 DEF y, Changed

LEMMA NewProvider ==
  ASSUME NEW x, IsProvider(x), NEW k \in Nat, NEW prio \in Int
  PROVE  LET y == [x EXCEPT !.key = k, !.prio = prio]
         IN IsProvider(y) /\ y.key = k
<1>1. x.name \in Nat /\ x.secret \in Nat
  BY DEF IsProvider
<1> DEFINE y == [x EXCEPT !.key = k, !.prio = prio]
<1>2. DOMAIN x = {"name", "key", "model", "secret", "prio"}
  BY DEF IsProvider
<1>3. /\ DOMAIN y = {"name", "key", "model", "secret", "prio"}
      /\ y.name = x.name /\ y.key = k /\ y.model = x.model /\ y.secret = x.secret /\ y.prio = prio
      /\ y = [f \in DOMAIN y |-> y[f]]
  BY <1>2
<1> HIDE DEF y
<1>4. y = [name |-> x.name, key |-> k, model |-> x.model, secret |-> x.secret, prio |-> prio]
  BY <1>3
<1>5. IsProvider(y) /\ y.key = k
  BY <1>1, <1>4, MadeProvider
<1> QED BY <1>5 DEF y

LEMMA CreateServes ==
  ASSUME IInv, SInv, NEW r \in Requests, CreateProvider(r)
  PROVE  SInv'
<1> DEFINE L == Loaded(r)
           ps == L.cfg.providers
           k == GenerateKey(L.patch.name, KeysOf(ps))
           prio == IF L.patch.prio # 0 THEN L.patch.prio ELSE NextPriority(ps)
           p == [L.patch EXCEPT !.key = k, !.prio = prio]
           q(key, all, keys) == [L EXCEPT !.key = key, !.cfg.providers = all, !.toTest = keys]
           keys == IF L.test THEN {p.key} ELSE {}
           new == q(p.key, Append(ps, p), keys)
<1>1. /\ req[r].pc = "editable" /\ req[r].kind = "create"
      /\ UNCHANGED <<rows, secrets, tested, byHand>> /\ Put(r, AfterLoad(new))
  BY DEF CreateProvider, Loading
<1>2. Editing(L) /\ Own(L.cfg) /\ L.kind = "create" /\ IsProvider(L.patch)
  BY <1>1, LoadedServes
<1>3. \A key, all, t :
        /\ Editing(q(key, all, t)) /\ q(key, all, t).kind = L.kind
        /\ q(key, all, t).patch = L.patch
        /\ q(key, all, t).key = key /\ q(key, all, t).cfg = [L.cfg EXCEPT !.providers = all]
  BY <1>2 DEF Editing, Idle, IsShaped
<1> HIDE DEF L, q
<1>4. Keyed(ps) /\ L.patch.name \in Nat /\ L.patch.prio \in Int
  BY <1>2 DEF Own, IsProvider
<1>5. k \in Nat /\ k # NoKey /\ k \notin KeysOf(ps)
  BY <1>4, KeysAreFinite, FreshKey
<1>6. prio \in Int
  BY <1>4, NextPriorityType
<1>7. IsProvider(p) /\ p.key = k
  <2> HIDE DEF k, prio
  <2> QED BY <1>2, <1>5, <1>6, NewProvider
<1> HIDE DEF p, k
<1> DEFINE all == Append(ps, p)
<1>8. Keyed(all) /\ Range(all) = Range(ps) \cup {p}
  BY <1>4, <1>5, <1>7, AppendKeyed
<1> HIDE DEF all
<1>9. /\ Own([L.cfg EXCEPT !.providers = all])
      /\ [L.cfg EXCEPT !.providers = all].providers = all
  BY <1>2, <1>8, ProvidersOwn
<1>10. /\ Editing(new) /\ Own(new.cfg) /\ new.kind = "create" /\ new.patch = L.patch
       /\ new.cfg.providers = all /\ new.key = p.key
  <2>1. new = q(p.key, all, keys)
    BY DEF all
  <2> HIDE DEF keys, new
  <2>2. /\ Editing(new) /\ new.kind = L.kind /\ new.patch = L.patch /\ new.key = p.key
        /\ new.cfg = [L.cfg EXCEPT !.providers = all]
    BY <1>3, <2>1
  <2> QED BY <1>2, <1>9, <2>2
<1> HIDE DEF new
<1>11. Ready(new)
  <2>1. p.key \in KeysOf(all)
    BY <1>8 DEF KeysOf, Range
  <2> QED BY <1>2, <1>10, <2>1 DEF Ready, Holds
<1> QED BY <1>1, <1>10, <1>11, ReadyServes

LEMMA UpdateServes ==
  ASSUME IInv, SInv, NEW r \in Requests, UpdateProvider(r)
  PROVE  SInv'
<1> DEFINE L == Loaded(r)
           ps == L.cfg.providers
           old == Provider(L)
           n == IF L.patch.name # 0 THEN L.patch.name ELSE old.name
           m == IF L.patch.model # NoModel THEN L.patch.model ELSE old.model
           prio == IF L.patch.prio # 0 THEN L.patch.prio ELSE old.prio
           p == [old EXCEPT !.name = n, !.model = m, !.prio = prio]
           keys == IF L.test THEN {L.key} ELSE {}
           q(x, t) == [WithProvider(L, x) EXCEPT !.toTest = t]
           new == q(p, keys)
<1>1. /\ req[r].pc = "editable" /\ req[r].kind = "update"
      /\ UNCHANGED <<rows, secrets, tested, byHand>> /\ SecretIds' = SecretIds
      /\ Done(r) \/ (L.key \in KeysOf(ps) /\ Put(r, AfterLoad(new)))
  BY DEF UpdateProvider, Loading, SecretIds
<1>2. CASE Done(r)
  BY <1>1, <1>2, EndServes
<1>3. CASE L.key \in KeysOf(ps) /\ Put(r, AfterLoad(new))
  <2>1. Editing(L) /\ Own(L.cfg) /\ L.kind = "update" /\ IsProvider(L.patch)
    BY <1>1, LoadedServes
  <2>2. \A x, t :
          /\ Editing(q(x, t)) /\ q(x, t).kind = L.kind /\ q(x, t).patch = L.patch
          /\ q(x, t).key = L.key
          /\ q(x, t).cfg = [L.cfg EXCEPT !.providers = Replaced(L.cfg.providers, x)]
    BY <2>1 DEF Editing, Idle, IsShaped, WithProvider, Replaced
  <2> HIDE DEF L, q
  <2>3. PICK k \in DOMAIN ps : ps[k].key = L.key
    BY <1>3 DEF KeysOf
  <2>4. Keyed(ps)
    BY <2>1 DEF Own
  <2>5. old = ps[k]
    BY <2>3, <2>4, NamedByKey DEF Provider
  <2>6. IsProvider(old) /\ old.key = L.key
    BY <2>3, <2>4, <2>5 DEF Keyed
  <2> HIDE DEF old
  <2>7. IsProvider(p) /\ p.key = L.key
    <3>1. n \in Nat /\ prio \in Int
      BY <2>1, <2>6 DEF IsProvider
    <3> HIDE DEF n, m, prio
    <3> HIDE DEF p
    <3>2. IsProvider(Changed(old, n, m, prio)) /\ Changed(old, n, m, prio).key = old.key
      BY <2>6, <3>1, ChangedProvider
    <3>3. p = Changed(old, n, m, prio)
      BY DEF p, Changed
    <3> QED BY <2>6, <3>2, <3>3
  <2> HIDE DEF p
  <2> DEFINE all == Replaced(ps, p)
  <2>8. Keyed(all) /\ KeysOf(all) = KeysOf(ps)
    BY <1>3, <2>4, <2>7, ReplacedKeyed
  <2> HIDE DEF all
  <2>9. /\ Own([L.cfg EXCEPT !.providers = all])
        /\ [L.cfg EXCEPT !.providers = all].providers = all
    BY <2>1, <2>8, ProvidersOwn
  <2>10. /\ Editing(new) /\ Own(new.cfg) /\ new.kind = "update" /\ new.patch = L.patch
         /\ new.cfg.providers = all /\ new.key = L.key
    BY <2>1, <2>2, <2>9 DEF all
  <2> HIDE DEF new
  <2>11. Ready(new)
    BY <1>3, <2>1, <2>8, <2>10 DEF Ready, Holds
  <2> QED BY <1>1, <1>3, <2>10, <2>11, ReadyServes
<1> QED BY <1>1, <1>2, <1>3

LEMMA DeleteServes ==
  ASSUME IInv, SInv, NEW r \in Requests, DeleteProvider(r)
  PROVE  SInv'
<1> DEFINE L == Loaded(r)
           ps == L.cfg.providers
           rest(all) == At(all, {i \in DOMAIN all : all[i].key # L.key})
           q(all) == [L EXCEPT !.cfg.providers = all]
<1>1. /\ req[r].pc = "editable" /\ req[r].kind = "delete" /\ UNCHANGED <<rows, byHand, tested>>
      /\ SecretIds' = SecretIds
      /\ \/ Done(r)
         \/ Put(r, Settled(q(rest(ps)), SecretIds))
         \/ Put(r, Settled(q(rest(MakeDefault(ps, L.other))), SecretIds))
  BY DEF DeleteProvider, Loading, SecretIds
<1>2. CASE Done(r)
  BY <1>1, <1>2, EndServes
<1>3. /\ Editing(L) /\ Own(L.cfg) /\ L.kind = "delete" /\ IsProvider(L.patch)
      /\ L.cred = req[r].cred
  BY <1>1, LoadedServes
<1>4. ~req[r].cred
  BY <1>1 DEF SInv, ReqsServe, ReqServes
<1>5. \A all :
        /\ Editing(q(all)) /\ q(all).kind = L.kind /\ q(all).patch = L.patch
        /\ q(all).cred = L.cred /\ q(all).cfg = [L.cfg EXCEPT !.providers = all]
  BY <1>3 DEF Editing, Idle, IsShaped
<1> HIDE DEF L, q
<1>6. ASSUME NEW all, Keyed(all), Put(r, Settled(q(rest(all)), SecretIds))
      PROVE  SInv'
  <2> DEFINE left == rest(all)
             new == q(left)
  <2>1. Keyed(left)
    BY <1>6, AtKeyed
  <2> HIDE DEF left
  <2>2. /\ Own([L.cfg EXCEPT !.providers = left])
        /\ [L.cfg EXCEPT !.providers = left].providers = left
    BY <1>3, <2>1, ProvidersOwn
  <2>3. /\ Editing(new) /\ Own(new.cfg) /\ new.kind = "delete" /\ new.patch = L.patch
        /\ ~new.cred
    BY <1>3, <1>4, <1>5, <2>2
  <2>4. Put(r, Settled(new, SecretIds))
    BY <1>6 DEF left
  <2> HIDE DEF new
  <2>5. Ready(new)
    BY <1>3, <2>3 DEF Ready
  <2> DEFINE s == Settled(new, SecretIds)
  <2>6. ReqServes(s, SecretIds, tested)
    BY <2>3, <2>5, SettledServes
  <2>7. s.pc \notin Hand
    <3>1. s.pc \in {"update", "max", "publish"}
      BY <2>3, SettledIsGood
    <3> QED BY <3>1 DEF Hand
  <2> HIDE DEF s
  <2> QED BY <1>1, <2>4, <2>6, <2>7, EditServes DEF s
<1>7. Keyed(ps) /\ Keyed(MakeDefault(ps, L.other))
  BY <1>3, MakeDefaultKeyed DEF Own
<1> HIDE DEF rest
<1> QED BY <1>1, <1>2, <1>6, <1>7

LEMMA ApplyServes ==
  ASSUME IInv, SInv, NEW r \in Requests, ApplySettings(r)
  PROVE  SInv'
<1> DEFINE L == Loaded(r)
           ps == L.cfg.providers
           base == [L.cfg EXCEPT !.enabled = L.on]
           cfg == WithDefaultRoute(base, SecretIds)
           q(c, keys) == [L EXCEPT !.cfg = c, !.toTest = keys]
           keys == AppliedTests(L, cfg.route)
           new == q(cfg, keys)
<1>1. /\ req[r].pc = "editable" /\ req[r].kind = "apply"
      /\ UNCHANGED <<rows, secrets, tested, byHand>> /\ SecretIds' = SecretIds
      /\ Responds(r) \/ ((L.on => cfg.route # <<>>) /\ Put(r, AfterLoad(new)))
  BY DEF ApplySettings, Loading, SecretIds
<1>2. CASE Responds(r)
  BY <1>1, <1>2, EndServes
<1>3. CASE (L.on => cfg.route # <<>>) /\ Put(r, AfterLoad(new))
  <2>1. /\ Editing(L) /\ Own(L.cfg) /\ L.kind = "apply" /\ IsProvider(L.patch)
        /\ L.cred = req[r].cred /\ L.on \in BOOLEAN
    BY <1>1, LoadedServes DEF Editing
  <2>2. ~req[r].cred
    BY <1>1 DEF SInv, ReqsServe, ReqServes
  <2>3. \A c, t : IsShaped(c) =>
          /\ Editing(q(c, t)) /\ q(c, t).kind = L.kind /\ q(c, t).patch = L.patch
          /\ q(c, t).cfg = c /\ q(c, t).cred = L.cred /\ q(c, t).toTest = t
    BY <2>1 DEF Editing, Idle
  <2> HIDE DEF L, q
  <2>4. Own(base) /\ base.providers = ps /\ base.enabled = L.on
    BY <2>1, EnabledOwn
  <2> HIDE DEF base
  <2>5. /\ Own(cfg) /\ cfg.providers = ps /\ cfg.enabled = L.on
        /\ cfg.route = DefaultRoute(ps, SecretIds) /\ Keyed(ps)
    BY <2>1, <2>4, DefaultRouteOwn DEF Own
  <2> HIDE DEF cfg, keys
  <2> DEFINE S == {p \in Range(ps) : Usable(p, SecretIds)}
  <2>6. /\ cfg.route = ByPriority(S) /\ Range(cfg.route) = {p.key : p \in S}
        /\ cfg.route # <<>> => 1 \in DOMAIN cfg.route
    BY <2>5, DefaultRouteListsUsable DEF DefaultRoute
  <2>7. Ranked(cfg)
    <3>1. S \in SUBSET Range(cfg.providers) /\ \A p \in S : Routable(p)
      BY <2>5 DEF Usable
    <3> HIDE DEF S
    <3> QED BY <2>6, <3>1 DEF Ranked
  <2>8. IF L.on
        THEN \E p \in Range(ps) : /\ p.key \in keys /\ Usable(p, SecretIds)
                                  /\ p.key \in Range(cfg.route)
        ELSE keys = {}
    <3>1. CASE ~L.on
      BY <3>1 DEF AppliedTests, keys
    <3>2. CASE L.on
      <4>1. 1 \in DOMAIN cfg.route
        BY <1>3, <2>6, <3>2
      <4>2. cfg.route[1] \in Range(cfg.route) /\ cfg.route[1] \in keys
        BY <3>2, <4>1 DEF AppliedTests, Range, keys
      <4>3. PICK p \in Range(ps) : Usable(p, SecretIds) /\ p.key = cfg.route[1]
        BY <2>6, <4>2
      <4> QED BY <3>2, <4>2, <4>3
    <3> QED BY <3>1, <3>2
  <2> HIDE DEF S
  <2>9. IsShaped(cfg)
    BY <2>5 DEF Own, IsConfig, IsShaped
  <2>10. /\ Editing(new) /\ new.kind = "apply" /\ new.patch = L.patch
         /\ new.cfg = cfg /\ ~new.cred /\ new.toTest = keys
    BY <2>1, <2>2, <2>3, <2>9
  <2> HIDE DEF new
  <2>11. Ready(new)
    BY <2>1, <2>5, <2>10 DEF Ready
  <2> QED BY <1>1, <1>3, <2>5, <2>7, <2>8, <2>10, <2>11, ReadyServes
<1> QED BY <1>1, <1>2, <1>3

\* The default provider gets new contents, or is a new one.
Merged(ps, key, n, m, prio) ==
    LET old == IF key \in KeysOf(ps) THEN ps[IndexOf(ps, key)]
               ELSE [NoProvider EXCEPT !.key = GenerateKey(n, KeysOf(ps))]
    IN [old EXCEPT !.name = n, !.model = m, !.prio = prio]

MergedList(ps, key, p) == Replaced(IF key \in KeysOf(ps) THEN ps ELSE Append(ps, p), p)

LEMMA MergedKeyed ==
  ASSUME NEW ps, Keyed(ps), NEW key, NEW n \in Nat, NEW m, NEW prio \in Int
  PROVE  LET p == Merged(ps, key, n, m, prio)
             all == MergedList(ps, key, p)
         IN Keyed(all) /\ p \in Range(all)
<1> DEFINE old == IF key \in KeysOf(ps) THEN ps[IndexOf(ps, key)]
                  ELSE [NoProvider EXCEPT !.key = GenerateKey(n, KeysOf(ps))]
           p == [old EXCEPT !.name = n, !.model = m, !.prio = prio]
           base == IF key \in KeysOf(ps) THEN ps ELSE Append(ps, p)
           all == Replaced(base, p)
<1>1. IsProvider(old) => IsProvider(p) /\ p.key = old.key
  <2> HIDE DEF old, p
  <2>1. p = Changed(old, n, m, prio)
    BY DEF p, Changed
  <2> QED BY <2>1, ChangedProvider
<1>2. CASE key \in KeysOf(ps)
  <2>1. PICK k \in DOMAIN ps : ps[k].key = key
    BY <1>2 DEF KeysOf
  <2>2. old = ps[k] /\ IsProvider(ps[k])
    BY <1>2, <2>1, NamedByKey DEF Keyed
  <2>3. IsProvider(p) /\ p.key = key /\ base = ps
    BY <1>1, <1>2, <2>1, <2>2
  <2> HIDE DEF p, base
  <2>4. Keyed(all) /\ p \in Range(all)
    BY <1>2, <2>3, ReplacedKeyed
  <2> QED BY <2>4 DEF Merged, MergedList, p, base
<1>3. CASE key \notin KeysOf(ps)
  <2> DEFINE k == GenerateKey(n, KeysOf(ps))
  <2>1. k \in Nat /\ k # NoKey /\ k \notin KeysOf(ps)
    BY KeysAreFinite, FreshKey
  <2>2. IsProvider(old) /\ old.key = k
    <3>1. old = [NoProvider EXCEPT !.key = k]
      BY <1>3
    <3> HIDE DEF old, k
    <3> QED BY <2>1, <3>1 DEF NoProvider, IsProvider
  <2>3. IsProvider(p) /\ p.key = k /\ base = Append(ps, p)
    BY <1>1, <1>3, <2>2
  <2> HIDE DEF p, base, k
  <2>4. Keyed(base) /\ Range(base) = Range(ps) \cup {p}
    BY <2>1, <2>3, AppendKeyed
  <2>5. p.key \in KeysOf(base)
    BY <2>4 DEF KeysOf, Range
  <2>6. Keyed(all) /\ p \in Range(all)
    BY <2>3, <2>4, <2>5, ReplacedKeyed
  <2> QED BY <2>6 DEF Merged, MergedList, p, base
<1> QED BY <1>2, <1>3

LEMMA SaveServes ==
  ASSUME IInv, SInv, NEW r \in Requests, SaveDefault(r)
  PROVE  SInv'
<1> DEFINE L == Loaded(r)
           ps == L.cfg.providers
           key == IF L.key # NoKey THEN L.key ELSE PickDefault(L.cfg)
           old == IF key \in KeysOf(ps) THEN ps[IndexOf(ps, key)]
                  ELSE [NoProvider EXCEPT !.key = GenerateKey(L.patch.name, KeysOf(ps))]
           p == [old EXCEPT !.name = L.patch.name, !.model = L.patch.model,
                            !.prio = L.patch.prio]
           base == IF key \in KeysOf(ps) THEN ps ELSE Append(ps, p)
           all == Replaced(base, p)
           keys == IF L.kind = "enable" THEN {p.key} ELSE {}
           mid(b, x) == WithProvider([L EXCEPT !.cfg.providers = b, !.key = x.key], x)
           q(b, x, t) == [mid(b, x) EXCEPT !.cfg = Normalize(@), !.toTest = t]
           new == q(base, p, keys)
<1>1. /\ req[r].pc = "editable" /\ req[r].kind \in {"enable", "save"}
      /\ UNCHANGED <<rows, secrets, tested, byHand>> /\ SecretIds' = SecretIds
      /\ Done(r) \/ Put(r, AfterLoad(new))
  BY DEF SaveDefault, Loading, SecretIds
<1>2. CASE Done(r)
  BY <1>1, <1>2, EndServes
<1>3. CASE Put(r, AfterLoad(new))
  <2>1. /\ Editing(L) /\ Own(L.cfg) /\ L.kind \in {"enable", "save"}
        /\ IsProvider(L.patch) /\ Keyed(ps)
    BY <1>1, LoadedServes DEF Own
  <2>2. \A b, x :
          /\ mid(b, x).cfg = [L.cfg EXCEPT !.providers = Replaced(b, x)]
          /\ Editing(mid(b, x))
          /\ mid(b, x).kind = L.kind /\ mid(b, x).patch = L.patch
          /\ mid(b, x).key = x.key /\ mid(b, x).cred = L.cred
    <3> DEFINE w(b, k) == [L EXCEPT !.cfg.providers = b, !.key = k]
    <3>1. \A b, k : /\ Editing(w(b, k)) /\ w(b, k).cfg = [L.cfg EXCEPT !.providers = b]
                    /\ w(b, k).kind = L.kind /\ w(b, k).patch = L.patch
                    /\ w(b, k).key = k /\ w(b, k).cred = L.cred
      BY <2>1 DEF Editing, Idle, IsShaped
    <3>2. \A b, k : /\ [L.cfg EXCEPT !.providers = b].providers = b
                    /\ \A c : [[L.cfg EXCEPT !.providers = b] EXCEPT !.providers = c]
                             = [L.cfg EXCEPT !.providers = c]
      BY <2>1 DEF Editing, IsShaped
    <3>3. \A b, x : mid(b, x) = WithProvider(w(b, x.key), x)
      OBVIOUS
    <3> HIDE DEF w, L, mid
    <3>4. \A v, x : Editing(v) =>
            /\ WithProvider(v, x).cfg = [v.cfg EXCEPT !.providers = Replaced(v.cfg.providers, x)]
            /\ Editing(WithProvider(v, x)) /\ WithProvider(v, x).kind = v.kind
            /\ WithProvider(v, x).patch = v.patch /\ WithProvider(v, x).key = v.key
            /\ WithProvider(v, x).cred = v.cred
      BY DEF WithProvider, Editing, Idle, IsShaped, Replaced
    <3> SUFFICES ASSUME NEW b, NEW x
                 PROVE  /\ mid(b, x).cfg = [L.cfg EXCEPT !.providers = Replaced(b, x)]
                        /\ Editing(mid(b, x))
                        /\ mid(b, x).kind = L.kind /\ mid(b, x).patch = L.patch
                        /\ mid(b, x).key = x.key /\ mid(b, x).cred = L.cred
      OBVIOUS
    <3> DEFINE v == w(b, x.key)
    <3>5. /\ Editing(v) /\ v.cfg = [L.cfg EXCEPT !.providers = b] /\ v.kind = L.kind
          /\ v.patch = L.patch /\ v.key = x.key /\ v.cred = L.cred
          /\ mid(b, x) = WithProvider(v, x)
      BY <3>1, <3>3
    <3> HIDE DEF v
    <3>6. [v.cfg EXCEPT !.providers = Replaced(v.cfg.providers, x)]
            = [L.cfg EXCEPT !.providers = Replaced(b, x)]
      BY <3>2, <3>5
    <3> QED BY <3>4, <3>5, <3>6
  <2>3. \A b, x, t :
          /\ q(b, x, t).cfg = Normalize(mid(b, x).cfg) /\ Editing(q(b, x, t))
          /\ q(b, x, t).kind = mid(b, x).kind /\ q(b, x, t).patch = mid(b, x).patch
          /\ q(b, x, t).key = mid(b, x).key /\ q(b, x, t).cred = mid(b, x).cred
          /\ q(b, x, t).toTest = t
    <3> HIDE DEF mid, L
    <3>1. \A b, x : IsShaped(Normalize(mid(b, x).cfg))
      BY <2>2, ShapeKept DEF Editing
    <3> QED BY <2>2, <3>1 DEF Editing, Idle
  <2> HIDE DEF L, q, mid
  <2>4. Keyed(all) /\ p \in Range(all)
    <3> DEFINE n == L.patch.name
               m == L.patch.model
               prio == L.patch.prio
    <3>1. n \in Nat /\ prio \in Int /\ Keyed(ps)
      BY <2>1 DEF IsProvider
    <3> HIDE DEF ps, key, n, m, prio
    <3> DEFINE y == Merged(ps, key, n, m, prio)
               made == MergedList(ps, key, y)
    <3>2. Keyed(made) /\ y \in Range(made)
      BY <3>1, MergedKeyed
    <3> HIDE DEF y, made
    <3>3. p = y /\ all = made
      BY DEF n, m, prio, y, made, Merged, MergedList, ps, key
    <3> HIDE DEF p, all
    <3> QED BY <3>2, <3>3
  <2> HIDE DEF p, all
  <2> DEFINE cfg == [L.cfg EXCEPT !.providers = all]
  <2>5. Own(cfg) /\ cfg.providers = all
    BY <2>1, <2>4, ProvidersOwn
  <2>6. Own(Normalize(cfg)) /\ Normalize(cfg).providers = all
    <3> HIDE DEF cfg
    <3> QED BY <2>5, NormalizeProviders DEF Own
  <2>7. /\ Editing(new) /\ new.cfg = Normalize(cfg) /\ new.kind = L.kind
        /\ new.patch = L.patch /\ new.key = p.key /\ new.cred = L.cred
        /\ new.toTest = keys
    <3> HIDE DEF base, keys
    <3> QED BY <2>2, <2>3 DEF all
  <2> HIDE DEF new, cfg
  <2>8. Ready(new) /\ Holds(new)
    <3>1. p.key \in KeysOf(all)
      BY <2>4 DEF KeysOf, Range
    <3> QED BY <2>1, <2>6, <2>7, <3>1 DEF Ready, Holds
  <2>9. new.kind = "enable" => new.toTest = {new.key}
    BY <2>7
  <2> QED BY <1>1, <1>3, <2>1, <2>7, <2>8, <2>9, ReadyServes
<1> QED BY <1>1, <1>2, <1>3

LEMMA SettingsServe ==
  ASSUME IInv, SInv, NEW r \in Requests,
         \/ CreateProvider(r) \/ UpdateProvider(r) \/ DeleteProvider(r)
         \/ ApplySettings(r) \/ SaveDefault(r) \/ ProbeProvider(r)
  PROVE  SInv'
<1>1. CASE ProbeProvider(r)
  <2>1. /\ req[r].pc # "idle" /\ Done(r) /\ UNCHANGED <<rows, byHand, tested>>
        /\ SecretIds' = SecretIds
    BY <1>1 DEF ProbeProvider, Loading, SecretIds
  <2> QED BY <2>1, EndServes
<1> QED BY <1>1, CreateServes, UpdateServes, DeleteServes, ApplyServes, SaveServes

LEMMA TestServes ==
  ASSUME IInv, KeysOK, SInv, NEW r \in Requests, TestProviders(r)
  PROVE  SInv'
<1> DEFINE q == req[r]
           ps == {p \in Range(q.cfg.providers) : p.key \in q.toTest}
<1>1. /\ q.pc = "test" /\ UNCHANGED <<rows, byHand>> /\ SecretIds' = SecretIds
      /\ \/ /\ \A p \in ps : q.cred \/ Opens(p.secret)
            /\ Put(r, AfterTest(q))
            /\ tested' = IF q.cred THEN tested ELSE tested \cup {Tested(p) : p \in ps}
         \/ (Responds(r) \/ Done(r)) /\ tested' = tested
  BY DEF TestProviders, SecretIds
<1>2. ReqServes(q, SecretIds, tested) /\ GoodReq(q, rows)
  BY DEF SInv, ReqsServe, IInv, ReqOK
<1>3. CASE (Responds(r) \/ Done(r)) /\ tested' = tested
  BY <1>1, <1>3, EndServes
<1>4. CASE /\ \A p \in ps : q.cred \/ Opens(p.secret)
           /\ Put(r, AfterTest(q))
           /\ tested' = IF q.cred THEN tested ELSE tested \cup {Tested(p) : p \in ps}
  <2>1. Ready(q)
    BY <1>1, <1>2 DEF ReqServes, Ready, GoodReq, Editing, Works, Sealing
  <2>2. \A id : Opens(id) => id \in SecretIds /\ id > 0
    BY SecretList DEF Opens, KeysOK, SecretIds
  <2>3. q.kind = "enable" =>
          /\ q.toTest = {q.key} /\ Holds(q)
          /\ ~q.cred => \E p \in Range(q.cfg.providers) :
               p.secret > 0 /\ p.secret \in SecretIds /\ Tested(p) \in tested'
    <3> SUFFICES ASSUME q.kind = "enable"
                 PROVE  /\ q.toTest = {q.key} /\ Holds(q)
                        /\ ~q.cred => \E p \in Range(q.cfg.providers) :
                             p.secret > 0 /\ p.secret \in SecretIds /\ Tested(p) \in tested'
      OBVIOUS
    <3>1. q.toTest = {q.key} /\ Holds(q)
      BY <1>1, <1>2 DEF ReqServes
    <3>2. PICK p \in Range(q.cfg.providers) : p.key = q.key
      BY <3>1 DEF Holds, KeysOf, Range
    <3>3. p \in ps
      BY <3>1, <3>2
    <3> HIDE DEF q, ps
    <3> QED BY <1>4, <2>2, <3>1, <3>2, <3>3
  <2>4. q.kind = "apply" =>
          /\ Ranked(q.cfg)
          /\ q.cfg.enabled => \E p \in Range(q.cfg.providers) :
               /\ p.secret > 0 /\ p.secret \in SecretIds /\ Tested(p) \in tested'
               /\ p.key \in Range(q.cfg.route)
    <3> SUFFICES ASSUME q.kind = "apply"
                 PROVE  /\ Ranked(q.cfg)
                        /\ \E p \in Range(q.cfg.providers) :
                             /\ p.secret > 0 /\ p.secret \in SecretIds /\ Tested(p) \in tested'
                             /\ p.key \in Range(q.cfg.route)
      OBVIOUS
    <3>1. Ranked(q.cfg) /\ ~q.cred
      BY <1>1, <1>2 DEF ReqServes
    <3>2. PICK p \in Range(q.cfg.providers) : /\ p.key \in q.toTest /\ Usable(p, SecretIds)
                                              /\ p.key \in Range(q.cfg.route)
      BY <1>1, <1>2 DEF ReqServes
    <3>3. p \in ps /\ p.secret > 0 /\ p.secret \in SecretIds
      BY <3>2 DEF Usable, Routable
    <3> HIDE DEF q, ps
    <3> QED BY <1>4, <3>1, <3>2, <3>3
  <2> DEFINE s == AfterTest(q)
             acc == tested'
  <2>5. s.pc \notin Hand
    <3>1. s.pc \in {"secret", "update", "max", "publish"}
      BY <2>1, AfterLoadIsGood DEF Ready
    <3> QED BY <3>1 DEF Hand
  <2>6. ReqServes(s, SecretIds, acc)
    <3> HIDE DEF q, acc
    <3>1. /\ Ready(q)
          /\ q.kind = "enable" =>
               /\ q.toTest = {q.key} /\ Holds(q)
               /\ ~q.cred => \E p \in Range(q.cfg.providers) :
                    p.secret > 0 /\ p.secret \in SecretIds /\ Tested(p) \in acc
          /\ q.kind = "apply" =>
               /\ Ranked(q.cfg)
               /\ q.cfg.enabled => \E p \in Range(q.cfg.providers) :
                    /\ p.secret > 0 /\ p.secret \in SecretIds /\ Tested(p) \in acc
                    /\ p.key \in Range(q.cfg.route)
      BY <2>1, <2>3, <2>4 DEF acc
    <3> QED BY <3>1, AfterTestServes
  <2>7. tested \subseteq tested'
    BY <1>4
  <2> HIDE DEF s, ps
  <2> QED BY <1>1, <1>4, <2>5, <2>6, <2>7, EditServes DEF s
<1> QED BY <1>1, <1>3, <1>4


-----------------------------------------------------------------------------
(* New API keys.                                                            *)

LEMMA MasterKeyServes ==
  ASSUME IInv, SInv, NEW r \in Requests, ReadMasterKey(r) \/ WriteMasterKey(r)
  PROVE  SInv'
<1>1. /\ req[r].pc \in {"secret", "respond", "newkey", "firstkey"}
      /\ UNCHANGED <<rows, tested, byHand>> /\ SecretIds' = SecretIds
  BY DEF ReadMasterKey, WriteMasterKey, SecretIds
<1>2. ReqServes(req[r], SecretIds, tested) /\ GoodReq(req[r], rows)
  BY DEF SInv, ReqsServe, IInv, ReqOK
<1>3. ASSUME NEW q, req' = [req EXCEPT ![r] = q],
             \/ q.pc \in {"newkey", "seal"} /\ req[r].pc \in {"secret", "newkey"}
             \/ q.pc = "firstkey" /\ req[r].pc = "respond",
             q.kind = req[r].kind, q.patch = req[r].patch, q.key = req[r].key,
             q.cred = req[r].cred, q.cfg = req[r].cfg, q.toTest = req[r].toTest
      PROVE  SInv'
  <2>1. ReqServes(q, SecretIds', tested')
    BY <1>1, <1>2, <1>3 DEF ReqServes, Sealing, Holds
  <2>2. HandServes(q, rows', SecretIds')
    BY <1>3 DEF HandServes
  <2> QED BY <1>1, <1>3, <2>1, <2>2, StepServes
<1>4. CASE Done(r)
  BY <1>1, <1>4, EndServes
<1>5. CASE ~Done(r)
  <2> DEFINE q(pc) == [req[r] EXCEPT !.pc = pc]
             s(mk) == [req[r] EXCEPT !.mk = mk, !.pc = "seal"]
  <2>1. /\ \A pc : /\ q(pc).pc = pc /\ q(pc).kind = req[r].kind /\ q(pc).patch = req[r].patch
                   /\ q(pc).key = req[r].key /\ q(pc).cred = req[r].cred
                   /\ q(pc).cfg = req[r].cfg /\ q(pc).toTest = req[r].toTest
        /\ \A mk : /\ s(mk).pc = "seal" /\ s(mk).kind = req[r].kind
                   /\ s(mk).patch = req[r].patch /\ s(mk).key = req[r].key
                   /\ s(mk).cred = req[r].cred /\ s(mk).cfg = req[r].cfg
                   /\ s(mk).toTest = req[r].toTest
    BY <1>2 DEF GoodReq, Idle
  <2>2. \/ req[r].pc = "secret" /\ req' = [req EXCEPT ![r] = q("newkey")]
        \/ req[r].pc = "respond" /\ req' = [req EXCEPT ![r] = q("firstkey")]
        \/ /\ req[r].pc \in {"secret", "newkey"}
           /\ \E mk : req' = [req EXCEPT ![r] = s(mk)]
    BY <1>5 DEF ReadMasterKey, WriteMasterKey, Put
  <2> HIDE DEF q, s
  <2>3. CASE \E pc : /\ req' = [req EXCEPT ![r] = q(pc)]
                     /\ \/ pc = "newkey" /\ req[r].pc = "secret"
                        \/ pc = "firstkey" /\ req[r].pc = "respond"
    BY <1>3, <2>1, <2>3
  <2>4. CASE req[r].pc \in {"secret", "newkey"} /\ \E mk : req' = [req EXCEPT ![r] = s(mk)]
    BY <1>3, <2>1, <2>4
  <2> QED BY <2>2, <2>3, <2>4
<1> QED BY <1>4, <1>5

LEMMA SecretAdded ==
  ASSUME KeysOK, NEW mk, secrets' = Append(secrets, mk)
  PROVE  /\ SecretIds' = SecretIds \cup {Len(secrets) + 1} /\ Len(secrets) \in Nat
         /\ SecretIds = 1..Len(secrets)
<1>1. /\ Len(secrets) \in Nat /\ DOMAIN secrets = 1..Len(secrets)
  BY SecretList DEF KeysOK
<1>2. DOMAIN Append(secrets, mk) = 1..(Len(secrets) + 1)
  <2> DEFINE both == 1..keyFile \cup {mk}
  <2>1. secrets \in [1..Len(secrets) -> both]
    BY <1>1, SecretList DEF KeysOK
  <2>2. secrets \in Seq(both) /\ mk \in both
    BY <1>1, <2>1, SeqDef
  <2> HIDE DEF both
  <2> QED BY <1>1, <2>2, AppendProperties, LenProperties
<1> QED BY <1>1, <1>2 DEF SecretIds

\* The row of a provider's API key is filled in.
LEMMA SealedProvider ==
  \A x, id : IsProvider(x) /\ id \in Nat =>
    LET y == [x EXCEPT !.secret = id]
    IN IsProvider(y) /\ y.key = x.key /\ y.secret = id
<1> SUFFICES ASSUME NEW x, NEW id, IsProvider(x), id \in Nat
             PROVE  LET y == [x EXCEPT !.secret = id]
                    IN IsProvider(y) /\ y.key = x.key /\ y.secret = id
  OBVIOUS
<1> DEFINE y == [x EXCEPT !.secret = id]
<1>1. /\ DOMAIN x = {"name", "key", "model", "secret", "prio"}
      /\ x.name \in Nat /\ x.key \in Nat /\ x.prio \in Int
  BY DEF IsProvider
<1>2. /\ DOMAIN y = {"name", "key", "model", "secret", "prio"}
      /\ y.name = x.name /\ y.key = x.key /\ y.model = x.model /\ y.secret = id
      /\ y.prio = x.prio /\ y = [f \in DOMAIN y |-> y[f]]
  BY <1>1
<1> HIDE DEF y
<1>3. y = [name |-> x.name, key |-> x.key, model |-> x.model, secret |-> id, prio |-> x.prio]
  BY <1>2
<1>4. IsProvider(y) /\ y.key = x.key /\ y.secret = id
  BY <1>1, <1>3, MadeProvider
<1> QED BY <1>4 DEF y

LEMMA InsertSecretServes ==
  ASSUME IInv, KeysOK, SInv, NEW r \in Requests, InsertSecret(r)
  PROVE  SInv'
<1> DEFINE id == Len(secrets) + 1
           ids == SecretIds \cup {id}
           q == [req[r] EXCEPT !.mk = 0]
           ps == q.cfg.providers
           p == [Provider(q) EXCEPT !.secret = id]
           w(x) == WithProvider(q, x)
           new == w(p)
           acc == tested'
<1>1. /\ req[r].pc = "seal" /\ req[r].kind # "secret" /\ UNCHANGED <<rows, byHand>>
      /\ secrets' = Append(secrets, req[r].mk)
      /\ Put(r, Settled(new, ids))
      /\ acc = IF q.toTest = {} THEN tested ELSE tested \cup {Tested(p)}
  BY DEF InsertSecret
<1>2. SecretIds' = ids /\ id \in Nat /\ id > 0 /\ SecretIds \subseteq ids
  BY <1>1, SecretAdded
<1>3. ReqServes(req[r], SecretIds, tested) /\ GoodReq(req[r], rows)
  BY DEF SInv, ReqsServe, IInv, ReqOK
<1>4. /\ Editing(q) /\ q.cfg = req[r].cfg /\ q.kind = req[r].kind /\ q.patch = req[r].patch
      /\ q.key = req[r].key /\ q.cred = req[r].cred /\ q.toTest = req[r].toTest
  BY <1>1, <1>3 DEF GoodReq, Editing, Works, Idle
<1>5. /\ Own(q.cfg) /\ Holds(q) /\ q.cred /\ q.kind \notin {"apply", "delete"}
      /\ IsProvider(q.patch)
      /\ q.kind = "enable" => q.toTest # {}
  BY <1>1, <1>3, <1>4 DEF ReqServes, Sealing, Holds
<1>6. \A x : /\ Editing(w(x)) /\ w(x).kind = q.kind /\ w(x).patch = q.patch
             /\ w(x).key = q.key /\ w(x).cred = q.cred
             /\ w(x).cfg = [q.cfg EXCEPT !.providers = Replaced(q.cfg.providers, x)]
  <2> HIDE DEF q
  <2> QED BY <1>4 DEF Editing, Idle, IsShaped, WithProvider, Replaced
<1> HIDE DEF q, w, id, ids, acc
<1>7. PICK k \in DOMAIN ps : ps[k].key = q.key
  BY <1>5 DEF Holds, KeysOf
<1>8. Keyed(ps) /\ Provider(q) = ps[k]
  BY <1>5, <1>7, NamedByKey DEF Own, Provider
<1>9. IsProvider(p) /\ p.key = ps[k].key /\ p.secret = id
  <2> DEFINE x == ps[k]
  <2>1. IsProvider(x)
    BY <1>8 DEF Keyed
  <2>2. p = [x EXCEPT !.secret = id]
    BY <1>8
  <2> HIDE DEF x, p
  <2>3. IsProvider(p) /\ p.key = x.key /\ p.secret = id
    BY <1>2, <2>1, <2>2, SealedProvider
  <2> QED BY <2>3 DEF x
<1> HIDE DEF p
<1> DEFINE all == Replaced(ps, p)
<1>10. Keyed(all) /\ p \in Range(all) /\ KeysOf(all) = KeysOf(ps)
  <2>1. p.key \in KeysOf(ps)
    BY <1>9 DEF KeysOf
  <2> QED BY <1>8, <1>9, <2>1, ReplacedKeyed
<1> HIDE DEF all
<1>11. /\ Own([q.cfg EXCEPT !.providers = all])
       /\ [q.cfg EXCEPT !.providers = all].providers = all
  BY <1>5, <1>10, ProvidersOwn
<1>12. /\ Editing(new) /\ Own(new.cfg) /\ new.kind = q.kind /\ new.patch = q.patch
       /\ new.cfg.providers = all /\ new.key = q.key /\ new.cred = q.cred
  BY <1>6, <1>11 DEF all
<1> HIDE DEF new
<1>13. Ready(new)
  BY <1>5, <1>10, <1>12 DEF Ready, Holds
<1>14. new.kind = "enable" =>
         \E x \in Range(new.cfg.providers) : x.secret > 0 /\ x.secret \in ids /\ Tested(x) \in acc
  <2> SUFFICES ASSUME q.kind = "enable"
               PROVE  p.secret > 0 /\ p.secret \in ids /\ Tested(p) \in acc
    BY <1>10, <1>12
  <2> QED BY <1>1, <1>2, <1>5, <1>9 DEF ids
<1>15. ReqServes(Settled(new, ids), ids, acc)
  BY <1>5, <1>12, <1>13, <1>14, SettledServes
<1> DEFINE s == Settled(new, ids)
<1>16. s.pc \notin Hand
  BY <1>13, SettledIsGood DEF Ready, Hand
<1>17. ReqServes(s, SecretIds', tested') /\ tested \subseteq tested'
  BY <1>1, <1>2, <1>15 DEF acc
<1>18. Put(r, s) /\ req[r].pc # "idle"
  BY <1>1
<1> HIDE DEF s
<1> QED BY <1>1, <1>2, <1>16, <1>17, <1>18, EditServes

LEMMA StoreSecretServes ==
  ASSUME IInv, KeysOK, SInv, NEW r \in Requests, StoreSecret(r)
  PROVE  SInv'
<1>1. /\ req[r].pc = "seal" /\ Done(r) /\ UNCHANGED <<rows, tested, byHand>>
      /\ \/ secrets' = Append(secrets, req[r].mk)
         \/ secrets' = [secrets EXCEPT ![req[r].ver] = req[r].mk]
  BY DEF StoreSecret
<1>2. SecretIds \subseteq SecretIds'
  <2>1. CASE secrets' = Append(secrets, req[r].mk)
    BY <2>1, SecretAdded
  <2>2. CASE secrets' = [secrets EXCEPT ![req[r].ver] = req[r].mk]
    BY <2>2 DEF SecretIds
  <2> QED BY <1>1, <2>1, <2>2
<1> QED BY <1>1, <1>2, EndServes

-----------------------------------------------------------------------------
(* The rows that are written.                                               *)

LEMMA DraftServes ==
  ASSUME NEW cfg, Own(cfg), NEW status, status \in {"draft", "failed"}, NEW val,
         NEW v, NEW ids, NEW acc, NEW hand
  PROVE  RowServes(Row(status, cfg, val), v, ids, acc, hand)
<1>1. Own(Normalize(cfg))
  BY NormalizeProviders DEF Own
<1> QED BY <1>1 DEF RowServes, Row

LEMMA SavesServe ==
  ASSUME IInv, SInv, NEW r \in Requests,
         UpdateEditable(r) \/ ReadMaxVersion(r) \/ InsertDraft(r)
  PROVE  SInv'
<1>1. /\ req[r].pc \in {"update", "max", "insert"} /\ UNCHANGED <<secrets, tested, byHand>>
      /\ SecretIds' = SecretIds
  BY DEF UpdateEditable, ReadMaxVersion, InsertDraft, SecretIds
<1>2. ReqServes(req[r], SecretIds, tested) /\ GoodReq(req[r], rows) /\ RowsOK(rows)
  BY DEF SInv, ReqsServe, IInv, ReqOK
<1> DEFINE q == req[r]
           row == Row(StatusFor(q.val), q.cfg, q.val)
<1>3. \A v : RowServes(row, v, SecretIds, tested, byHand)
  <2>1. Own(q.cfg) /\ StatusFor(q.val) \in {"draft", "failed"}
    BY <1>2 DEF ReqServes, StatusFor
  <2> QED BY <2>1, DraftServes
<1>4. CASE ReadMaxVersion(r)
  <2> DEFINE s == [req[r] EXCEPT !.seen = Len(rows), !.pc = "insert"]
  <2>1. req' = [req EXCEPT ![r] = s] /\ UNCHANGED rows
    BY <1>4 DEF ReadMaxVersion, Put
  <2>2. /\ s.pc = "insert" /\ s.kind = q.kind /\ s.patch = q.patch
        /\ s.cred = q.cred /\ s.cfg = q.cfg
    BY <1>2 DEF GoodReq, Idle
  <2> HIDE DEF s
  <2> QED BY <1>1, <2>1, <2>2, MovesServes
<1>5. CASE UpdateEditable(r)
  <2>1. /\ Done(r) \/ Responds(r)
        /\ rows' = rows \/ rows' = [rows EXCEPT ![q.ver] = row]
    BY <1>5 DEF UpdateEditable, Written
  <2> HIDE DEF row
  <2>2. \A v \in DOMAIN rows' : (v \in DOMAIN rows /\ rows'[v] = rows[v]) \/ rows'[v] = row
    BY <2>1
  <2>3. \A v \in DOMAIN rows' :
          \/ v \in DOMAIN rows /\ rows'[v] = rows[v]
          \/ RowServes(rows'[v], v, SecretIds', tested', byHand')
    BY <1>1, <1>3, <2>2
  <2> QED BY <1>1, <2>1, <2>3, EndServes
<1>6. CASE InsertDraft(r)
  <2>1. /\ Done(r) \/ Responds(r)
        /\ rows' = rows \/ rows' = Append(rows, row)
    BY <1>6 DEF InsertDraft, Written
  <2>2. IsVersion(row)
    BY <1>2, RowIsVersion DEF GoodReq, StatusFor, Statuses
  <2> HIDE DEF row
  <2>3. \A v \in DOMAIN rows' : (v \in DOMAIN rows /\ rows'[v] = rows[v]) \/ rows'[v] = row
    <3>1. LET new == Append(rows, row)
          IN /\ DOMAIN new = DOMAIN rows \union {Len(rows) + 1}
             /\ new[Len(rows) + 1] = row
             /\ \A v \in DOMAIN rows : new[v] = rows[v]
      BY <1>2, <2>2, AppendRow
    <3> QED BY <2>1, <3>1
  <2>4. \A v \in DOMAIN rows' :
          \/ v \in DOMAIN rows /\ rows'[v] = rows[v]
          \/ RowServes(rows'[v], v, SecretIds', tested', byHand')
    BY <1>1, <1>3, <2>3
  <2> QED BY <1>1, <2>1, <2>4, EndServes
<1> QED BY <1>4, <1>5, <1>6

-----------------------------------------------------------------------------
(* Publications.                                                            *)

\* The transaction of a publication changes nothing but statuses.
LEMMA PublishedRows ==
  ASSUME NEW all, RowsOK(all), NEW v \in DOMAIN all
  PROVE  LET new == [Superseded(all) EXCEPT ![v].status = "active"]
         IN /\ DOMAIN new = DOMAIN all /\ new[v].cfg = all[v].cfg /\ new[v].status = "active"
            /\ \A w \in DOMAIN all :
                 /\ new[w].cfg = all[w].cfg
                 /\ w # v /\ new[w].status \in {"active", "superseded"} =>
                      all[w].status \in {"active", "superseded"}
<1> DEFINE old == Superseded(all)
           new == [old EXCEPT ![v].status = "active"]
<1>1. /\ DOMAIN old = DOMAIN all
      /\ \A w \in DOMAIN all :
           /\ old[w].cfg = all[w].cfg
           /\ old[w].status \in {"active", "superseded"} =>
                all[w].status \in {"active", "superseded"}
           /\ DOMAIN old[w] = {"status", "cfg", "val"}
  <2>1. \A w \in DOMAIN all : DOMAIN all[w] = {"status", "cfg", "val"}
    BY DEF RowsOK, IsVersion
  <2>2. /\ DOMAIN old = DOMAIN all
        /\ \A w \in DOMAIN all :
             \/ old[w] = all[w]
             \/ all[w].status = "active" /\ old[w] = [all[w] EXCEPT !.status = "superseded"]
    BY DEF Superseded
  <2> HIDE DEF old
  <2> QED BY <2>1, <2>2
<1> HIDE DEF old
<1>2. /\ DOMAIN new = DOMAIN old /\ new[v] = [old[v] EXCEPT !.status = "active"]
      /\ \A w \in DOMAIN old : w # v => new[w] = old[w]
  BY <1>1
<1>3. new[v].status = "active" /\ new[v].cfg = old[v].cfg
  BY <1>1, <1>2
<1> HIDE DEF new
<1>4. /\ DOMAIN new = DOMAIN all /\ new[v].cfg = all[v].cfg /\ new[v].status = "active"
      /\ \A w \in DOMAIN all :
           /\ new[w].cfg = all[w].cfg
           /\ w # v /\ new[w].status \in {"active", "superseded"} =>
                all[w].status \in {"active", "superseded"}
  BY <1>1, <1>2, <1>3
<1> QED BY <1>4 DEF new, old

\* What row v may hold once it is active.
Serves(cfg, v, hand) ==
    LET new == Normalize(cfg)
    IN /\ Own(cfg)
       /\ cfg.enabled => /\ Sound(new, SecretIds) /\ HasKey(new)
                         /\ \/ v \in hand
                            \/ TestedIn(new, SecretIds, tested) /\ Ranked(new)

\* Row v becomes the active one, with contents that serve or that did so before.
LEMMA ActivateServes ==
  ASSUME IInv, SInv, NEW all, RowsOK(all), NEW v \in DOMAIN all, NEW hand, byHand \subseteq hand,
         \A w \in DOMAIN all : w # v => w \in DOMAIN rows /\ all[w] = rows[w],
         Serves(all[v].cfg, v, hand),
         NEW new, new = [Superseded(all) EXCEPT ![v].status = "active"]
  PROVE  \A w \in DOMAIN new : RowServes(new[w], w, SecretIds, tested, hand)
<1>1. /\ DOMAIN new = DOMAIN all /\ new[v].cfg = all[v].cfg /\ new[v].status = "active"
      /\ \A w \in DOMAIN all :
           /\ new[w].cfg = all[w].cfg
           /\ w # v /\ new[w].status \in {"active", "superseded"} =>
                all[w].status \in {"active", "superseded"}
  BY PublishedRows
<1>2. ASSUME NEW w \in DOMAIN new
      PROVE  RowServes(new[w], w, SecretIds, tested, hand)
  <2>1. CASE w = v
    BY <1>1, <2>1 DEF RowServes, Serves
  <2>2. CASE w # v
    <3>1. w \in DOMAIN rows /\ all[w] = rows[w] /\ w \in DOMAIN all
      BY <1>1, <2>2
    <3>2. RowServes(rows[w], w, SecretIds, tested, byHand)
      BY <3>1 DEF SInv, RowsServe
    <3> QED BY <1>1, <2>2, <3>1, <3>2 DEF RowServes
  <2> QED BY <2>1, <2>2
<1> QED BY <1>2

LEMMA PublishServes ==
  ASSUME IInv, SInv, NEW r \in Requests, Publish(r)
  PROVE  SInv'
<1> DEFINE q == req[r]
           draft == Row("draft", q.cfg, "pass")
           v == IF q.hasEd THEN q.ver ELSE Len(rows) + 1
           stored == IF ~q.hasEd THEN Append(rows, draft)
                     ELSE IF rows[v].status \in {"draft", "failed"}
                     THEN [rows EXCEPT ![v] = draft]
                     ELSE rows
           new == [Superseded(stored) EXCEPT ![v].status = "active"]
<1>1. /\ q.pc = "publish" /\ q.kind # "disable" /\ rows' = new /\ Responds(r)
      /\ UNCHANGED <<secrets, tested, byHand>> /\ SecretIds' = SecretIds
  BY DEF Publish, SecretIds
<1>2. /\ Own(q.cfg) /\ (q.cfg.enabled => Enabling(q.cfg, SecretIds, tested))
      /\ GoodReq(q, rows) /\ RowsOK(rows)
  BY <1>1 DEF SInv, ReqsServe, ReqServes, IInv, ReqOK
<1>3. draft.cfg = Normalize(q.cfg) /\ IsVersion(draft) /\ draft.status = "draft"
  BY <1>2, RowIsVersion DEF GoodReq, Outcomes, Statuses, Row
<1> HIDE DEF draft
<1>4. /\ RowsOK(stored) /\ v \in DOMAIN stored
      /\ \A w \in DOMAIN stored : w # v => w \in DOMAIN rows /\ stored[w] = rows[w]
      /\ \/ stored[v] = draft
         \/ /\ v \in DOMAIN rows /\ stored[v] = rows[v]
            /\ rows[v].status \in {"active", "superseded"}
  <2>1. CASE ~q.hasEd
    <3>1. v = Len(rows) + 1 /\ stored = Append(rows, draft)
      BY <2>1
    <3> HIDE DEF v, stored
    <3>2. LET app == Append(rows, draft)
          IN /\ RowsOK(app)
             /\ DOMAIN app = DOMAIN rows \union {Len(rows) + 1}
             /\ app[Len(rows) + 1] = draft
             /\ \A w \in DOMAIN rows : app[w] = rows[w]
      BY <1>2, <1>3, AppendRow
    <3> QED BY <3>1, <3>2
  <2>2. CASE q.hasEd /\ rows[v].status \in {"draft", "failed"}
    <3>1. v \in DOMAIN rows /\ stored = [rows EXCEPT ![v] = draft]
      BY <1>2, <2>2 DEF GoodReq
    <3> HIDE DEF v, stored
    <3>2. RowsOK(stored)
      BY <1>2, <1>3, <2>2, <3>1, RewriteRow DEF Kept
    <3> QED BY <3>1, <3>2
  <2>3. CASE q.hasEd /\ rows[v].status \notin {"draft", "failed"}
    <3>1. v \in DOMAIN rows /\ stored = rows
      BY <1>2, <2>3 DEF GoodReq
    <3>2. rows[v].status \in Statuses
      BY <1>2, <3>1 DEF RowsOK, IsVersion
    <3> HIDE DEF v, stored
    <3> QED BY <1>2, <2>3, <3>1, <3>2 DEF Statuses
  <2> QED BY <2>1, <2>2, <2>3
<1> HIDE DEF q, v, stored
<1>5. Serves(stored[v].cfg, v, byHand)
  <2>1. CASE stored[v] = draft
    <3> DEFINE cfg == Normalize(q.cfg)
               once == Normalize(cfg)
    <3>1. Own(cfg) /\ (cfg.enabled => Enabling(cfg, SecretIds, tested))
      BY <1>2, EnablingNormalized
    <3> HIDE DEF cfg
    <3>2. cfg.enabled => once.enabled /\ Enabling(once, SecretIds, tested)
      BY <3>1, EnablingNormalized
    <3>3. stored[v].cfg = cfg
      BY <1>3, <2>1 DEF cfg
    <3> QED BY <3>1, <3>2, <3>3 DEF Serves, Enabling
  <2>2. CASE /\ v \in DOMAIN rows /\ stored[v] = rows[v]
             /\ rows[v].status \in {"active", "superseded"}
    BY <2>2 DEF SInv, RowsServe, RowServes, Serves
  <2> QED BY <1>4, <2>1, <2>2
<1>6. \A w \in DOMAIN new : RowServes(new[w], w, SecretIds, tested, byHand)
  BY <1>4, <1>5, ActivateServes
<1> HIDE DEF new
<1> QED BY <1>1, <1>6, EndServes DEF q

LEMMA DisableServes ==
  ASSUME IInv, SInv, NEW r \in Requests, PublishDisabled(r)
  PROVE  SInv'
<1> DEFINE q == req[r]
           cfg == Normalize(q.cfg)
           off == [cfg EXCEPT !.enabled = FALSE]
           row == Row("active", off, "pass")
           old == Superseded(rows)
<1>1. /\ q.pc = "publish" /\ rows' = Append(old, row) /\ Responds(r)
      /\ UNCHANGED <<secrets, tested, byHand>> /\ SecretIds' = SecretIds
  BY DEF PublishDisabled, SecretIds
<1>2. Own(q.cfg) /\ RowsOK(rows)
  BY DEF SInv, ReqsServe, ReqServes, IInv
<1>3. Own(off) /\ ~off.enabled
  <2>1. Own(cfg)
    BY <1>2, NormalizeProviders DEF Own
  <2> HIDE DEF cfg
  <2> QED BY <2>1, EnabledOwn
<1> HIDE DEF off
<1>4. Own(row.cfg) /\ ~row.cfg.enabled /\ IsVersion(row)
  <2>1. row.cfg = Normalize(off)
    BY DEF Row
  <2>2. IsShaped(off)
    BY <1>3 DEF Own, IsConfig, IsShaped
  <2>3. IsVersion(row)
    BY <2>2, RowIsVersion DEF Outcomes, Statuses
  <2>4. Own(Normalize(off)) /\ ~Normalize(off).enabled
    BY <1>3, NormalizeProviders DEF Own
  <2> HIDE DEF row
  <2> QED BY <2>1, <2>3, <2>4
<1>5. \A v : RowServes(row, v, SecretIds, tested, byHand)
  BY <1>4 DEF RowServes
<1> HIDE DEF row
<1>6. /\ RowsOK(old) /\ DOMAIN old = DOMAIN rows
      /\ \A w \in DOMAIN rows :
           /\ old[w].cfg = rows[w].cfg
           /\ old[w].status \in {"active", "superseded"} =>
                rows[w].status \in {"active", "superseded"}
  <2>1. RowsOK(old) /\ DOMAIN old = DOMAIN rows
    BY <1>2, SupersedeRows DEF Kept
  <2>2. \A w \in DOMAIN rows :
          \/ old[w] = rows[w]
          \/ rows[w].status = "active" /\ old[w] = [rows[w] EXCEPT !.status = "superseded"]
    BY DEF Superseded
  <2>3. \A w \in DOMAIN rows : DOMAIN rows[w] = {"status", "cfg", "val"}
    BY <1>2 DEF RowsOK, IsVersion
  <2> HIDE DEF old
  <2> QED BY <2>1, <2>2, <2>3
<1> HIDE DEF old
<1>7. \A w \in DOMAIN rows : RowServes(old[w], w, SecretIds, tested, byHand)
  <2>1. \A w \in DOMAIN rows : RowServes(rows[w], w, SecretIds, tested, byHand)
    BY DEF SInv, RowsServe
  <2> QED BY <1>6, <2>1 DEF RowServes
<1>8. LET new == Append(old, row)
      IN /\ DOMAIN new = DOMAIN old \union {Len(old) + 1}
         /\ new[Len(old) + 1] = row
         /\ \A w \in DOMAIN old : new[w] = old[w]
  BY <1>4, <1>6, AppendRow
<1>9. \A w \in DOMAIN rows' : rows'[w] = row \/ (w \in DOMAIN rows /\ rows'[w] = old[w])
  BY <1>1, <1>6, <1>8
<1>10. \A w \in DOMAIN rows' : RowServes(rows'[w], w, SecretIds, tested, byHand)
  BY <1>5, <1>7, <1>9
<1> QED BY <1>1, <1>10, EndServes DEF q

LEMMA DraftApiServes ==
  ASSUME IInv, SInv, NEW r \in Requests,
         \/ ReadVersion(r) \/ OverwriteDraft(r) \/ StampValidation(r)
         \/ RereadValidation(r) \/ ActivateDraft(r)
  PROVE  SInv'
<1> DEFINE q == req[r]
           cfg == Config(q.ver)
<1>1. /\ q.pc \in Hand /\ UNCHANGED <<secrets, tested>> /\ SecretIds' = SecretIds
      /\ byHand \subseteq byHand'
  BY DEF ReadVersion, OverwriteDraft, StampValidation, RereadValidation, ActivateDraft,
     SecretIds, Hand
<1>2. /\ ReqServes(q, SecretIds, tested) /\ HandServes(q, rows, SecretIds) /\ GoodReq(q, rows)
      /\ RowsOK(rows) /\ q.ver \in DOMAIN rows /\ q.pc # "idle"
      /\ q.kind \in ExpertKinds
  BY <1>1 DEF SInv, ReqsServe, IInv, ReqOK, GoodReq, Hand
<1>3. /\ RowServes(rows[q.ver], q.ver, SecretIds, tested, byHand) /\ Own(rows[q.ver].cfg)
      /\ Own(cfg) /\ cfg = Normalize(rows[q.ver].cfg)
  BY <1>2, ConfigOwn DEF SInv, RowsServe, RowServes, Config
<1> HIDE DEF cfg
<1>4. CASE Done(r) /\ UNCHANGED <<rows, byHand>>
  BY <1>1, <1>2, <1>4, EndServes
<1>5. ASSUME NEW s, req' = [req EXCEPT ![r] = s], s.cfg = q.cfg, s.kind = q.kind,
             s.patch = q.patch, s.key = q.key, s.cred = q.cred, s.pc \in Hand,
             UNCHANGED byHand, HandServes(s, rows', SecretIds),
             \A v \in DOMAIN rows' :
               \/ v \in DOMAIN rows /\ rows'[v] = rows[v]
               \/ RowServes(rows'[v], v, SecretIds, tested, byHand)
      PROVE  SInv'
  <2>1. ReqServes(s, SecretIds, tested)
    BY <1>2, <1>5 DEF ReqServes, Hand, Sealing
  <2> QED BY <1>1, <1>2, <1>5, <2>1, StepServes
<1>6. \A pc, val :
        /\ [q EXCEPT !.pc = pc].pc = pc
        /\ LET s == [q EXCEPT !.pc = pc]
           IN /\ s.cfg = q.cfg /\ s.kind = q.kind /\ s.patch = q.patch /\ s.key = q.key
              /\ s.cred = q.cred /\ s.ver = q.ver
        /\ LET s == [q EXCEPT !.pc = pc, !.val = val]
           IN /\ s.cfg = q.cfg /\ s.kind = q.kind /\ s.patch = q.patch /\ s.key = q.key
              /\ s.cred = q.cred /\ s.ver = q.ver /\ s.pc = pc /\ s.val = val
  BY <1>2 DEF GoodReq, Idle
<1>7. \A pc : Goto(r, pc) <=> req' = [req EXCEPT ![r] = [q EXCEPT !.pc = pc]]
  BY DEF Goto
<1> HIDE DEF q
<1>8. CASE ReadVersion(r)
  <2>1. UNCHANGED <<rows, byHand>> /\ q.pc = "read"
    BY <1>8 DEF ReadVersion, q
  <2>2. \/ Done(r)
        \/ req' = [req EXCEPT ![r] = [q EXCEPT !.pc = "overwrite"]]
        \/ req' = [req EXCEPT ![r] = [q EXCEPT !.pc = "stamp",
              !.val = IF Valid(cfg, q.kind = "publish", SecretIds) THEN "pass" ELSE "fail"]]
    BY <1>7, <1>8 DEF ReadVersion, Put, q, cfg
  <2>3. CASE req' = [req EXCEPT ![r] = [q EXCEPT !.pc = "overwrite"]]
    <3> DEFINE s == [q EXCEPT !.pc = "overwrite"]
    <3>1. /\ s.cfg = q.cfg /\ s.kind = q.kind /\ s.patch = q.patch /\ s.key = q.key
          /\ s.cred = q.cred /\ s.pc = "overwrite"
      BY <1>6
    <3>2. req' = [req EXCEPT ![r] = s]
      BY <2>3
    <3> HIDE DEF s
    <3> QED BY <1>5, <2>1, <3>1, <3>2 DEF HandServes, Hand
  <2>4. CASE req' = [req EXCEPT ![r] = [q EXCEPT !.pc = "stamp",
              !.val = IF Valid(cfg, q.kind = "publish", SecretIds) THEN "pass" ELSE "fail"]]
    <3> DEFINE val == IF Valid(cfg, q.kind = "publish", SecretIds) THEN "pass" ELSE "fail"
               s == [q EXCEPT !.pc = "stamp", !.val = val]
    <3>1. req' = [req EXCEPT ![r] = s]
      BY <2>4
    <3>2. val = "pass" /\ q.kind = "publish" => Valid(cfg, TRUE, SecretIds)
      OBVIOUS
    <3> HIDE DEF val
    <3>3. /\ s.cfg = q.cfg /\ s.kind = q.kind /\ s.patch = q.patch /\ s.key = q.key
          /\ s.cred = q.cred /\ s.pc = "stamp" /\ s.val = val /\ s.ver = q.ver
      BY <1>6
    <3> HIDE DEF s
    <3>4. HandServes(s, rows', SecretIds)
      BY <1>3, <2>1, <3>2, <3>3 DEF HandServes
    <3> QED BY <1>5, <2>1, <3>1, <3>3, <3>4 DEF Hand
  <2> QED BY <1>4, <2>1, <2>2, <2>3, <2>4
<1>9. CASE OverwriteDraft(r)
  <2> DEFINE row == Row("draft", q.cfg, "not_run")
  <2>1. Done(r) /\ UNCHANGED byHand /\ rows' = [rows EXCEPT ![q.ver] = row]
    BY <1>9 DEF OverwriteDraft, q
  <2>2. RowServes(row, q.ver, SecretIds, tested, byHand)
    BY <1>2, DraftServes DEF ReqServes
  <2> HIDE DEF row
  <2>3. \A v \in DOMAIN rows' :
          (v \in DOMAIN rows /\ rows'[v] = rows[v]) \/ (v = q.ver /\ rows'[v] = row)
    BY <2>1
  <2> QED BY <1>1, <1>2, <2>1, <2>2, <2>3, EndServes DEF q
<1>10. CASE StampValidation(r)
  <2> DEFINE row == [rows[q.ver] EXCEPT !.val = q.val, !.status = StatusFor(q.val)]
  <2>1. /\ q.pc = "stamp" /\ UNCHANGED byHand /\ rows' = [rows EXCEPT ![q.ver] = row]
        /\ Done(r) \/ (q.kind = "publish" /\ Goto(r, "recheck"))
    BY <1>10 DEF StampValidation, q
  <2>2. row.cfg = rows[q.ver].cfg /\ row.status \in {"draft", "failed"} /\ row.val = q.val
    BY <1>2 DEF RowsOK, IsVersion, StatusFor
  <2> HIDE DEF row
  <2>3. RowServes(row, q.ver, SecretIds, tested, byHand)
    BY <1>3, <2>2 DEF RowServes
  <2>4. /\ rows'[q.ver] = row
        /\ \A v \in DOMAIN rows' :
             (v \in DOMAIN rows /\ rows'[v] = rows[v]) \/ (v = q.ver /\ rows'[v] = row)
    BY <1>2, <2>1
  <2>5. CASE Done(r)
    BY <1>1, <1>2, <2>1, <2>3, <2>4, <2>5, EndServes DEF q
  <2>6. CASE q.kind = "publish" /\ Goto(r, "recheck")
    <3> DEFINE s == [q EXCEPT !.pc = "recheck"]
    <3>1. /\ s.cfg = q.cfg /\ s.kind = q.kind /\ s.patch = q.patch /\ s.key = q.key
          /\ s.cred = q.cred /\ s.pc = "recheck" /\ s.ver = q.ver
      BY <1>6
    <3>2. req' = [req EXCEPT ![r] = s]
      BY <1>7, <2>6
    <3> HIDE DEF s
    <3>3. HandServes(s, rows', SecretIds)
      BY <1>2, <2>1, <2>2, <2>4, <2>6, <3>1 DEF HandServes
    <3> QED BY <1>5, <2>1, <2>3, <2>4, <3>1, <3>2, <3>3 DEF Hand
  <2> QED BY <2>1, <2>5, <2>6
<1>11. CASE RereadValidation(r)
  <2>1. /\ q.pc = "recheck" /\ UNCHANGED <<rows, byHand>>
        /\ Done(r) \/ (rows[q.ver].val = "pass" /\ Goto(r, "activate"))
    BY <1>11 DEF RereadValidation, q
  <2>2. CASE rows[q.ver].val = "pass" /\ Goto(r, "activate")
    <3> DEFINE s == [q EXCEPT !.pc = "activate"]
    <3>1. /\ s.cfg = q.cfg /\ s.kind = q.kind /\ s.patch = q.patch /\ s.key = q.key
          /\ s.cred = q.cred /\ s.pc = "activate" /\ s.ver = q.ver
      BY <1>6
    <3>2. req' = [req EXCEPT ![r] = s]
      BY <1>7, <2>2
    <3> HIDE DEF s
    <3>3. HandServes(s, rows', SecretIds)
      BY <1>2, <2>1, <2>2, <3>1 DEF HandServes
    <3> QED BY <1>5, <2>1, <3>1, <3>2, <3>3 DEF Hand
  <2> QED BY <1>4, <2>1, <2>2
<1>12. CASE ActivateDraft(r)
  <2>1. /\ q.pc = "activate" /\ Done(r) /\ byHand' = byHand \cup {q.ver}
        /\ rows' = [Superseded(rows) EXCEPT ![q.ver].status = "active"]
    BY <1>12 DEF ActivateDraft, q
  <2>2. Valid(cfg, TRUE, SecretIds) /\ q.ver \in byHand'
    BY <1>2, <1>3, <2>1 DEF HandServes
  <2>3. Sound(cfg, SecretIds) /\ (cfg.enabled => HasKey(cfg))
    BY <1>3, <2>2, ValidIsSound
  <2>4. rows[q.ver].cfg.enabled = cfg.enabled
    BY <1>3, NormalizeProviders DEF Own
  <2>5. \A w \in DOMAIN rows' : RowServes(rows'[w], w, SecretIds, tested, byHand')
    <3> DEFINE v == q.ver
               hand == byHand'
               new == rows'
    <3>1. /\ v \in DOMAIN rows /\ byHand \subseteq hand
          /\ new = [Superseded(rows) EXCEPT ![v].status = "active"]
      BY <1>1, <1>2, <2>1
    <3>2. Serves(rows[v].cfg, v, hand)
      BY <1>3, <2>2, <2>3, <2>4 DEF Serves
    <3> HIDE DEF v, hand, new
    <3>3. \A w \in DOMAIN new : RowServes(new[w], w, SecretIds, tested, hand)
      BY <1>2, <3>1, <3>2, ActivateServes
    <3> QED BY <3>3 DEF hand, new
  <2> QED BY <1>1, <1>2, <2>1, <2>5, EndServes DEF q
<1> QED BY <1>8, <1>9, <1>10, <1>11, <1>12

-----------------------------------------------------------------------------
(* Arrivals.                                                                *)

Fresh(body) ==
    /\ Own(body.cfg) /\ IsProvider(body.patch)
    /\ body.kind \in {"apply", "delete"} => ~body.cred
    /\ body.pc \in {"ensure", "read", "secret"}
    /\ body.pc = "secret" => body.kind = "secret"

LEMMA ArrivalServes ==
  ASSUME IInv, SInv, NEW r \in Requests, NEW body, Arrive(r, body), Fresh(body)
  PROVE  SInv'
<1>1. /\ req[r].pc = "idle" /\ req' = [req EXCEPT ![r] = body]
      /\ UNCHANGED <<rows, secrets, tested, byHand>> /\ SecretIds' = SecretIds
  BY DEF Arrive, Free, SecretIds
<1>2. /\ req'[r] = body /\ DOMAIN req = Requests
      /\ \A o \in Requests : o # r => req'[o] = req[o]
  BY <1>1 DEF IInv, ReqOK
<1>3. RowsServe'
  BY <1>1 DEF SInv, RowsServe
<1>4. ReqsServe'
  <2>1. ReqServes(body, SecretIds, tested) /\ HandServes(body, rows, SecretIds)
    BY DEF Fresh, ReqServes, HandServes, Sealing
  <2> QED BY <1>1, <1>2, <2>1 DEF SInv, ReqsServe
<1> QED BY <1>3, <1>4 DEF SInv

\* A request that arrives with no configuration of its own.
LEMMA PlainIsFresh ==
  ASSUME NEW body, body.cfg = DefaultConfig, IsProvider(body.patch),
         body.kind \in {"apply", "delete"} => ~body.cred,
         body.pc \in {"ensure", "read", "secret"}, body.pc = "secret" => body.kind = "secret"
  PROVE  Fresh(body)
BY DefaultServes DEF Fresh

LEMMA PatchIsProvider ==
  /\ IsProvider(NoProvider)
  /\ \A n, m, prio : n \in Nat /\ prio \in Int =>
       IsProvider([NoProvider EXCEPT !.name = n, !.model = m, !.prio = prio])
<1>1. IsProvider(NoProvider)
  BY DEF NoProvider, IsProvider, NoKey
<1>2. ASSUME NEW n, NEW m, NEW prio, n \in Nat, prio \in Int
      PROVE  IsProvider([NoProvider EXCEPT !.name = n, !.model = m, !.prio = prio])
  <2> HIDE DEF NoProvider
  <2>1. IsProvider(Changed(NoProvider, n, m, prio))
    BY <1>1, <1>2, ChangedProvider
  <2> QED BY <2>1 DEF Changed
<1> QED BY <1>1, <1>2

LEMMA ArrivesFresh ==
  ASSUME NEW r \in Requests, Arrivals(r)
  PROVE  \E body : Arrive(r, body) /\ Fresh(body)
<1> DEFINE patch(n, m, prio) == [NoProvider EXCEPT !.name = n, !.model = m, !.prio = prio]
<1>0. /\ IsProvider(NoProvider)
      /\ \A n, m, prio : n \in Nat /\ prio \in Int => IsProvider(patch(n, m, prio))
  BY PatchIsProvider
<1>1. CASE CreateArrives(r)
  <2> DEFINE body(name, model, prio, test) ==
        [Body("create", "ensure") EXCEPT
           !.patch = patch(name, model, prio), !.cred = TRUE, !.test = test]
  <2>1. PICK name \in Names, model \in Models, prio \in Priorities \cup {0}, test \in BOOLEAN :
          Arrive(r, body(name, model, prio, test))
    BY <1>1 DEF CreateArrives
  <2> DEFINE b == body(name, model, prio, test)
             y == patch(name, model, prio)
  <2>2. IsProvider(y)
    <3>1. name \in Nat /\ prio \in Int
      BY InputAssumption
    <3> HIDE DEF patch
    <3> QED BY <1>0, <3>1
  <2> HIDE DEF y
  <2>3. b.kind = "create" /\ b.pc = "ensure" /\ b.cfg = DefaultConfig /\ b.patch = y
    BY DEF Body, Idle, y
  <2> HIDE DEF b
  <2>4. Fresh(b)
    BY <2>2, <2>3, PlainIsFresh
  <2> QED BY <2>1, <2>4 DEF b
<1>2. CASE UpdateArrives(r)
  <2> DEFINE body(key, p) ==
        [Body("update", "ensure") EXCEPT
           !.key = key, !.cred = p.cred, !.flag = p.makeDefault, !.test = p.test,
           !.patch = patch(p.name, p.model, p.prio)]
  <2>1. PICK key \in KnownKeys, p \in Patches : Arrive(r, body(key, p))
    BY <1>2 DEF UpdateArrives
  <2> DEFINE b == body(key, p)
             y == patch(p.name, p.model, p.prio)
  <2>2. IsProvider(y)
    <3>1. p.name \in Nat /\ p.prio \in Int
      BY InputAssumption
    <3> HIDE DEF patch
    <3> QED BY <1>0, <3>1
  <2> HIDE DEF y
  <2>3. b.kind = "update" /\ b.pc = "ensure" /\ b.cfg = DefaultConfig /\ b.patch = y
    BY DEF Body, Idle, y
  <2> HIDE DEF b
  <2>4. Fresh(b)
    BY <2>2, <2>3, PlainIsFresh
  <2> QED BY <2>1, <2>4 DEF b
<1>3. CASE \/ DeleteArrives(r) \/ ApplyArrives(r) \/ ProbeArrives(r) \/ SecretArrives(r)
           \/ DisableArrives(r) \/ ViewArrives(r)
  <2> DEFINE Plain(body) == /\ body.cfg = DefaultConfig /\ body.patch = NoProvider
                            /\ ~body.cred
                            /\ body.pc \in {"ensure", "secret"}
                            /\ body.pc = "secret" => body.kind = "secret"
  <2>1. \E body : Arrive(r, body) /\ Plain(body)
    <3> DEFINE del(key, other) == [Body("delete", "ensure") EXCEPT !.key = key, !.other = other]
               app(on, all) == [Body("apply", "ensure") EXCEPT !.on = on, !.flag = all]
               probe(key) == [Body("probe", "ensure") EXCEPT !.key = key]
               store(id) == [Body("secret", "secret") EXCEPT !.ver = id]
    <3>1. /\ \A key, other : Plain(del(key, other))
          /\ \A on, all : Plain(app(on, all))
          /\ \A key : Plain(probe(key))
          /\ \A id : Plain(store(id))
          /\ Plain(Body("disable", "ensure")) /\ Plain(Body("view", "ensure"))
      BY DEF Body, Idle
    <3>2. \/ \E key, other : Arrive(r, del(key, other))
          \/ \E on, all : Arrive(r, app(on, all))
          \/ \E key : Arrive(r, probe(key))
          \/ \E id : Arrive(r, store(id))
          \/ Arrive(r, Body("disable", "ensure"))
          \/ Arrive(r, Body("view", "ensure"))
      BY <1>3 DEF DeleteArrives, ApplyArrives, ProbeArrives, SecretArrives, DisableArrives,
         ViewArrives
    <3> HIDE DEF del, app, probe, store, Plain
    <3> QED BY <3>1, <3>2
  <2> QED BY <1>0, <2>1, PlainIsFresh
<1>4. CASE SaveDefaultArrives(r)
  <2> DEFINE body(kind, key, name, model, prio, cred) ==
        [Body(kind, "ensure") EXCEPT
           !.key = key, !.cred = cred, !.patch = patch(name, model, prio)]
  <2>1. PICK kind \in {"enable", "save"}, key \in KnownKeys \cup {NoKey}, name \in Names,
             model \in Models, prio \in Priorities, cred \in BOOLEAN :
          Arrive(r, body(kind, key, name, model, prio, cred))
    BY <1>4 DEF SaveDefaultArrives
  <2> DEFINE b == body(kind, key, name, model, prio, cred)
             y == patch(name, model, prio)
  <2>2. IsProvider(y)
    <3>1. name \in Nat /\ prio \in Int
      BY InputAssumption
    <3> HIDE DEF patch
    <3> QED BY <1>0, <3>1
  <2> HIDE DEF y
  <2>3. b.kind = kind /\ b.pc = "ensure" /\ b.cfg = DefaultConfig /\ b.patch = y
    BY DEF Body, Idle, y
  <2> HIDE DEF b
  <2>4. Fresh(b)
    BY <2>2, <2>3, PlainIsFresh
  <2> QED BY <2>1, <2>4 DEF b
<1>5. CASE ExpertArrives(r)
  <2> DEFINE put(v, data) == [Body("put", "read") EXCEPT !.ver = v, !.cfg = Normalize(data)]
             other(kind, v) == [Body(kind, "read") EXCEPT !.ver = v]
  <2>1. \/ Arrive(r, Body("new", "ensure"))
        \/ \E v : \E data \in Handmade : Arrive(r, put(v, data))
        \/ \E v : \E kind \in {"validate", "publish"} : Arrive(r, other(kind, v))
    BY <1>5 DEF ExpertArrives
  <2>2. CASE Arrive(r, Body("new", "ensure"))
    <3> DEFINE b == Body("new", "ensure")
    <3>1. b.kind = "new" /\ b.pc = "ensure" /\ b.cfg = DefaultConfig /\ b.patch = NoProvider
      BY DEF Body, Idle
    <3> HIDE DEF b
    <3>2. Fresh(b)
      BY <1>0, <3>1, PlainIsFresh
    <3> QED BY <2>2, <3>2 DEF b
  <2>3. CASE \E v : \E data \in Handmade : Arrive(r, put(v, data))
    <3>1. PICK v : \E data \in Handmade : Arrive(r, put(v, data))
      BY <2>3
    <3>2. PICK data \in Handmade : Arrive(r, put(v, data))
      BY <3>1
    <3> DEFINE b == put(v, data)
    <3>3. /\ b.kind = "put" /\ b.pc = "read" /\ b.cfg = Normalize(data)
          /\ b.patch = NoProvider
      BY DEF Body, Idle
    <3>4. Own(Normalize(data))
      BY InputAssumption, NormalizeProviders
    <3> HIDE DEF b
    <3>5. Fresh(b)
      BY <1>0, <3>3, <3>4 DEF Fresh
    <3> QED BY <3>2, <3>5 DEF b
  <2>4. CASE \E v : \E kind \in {"validate", "publish"} : Arrive(r, other(kind, v))
    <3>1. PICK v : \E kind \in {"validate", "publish"} : Arrive(r, other(kind, v))
      BY <2>4
    <3>2. PICK kind \in {"validate", "publish"} : Arrive(r, other(kind, v))
      BY <3>1
    <3> DEFINE b == other(kind, v)
    <3>3. b.kind = kind /\ b.pc = "read" /\ b.cfg = DefaultConfig /\ b.patch = NoProvider
      BY DEF Body, Idle
    <3> HIDE DEF b
    <3>4. Fresh(b)
      BY <1>0, <3>3, PlainIsFresh
    <3> QED BY <3>2, <3>4 DEF b
  <2> QED BY <2>1, <2>2, <2>3, <2>4
<1> QED BY <1>1, <1>2, <1>3, <1>4, <1>5 DEF Arrivals

-----------------------------------------------------------------------------
(* The specification.                                                       *)

LEMMA InitServes == Init => SInv
<1> SUFFICES ASSUME Init PROVE SInv
  OBVIOUS
<1>1. /\ \A r \in Requests : req[r] = Idle
      /\ byHand = {}
  BY DEF Init
<1>2. ReqsServe
  BY <1>1, IdleServes DEF ReqsServe
<1>3. CASE rows = <<>>
  BY <1>2, <1>3 DEF SInv, RowsServe
<1>4. CASE rows # <<>>
  <2> DEFINE cfgOf(p) == [enabled |-> TRUE, providers |-> <<p>>, route |-> <<p.key>>]
             old == [Row("active", DefaultConfig, "pass") EXCEPT !.status = "superseded"]
             new(p) == Row("active", cfgOf(p), "pass")
  <2>1. PICK p \in Served : rows = <<old, new(p)>> /\ secrets = <<1>> /\ tested = {Tested(p)}
    BY <1>4 DEF Init
  <2> DEFINE cfg == cfgOf(p)
             row == new(p)
             ps == <<p>>
             route == <<p.key>>
  <2>2. /\ IsProvider(p) /\ p.key # NoKey /\ p.model # NoModel /\ p.secret = 1
        /\ SecretIds = {1}
    BY <2>1, InputAssumption DEF SecretIds
  <2>3. /\ cfg.enabled = TRUE /\ cfg.providers = ps /\ cfg.route = route
        /\ cfg = [enabled |-> TRUE, providers |-> ps, route |-> route]
    OBVIOUS
  <2>4. /\ DOMAIN ps = {1} /\ ps[1] = p /\ Range(ps) = {p} /\ ps \in Seq(Range(ps))
        /\ DOMAIN route = {1} /\ route[1] = p.key /\ Range(route) = {p.key}
        /\ route \in Seq(Range(route))
    BY DEF Range
  <2>5. row.cfg = Normalize(cfg)
    BY DEF Row
  <2> HIDE DEF cfg, ps, route
  <2>6. Keyed(ps) /\ NamesApart(ps)
    BY <2>2, <2>4 DEF Keyed, NamesApart
  <2>7. Own(cfg)
    <3>1. IsConfig(cfg)
      BY <2>2, <2>3, <2>4 DEF IsConfig
    <3> QED BY <2>3, <2>6, <3>1 DEF Own
  <2>8. Sound(cfg, SecretIds) /\ HasKey(cfg)
    <3>1. ValidRoute(cfg)
      BY <2>3, <2>4 DEF ValidRoute, KeysOf, Range
    <3> QED BY <2>2, <2>3, <2>4, <2>7, <3>1 DEF Sound, HasKey
  <2>9. Normalize(cfg) = cfg
    BY <2>3, <2>6, <2>8, SoundNormalized
  <2>10. TestedIn(cfg, SecretIds, tested)
    BY <2>1, <2>2, <2>3, <2>4 DEF TestedIn, Usable, Routable
  <2>11. Ranked(cfg)
    <3> DEFINE S == {p}
               b == ByPriority(S)
    <3>1. S \subseteq Range(ps) /\ S \in SUBSET Range(cfg.providers) /\ \A x \in S : Routable(x)
      BY <2>2, <2>3, <2>4 DEF Routable
    <3>2. Cardinality(S) = 1
      BY FS_Singleton
    <3>3. DOMAIN b = {1}
      BY <3>2 DEF ByPriority, Keys, InOrder
    <3>4. Range(b) = {p.key}
      <4>1. Range(b) = {x.key : x \in S}
        BY <2>6, <3>1, ByPriorityListsAll
      <4> QED BY <4>1
    <3>5. b \in Seq(Range(b))
      BY <2>6, <3>1, ByPriorityListsAll
    <3> HIDE DEF b
    <3>6. b = route
      <4>1. b[1] = p.key
        BY <3>3, <3>4 DEF Range
      <4>2. b = [i \in {1} |-> p.key] /\ route = [i \in {1} |-> p.key]
        BY <2>4, <3>3, <3>5, <4>1
      <4> QED BY <4>2
    <3>7. cfg.route = ByPriority(S)
      BY <2>3, <3>6 DEF b
    <3> HIDE DEF S
    <3> QED BY <3>1, <3>7 DEF Ranked
  <2>12. RowServes(row, 2, SecretIds, tested, byHand)
    <3>1. row.cfg = cfg
      BY <2>5, <2>9
    <3> HIDE DEF row
    <3> QED BY <2>7, <2>8, <2>9, <2>10, <2>11, <3>1 DEF RowServes
  <2>13. RowServes(old, 1, SecretIds, tested, byHand)
    <3>1. old.cfg = Normalize(DefaultConfig)
      <4>1. old.cfg = Row("active", DefaultConfig, "pass").cfg
        BY DEF Row
      <4> HIDE DEF old
      <4> QED BY <4>1 DEF Row
    <3> HIDE DEF old
    <3>2. Own(Normalize(DefaultConfig)) /\ ~Normalize(DefaultConfig).enabled
      BY DefaultServes, NormalizeProviders DEF Own
    <3> QED BY <3>1, <3>2 DEF RowServes
  <2> HIDE DEF old, new
  <2>14. DOMAIN rows = {1, 2} /\ rows[1] = old /\ rows[2] = row
    BY <2>1
  <2>15. RowsServe
    BY <2>12, <2>13, <2>14 DEF RowsServe
  <2> QED BY <1>2, <2>15 DEF SInv
<1> QED BY <1>3, <1>4

LEMMA ServesStep ==
  ASSUME ExpertAlone, IInv, KeysOK, SInv, [Next]_vars
  PROVE  SInv'
<1>1. CASE UNCHANGED vars
  BY <1>1 DEF vars, SInv, RowsServe, ReqsServe, SecretIds
<1>2. ASSUME NEW r \in Requests, Arrivals(r) PROVE SInv'
  BY <1>2, ArrivesFresh, ArrivalServes
<1>3. ASSUME NEW r \in Requests, Steps(r) PROVE SInv'
  BY <1>3, LoadingServes, SettingsServe, TestServes, MasterKeyServes,
     InsertSecretServes, StoreSecretServes, SavesServe, PublishServes, DisableServes,
     DraftApiServes DEF Steps
<1>4. CASE Next
  <2>1. PICK r \in Requests : Arrivals(r) \/ Steps(r)
    BY <1>4 DEF Next, Arrivals, Steps
  <2> QED BY <1>2, <1>3, <2>1
<1> QED BY <1>1, <1>4

LEMMA SpecServes == ExpertAlone => (Spec => [](IInv /\ SInv))
<1> SUFFICES ASSUME ExpertAlone PROVE Spec => [](IInv /\ SInv)
  OBVIOUS
<1>1. Init => IInv /\ KeysOK /\ SInv
  BY InitIInv, InitKeys, InitServes
<1>2. IInv /\ KeysOK /\ SInv /\ [Next]_vars => (IInv /\ KeysOK /\ SInv)'
  BY StepPreserves, KeysStep, ServesStep DEF Preserved
<1> QED BY <1>1, <1>2, PTL DEF Spec

(***************************************************************************)
(* A question put to an enabled active configuration finds providers that  *)
(* have a model and an API key that exists, whatever the providers are     *)
(* called and whatever settings requests were interleaved.  Where none is  *)
(* named like the key of another it tries what the settings page shows,    *)
(* and, unless the draft API activated the version, by priority.           *)
(***************************************************************************)
THEOREM ActiveServed == ExpertAlone => (Spec => []ActiveIsServed)
<1> SUFFICES ASSUME ExpertAlone PROVE Spec => []ActiveIsServed
  OBVIOUS
<1>1. SInv => ActiveIsServed
  <2> SUFFICES ASSUME SInv, NEW v \in WithStatus({"active"}), NEW cfg, cfg = Config(v),
                      cfg.enabled
               PROVE  LET ps == cfg.providers
                          tries == Attempts(cfg)
                          shown == ShownRoute(cfg, SecretIds)
                      IN /\ tries # <<>> /\ shown # <<>>
                         /\ \A k \in Range(tries) :
                              \E p \in Range(ps) : p.key = k /\ Usable(p, SecretIds)
                         /\ NamesApart(ps) => shown = tries
                         /\ NamesApart(ps) /\ v \notin byHand =>
                              tries = ByPriority({p \in Range(ps) : p.key \in Range(tries)})
    BY DEF ActiveIsServed
  <2>1. RowServes(rows[v], v, SecretIds, tested, byHand) /\ rows[v].status = "active"
    BY DEF SInv, RowsServe, WithStatus, Versions
  <2>2. rows[v].cfg.enabled /\ cfg = Normalize(rows[v].cfg)
    BY <2>1, NormalizeProviders DEF RowServes, Config, Own
  <2>3. /\ Sound(cfg, SecretIds) /\ HasKey(cfg)
        /\ v \in byHand \/ (TestedIn(cfg, SecretIds, tested) /\ Ranked(cfg))
    BY <2>1, <2>2 DEF RowServes
  <2>4. Own(cfg) /\ ValidRoute(cfg)
    BY <2>3 DEF Sound
  <2>5. PICK p \in Range(cfg.providers) : Usable(p, SecretIds) /\ Routable(p)
    BY <2>3, RoutableIsUsable DEF HasKey
  <2>6. Attempts(cfg) # <<>> /\ ShownRoute(cfg, SecretIds) # <<>>
    BY <2>4, <2>5, AttemptsAreRoutable, ShownIsNotEmpty
  <2>7. \A k \in Range(Attempts(cfg)) :
          \E q \in Range(cfg.providers) : q.key = k /\ Usable(q, SecretIds)
    BY <2>3, <2>4, AttemptsAreRoutable, RoutableIsUsable
  <2>8. NamesApart(cfg.providers) => ShownRoute(cfg, SecretIds) = Attempts(cfg)
    BY <2>3, ShownIsTried
  <2>9. ASSUME NamesApart(cfg.providers), v \notin byHand
        PROVE  Attempts(cfg) =
                 ByPriority({q \in Range(cfg.providers) : q.key \in Range(Attempts(cfg))})
    <3>1. PICK S \in SUBSET Range(cfg.providers) :
            (\A q \in S : Routable(q)) /\ cfg.route = ByPriority(S)
      BY <2>3, <2>9 DEF Ranked
    <3>2. PICK q \in Range(cfg.providers) : q.key \in Range(cfg.route)
      BY <2>3, <2>9 DEF TestedIn
    <3>3. S # {}
      <4>1. Range(cfg.route) = {x.key : x \in S}
        BY <2>4, <3>1, ByPriorityListsAll DEF Own
      <4> QED BY <3>2, <4>1
    <3> QED BY <2>4, <2>9, <3>1, <3>3, RankedIsTried
  <2> QED BY <2>6, <2>7, <2>8, <2>9
<1> QED BY <1>1, SpecServes, PTL

(***************************************************************************)
(* AI that was enabled through the settings has a usable provider whose    *)
(* connection test passed with the model and the API key's row it has in   *)
(* the active version, whatever other requests saved while it was tested;  *)
(* and questions try it, unless a provider is named like the key of        *)
(* another.  It is one key's row that was tested: a PATCH of the secret    *)
(* itself may replace the key in it.                                       *)
(***************************************************************************)
THEOREM EnabledTested == ExpertAlone => (Spec => []EnabledIsTested)
<1> SUFFICES ASSUME ExpertAlone PROVE Spec => []EnabledIsTested
  OBVIOUS
<1>1. SInv => EnabledIsTested
  <2> SUFFICES ASSUME SInv, NEW v \in WithStatus({"active"}) \ byHand, NEW cfg,
                      cfg = Config(v), cfg.enabled
               PROVE  \E p \in Range(cfg.providers) :
                        /\ Usable(p, SecretIds) /\ Tested(p) \in tested
                        /\ NamesApart(cfg.providers) => p.key \in Range(Attempts(cfg))
    BY DEF EnabledIsTested
  <2>1. RowServes(rows[v], v, SecretIds, tested, byHand) /\ rows[v].status = "active"
    BY DEF SInv, RowsServe, WithStatus, Versions
  <2>2. rows[v].cfg.enabled /\ cfg = Normalize(rows[v].cfg)
    BY <2>1, NormalizeProviders DEF RowServes, Config, Own
  <2>3. Sound(cfg, SecretIds) /\ TestedIn(cfg, SecretIds, tested)
    BY <2>1, <2>2 DEF RowServes
  <2>4. PICK p \in Range(cfg.providers) :
          /\ Usable(p, SecretIds) /\ Tested(p) \in tested
          /\ NamesApart(cfg.providers) => p.key \in Range(cfg.route)
    BY <2>3 DEF TestedIn
  <2>5. NamesApart(cfg.providers) => p.key \in Range(Attempts(cfg))
    BY <2>3, <2>4, RoutedIsAttempted DEF Sound, Usable
  <2> QED BY <2>4, <2>5
<1> QED BY <1>1, SpecServes, PTL
=============================================================================
