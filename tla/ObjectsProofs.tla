--------------------------- MODULE ObjectsProofs ---------------------------
(* Edges, indexes and dangling edges of Objects, for any sessions, schema,   *)
(* inputs and bounds.  ObjInv, of ObjectsWrites, is inductive: the database  *)
(* is paired, typed, exactly indexed while no id was taken twice, and        *)
(* whoever dangles is explained; every call in progress has a snapshot that  *)
(* agrees with the database outside its dirty keys, and a good write once it *)
(* is staged.  The steps of one call come first, then a lemma for each       *)
(* action; a commit's is PublishedInv.                                       *)
EXTENDS ObjectsStages

-----------------------------------------------------------------------------
(* The steps of one call.                                                  *)

\* The store's part depends on the database and the history alone.
LEMMA StoreSame ==
    ASSUME StoreInv, UNCHANGED <<db, history>>
    PROVE  StoreInv'
<1>1. UNCHANGED <<collided, skewed, cascaded>>
  BY DEF history
<1>2. Paired(db)'
  BY Zenon DEF StoreInv, Paired
<1>3. Typed(db)'
  BY Zenon DEF StoreInv, Typed, Live, Object
<1>4. IndexesExact'
  BY <1>1, Zenon DEF StoreInv, IndexesExact, Indexed, Live, Object
<1>5. DanglingExplained'
  BY <1>1, Zenon DEF StoreInv, DanglingExplained, Whole, Edges, Live
<1> QED BY <1>2, <1>3, <1>4, <1>5 DEF StoreInv

\* A step of s that leaves the database alone.
LEMMA CallStep ==
    ASSUME ObjInv, NEW s \in Session, NEW n, call' = [call EXCEPT ![s] = n], CallInv(n, db),
           UNCHANGED <<db, setup, history>>, next_object_id' \in Nat \ {0}
    PROVE  ObjInv'
<1>1. StoreInv'
  BY StoreSame DEF ObjInv
<1>2. /\ call' = [x \in Session |-> call'[x]]
      /\ \A x \in Session \ {s} : call'[x] = call[x]
      /\ call'[s] = n
  BY DEF ObjInv, CallsInv
<1>3. \A x \in Session : CallInv(call'[x], db)
  BY <1>2 DEF ObjInv, CallsInv
<1>4. \A x \in Session : CallInv(call[x], db)'
  <2>1. TAKE x \in Session
  <2>2. CallInv(call'[x], db')
    BY <1>3
  <2> QED BY <2>2, Zenon DEF CallInv, Begun, IsStaged, GoodWrite, PairedWrite, IndexWrite, EdgeWrite,
          GoodArg, Paired, Typed, Agree, Live, Object
<1>5. CallsInv'
  BY <1>2, <1>4 DEF ObjInv, CallsInv
<1> QED BY <1>1, <1>5 DEF ObjInv

\* A call that ends without writing.
LEMMA IdleStep ==
    ASSUME ObjInv, NEW s \in Session, call' = [call EXCEPT ![s] = Idle],
           UNCHANGED <<db, setup, history>>, next_object_id' \in Nat \ {0}
    PROVE  ObjInv'
<1>1. CallInv(Idle, db)
  BY DEF CallInv, Idle
<1> QED BY <1>1, CallStep, Zenon

\* A call that begins has the database for its snapshot.
LEMMA BeginStep ==
    ASSUME ObjInv, NEW s \in Session, NEW kind, NEW arg, Begin(s, kind, arg),
           GoodArg(kind, arg), next_object_id' \in Nat \ {0}
    PROVE  ObjInv'
<1> DEFINE n == [pc |-> "begun", kind |-> kind, arg |-> arg, snap |-> db, dirty |-> {}]
<1>1. call' = [call EXCEPT ![s] = n] /\ UNCHANGED <<db, setup, history>>
  BY DEF Begin
<1>2. Paired(db) /\ Typed(db) /\ Agree(db, db, {})
  BY DEF ObjInv, StoreInv, Agree
<1>3. Begun(n) /\ n.kind = kind /\ n.arg = arg /\ n.snap = db /\ n.dirty = {}
  BY DEF Begun
<1> HIDE DEF n
<1>4. CallInv(n, db)
  BY <1>2, <1>3 DEF CallInv
<1> QED BY <1>1, <1>4, CallStep, Zenon

\* A call that stages a good write keeps its snapshot.
LEMMA StagedStep ==
    ASSUME ObjInv, NEW s \in Session, call[s].pc = "begun",
           NEW w, NEW bumped, NEW deleted, Staged(s, w, bumped, deleted),
           GoodWrite(w, call[s].snap, call[s].kind, call[s].arg, deleted),
           next_object_id' \in Nat \ {0}
    PROVE  ObjInv'
<1> DEFINE c == call[s]
           n == [pc |-> "staged", kind |-> c.kind, arg |-> c.arg, snap |-> c.snap,
                 dirty |-> c.dirty, write |-> w, bumped |-> bumped, deleted |-> deleted]
<1>1. call' = [call EXCEPT ![s] = n] /\ UNCHANGED <<db, setup, history>>
  BY DEF Staged, ObjInv, CallsInv
<1>2. /\ Paired(c.snap) /\ Typed(c.snap) /\ Agree(c.snap, db, c.dirty)
      /\ GoodArg(c.kind, c.arg)
  BY DEF ObjInv, CallsInv, CallInv, IsStaged
<1>3. /\ IsStaged(n) /\ n.kind = c.kind /\ n.arg = c.arg /\ n.snap = c.snap
      /\ n.dirty = c.dirty /\ n.write = w /\ n.deleted = deleted
  BY DEF IsStaged
<1> HIDE DEF n
<1>4. CallInv(n, db)
  BY <1>2, <1>3 DEF CallInv
<1> QED BY <1>1, <1>4, CallStep, Zenon

\* What a begun call may rely on.
LEMMA BegunHas ==
    ASSUME ObjInv, NEW s \in Session, NEW kind, Staging(s, kind)
    PROVE  /\ call[s].pc = "begun" /\ call[s].kind = kind
           /\ GoodArg(kind, call[s].arg)
           /\ Paired(call[s].snap) /\ Typed(call[s].snap)
BY DEF ObjInv, CallsInv, CallInv, IsStaged, Staging

\* What Behind does to the record of a call.
LEMMA BegunDirty ==
    ASSUME NEW c, Begun(c), NEW D
    PROVE  [c EXCEPT !.dirty = @ \cup D] =
               [pc |-> "begun", kind |-> c.kind, arg |-> c.arg, snap |-> c.snap,
                dirty |-> c.dirty \cup D]
<1>1. \A k, a, p, q :
         [[pc |-> "begun", kind |-> k, arg |-> a, snap |-> p, dirty |-> q]
              EXCEPT !.dirty = @ \cup D] =
         [pc |-> "begun", kind |-> k, arg |-> a, snap |-> p, dirty |-> q \cup D]
  OBVIOUS
<1>2. c = [pc |-> "begun", kind |-> c.kind, arg |-> c.arg, snap |-> c.snap, dirty |-> c.dirty]
  BY DEF Begun
<1> QED BY ONLY <1>1, <1>2

\* The same of a staged call.
LEMMA StagedDirty ==
    ASSUME NEW c, IsStaged(c), NEW D
    PROVE  [c EXCEPT !.dirty = @ \cup D] =
               [pc |-> "staged", kind |-> c.kind, arg |-> c.arg, snap |-> c.snap,
                dirty |-> c.dirty \cup D, write |-> c.write, bumped |-> c.bumped,
                deleted |-> c.deleted]
BY DEF IsStaged

\* A commit: what it changes is dirty for the other calls.
LEMMA PublishedInv ==
    ASSUME ObjInv, NEW s \in Session, Published(s),
           NEW n, n = Idle \/ (n.pc = "committed" /\ n.kind = call[s].kind /\ n.arg = call[s].arg),
           call' = Behind(s, n), UNCHANGED <<setup, next_object_id>>
    PROVE  ObjInv'
<1> DEFINE w == call[s].write
<1>1. call[s].pc = "staged" /\ db' = Apply(db, w)
  BY DEF Published
<1> HIDE DEF w
<1>2. \A k : k \notin WriteSet(w) => /\ k \in DOMAIN db' <=> k \in DOMAIN db
                                     /\ k \in DOMAIN db => db'[k] = db[k]
  BY <1>1, ApplyKept
<1>3. call' = [x \in Session |-> call'[x]]
  BY DEF Behind
<1>4. GoodArg(call[s].kind, call[s].arg)
  BY <1>1 DEF ObjInv, CallsInv, CallInv
<1>5. ASSUME NEW x \in Session PROVE CallInv(call'[x], db')
  <2>1. CASE x = s
    <3>1. call'[x] = n
      BY <2>1 DEF Behind
    <3> QED BY <1>4, <3>1 DEF CallInv, Idle
  <2>2. CASE x /= s /\ call[x].pc \notin {"begun", "staged"}
    <3>1. call'[x] = call[x]
      BY <2>2 DEF Behind
    <3>2. \/ call[x].pc = "idle"
          \/ call[x].pc = "committed" /\ GoodArg(call[x].kind, call[x].arg)
      BY <2>2 DEF ObjInv, CallsInv, CallInv, Begun, IsStaged
    <3> QED BY <3>1, <3>2 DEF CallInv
  <2>3. CASE x /= s /\ call[x].pc \in {"begun", "staged"}
    <3> DEFINE c == call[x]
               m == [c EXCEPT !.dirty = @ \cup WriteSet(w)]
    <3>1. call'[x] = m
      BY <2>3 DEF Behind, w
    <3>2. /\ \/ Begun(c)
             \/ IsStaged(c) /\ GoodWrite(c.write, c.snap, c.kind, c.arg, c.deleted)
          /\ Paired(c.snap) /\ Typed(c.snap) /\ Agree(c.snap, db, c.dirty)
          /\ GoodArg(c.kind, c.arg)
      BY <2>3 DEF ObjInv, CallsInv, CallInv
    <3>3. /\ m.snap = c.snap /\ m.dirty = c.dirty \cup WriteSet(w)
          /\ m.kind = c.kind /\ m.arg = c.arg
          /\ \/ Begun(m)
             \/ IsStaged(m) /\ GoodWrite(m.write, m.snap, m.kind, m.arg, m.deleted)
      <4>1. CASE Begun(c)
        <5>1. m = [pc |-> "begun", kind |-> c.kind, arg |-> c.arg, snap |-> c.snap,
                   dirty |-> c.dirty \cup WriteSet(w)]
          BY <4>1, BegunDirty
        <5> HIDE DEF m
        <5> QED BY <5>1 DEF Begun
      <4>2. CASE IsStaged(c) /\ GoodWrite(c.write, c.snap, c.kind, c.arg, c.deleted)
        <5>1. m = [pc |-> "staged", kind |-> c.kind, arg |-> c.arg, snap |-> c.snap,
                   dirty |-> c.dirty \cup WriteSet(w), write |-> c.write,
                   bumped |-> c.bumped, deleted |-> c.deleted]
          BY <4>2, StagedDirty
        <5> HIDE DEF m
        <5>2. /\ m.snap = c.snap /\ m.write = c.write /\ m.kind = c.kind /\ m.arg = c.arg
              /\ m.deleted = c.deleted /\ m.dirty = c.dirty \cup WriteSet(w)
          BY <5>1
        <5>3. IsStaged(m)
          BY <5>1 DEF IsStaged
        <5> QED BY <4>2, <5>2, <5>3
      <4> QED BY <3>2, <4>1, <4>2
    <3> HIDE DEF m
    <3>4. Agree(m.snap, db', m.dirty)
      BY <1>2, <3>2, <3>3 DEF Agree
    <3>5. CallInv(m, db')
      BY <3>2, <3>3, <3>4 DEF CallInv
    <3> QED BY <3>1, <3>5
  <2> QED BY <2>1, <2>2, <2>3
<1>6. \A x \in Session : CallInv(call[x], db)'
  <2>1. TAKE x \in Session
  <2>2. CallInv(call'[x], db')
    BY <1>5
  <2> QED BY <2>2, Zenon DEF CallInv, Begun, IsStaged, GoodWrite, PairedWrite, IndexWrite, EdgeWrite,
          GoodArg, Paired, Typed, Agree, Live, Object
<1>7. CallsInv'
  BY <1>3, <1>6 DEF ObjInv, CallsInv
<1> QED BY <1>7, PublishedStore DEF ObjInv

-----------------------------------------------------------------------------
(* Every action.                                                           *)

\* The arguments a call begins with are good ones.
LEMMA BeginInv ==
    ASSUME ObjInv, NEW s \in Session,
           BeginCreate(s) \/ BeginCreateBatch(s) \/ BeginRestore(s) \/ BeginUpdate(s)
               \/ BeginDelete(s) \/ BeginLink(s)
    PROVE  ObjInv'
<1>1. next_object_id \in Nat \ {0} /\ setup \in Setups
  BY DEF ObjInv, CallsInv
<1>2. ASSUME NEW kind, NEW a \in Inputs(kind)
      PROVE  /\ kind = "create" => a \in Row
             /\ kind = "create_batch" => a \in Seq(Row)
             /\ kind = "restore" => a.row \in Row /\ a.id \in Id
             /\ kind = "update" => a.o \in Obj /\ a.key \in KeyValue \cup {Null}
             /\ kind = "delete" => a \in Obj
             /\ kind \in {"link", "unlink"} => a \in Id \X Rel \X Id
  <2>1. PICK i \in setup.inputs : i[1] = kind /\ a = i[2]
    BY DEF Inputs
  <2> QED BY <1>1, <2>1, InputAssumption
<1>3. CASE BeginCreate(s)
  <2>1. PICK row \in Inputs("create") :
           Begin(s, "create", [rows |-> <<row>>, ids |-> <<next_object_id>>])
    BY <1>3 DEF BeginCreate
  <2>2. next_object_id \in Id /\ next_object_id' \in Nat \ {0}
    BY <1>1, <1>3, SchemaAssumption DEF BeginCreate, Id
  <2>3. row \in Row
    BY <1>2
  <2>4. GoodArg("create", [rows |-> <<row>>, ids |-> <<next_object_id>>])
    BY <2>2, <2>3 DEF GoodArg
  <2> QED BY <2>1, <2>2, <2>4, BeginStep
<1>4. CASE BeginCreateBatch(s)
  <2>1. PICK rows \in Inputs("create_batch") :
           Begin(s, "create_batch", [rows |-> rows, ids |-> <<>>])
    BY <1>4 DEF BeginCreateBatch
  <2>2. next_object_id' = next_object_id
    BY <1>4 DEF BeginCreateBatch
  <2>3. GoodArg("create_batch", [rows |-> rows, ids |-> <<>>])
    BY <1>2 DEF GoodArg
  <2> QED BY <1>1, <2>1, <2>2, <2>3, BeginStep
<1>5. CASE BeginRestore(s)
  <2>1. PICK i \in Inputs("restore") : Begin(s, "restore", [rows |-> <<i.row>>, ids |-> <<i.id>>])
    BY <1>5, Zenon DEF BeginRestore
  <2>2. next_object_id' = next_object_id
    BY <1>5 DEF BeginRestore
  <2>3. i.row \in Row /\ i.id \in Id
    BY <1>2
  <2>4. GoodArg("restore", [rows |-> <<i.row>>, ids |-> <<i.id>>])
    BY <2>3 DEF GoodArg
  <2> QED BY <1>1, <2>1, <2>2, <2>4, BeginStep
<1>6. CASE BeginUpdate(s)
  <2>1. PICK a \in Inputs("update") : Begin(s, "update", a)
    BY <1>6 DEF BeginUpdate
  <2>2. next_object_id' = next_object_id
    BY <1>6 DEF BeginUpdate
  <2>3. GoodArg("update", a)
    BY <1>2 DEF GoodArg
  <2> QED BY <1>1, <2>1, <2>2, <2>3, BeginStep
<1>7. CASE BeginDelete(s)
  <2>1. PICK o \in Inputs("delete") : Begin(s, "delete", [o |-> o])
    BY <1>7 DEF BeginDelete
  <2>2. next_object_id' = next_object_id
    BY <1>7 DEF BeginDelete
  <2>3. GoodArg("delete", [o |-> o])
    BY <1>2 DEF GoodArg
  <2> QED BY <1>1, <2>1, <2>2, <2>3, BeginStep
<1>8. CASE BeginLink(s)
  <2>0. PICK kind \in {"link", "unlink"} : \E e \in Inputs(kind) :
           Begin(s, kind, [src |-> e[1], rel |-> e[2], tgt |-> e[3]])
    BY <1>8, Zenon DEF BeginLink
  <2>1. PICK e \in Inputs(kind) : Begin(s, kind, [src |-> e[1], rel |-> e[2], tgt |-> e[3]])
    BY <2>0
  <2>2. next_object_id' = next_object_id
    BY <1>8 DEF BeginLink
  <2>3. e \in Id \X Rel \X Id
    BY <1>2
  <2>4. GoodArg(kind, [src |-> e[1], rel |-> e[2], tgt |-> e[3]])
    BY <2>1, <2>3 DEF GoodArg
  <2> QED BY <1>1, <2>1, <2>2, <2>4, BeginStep
<1> QED BY <1>3, <1>4, <1>5, <1>6, <1>7, <1>8

\* A call that fails leaves the database alone.
LEMMA FailsInv ==
    ASSUME ObjInv, NEW s \in Session, Fails(s), next_object_id' \in Nat \ {0}
    PROVE  ObjInv'
BY IdleStep, Zenon DEF Fails

\* create and restore stage one row, or fail.
LEMMA StageCreateInv ==
    ASSUME ObjInv, NEW s \in Session, StageCreate(s) \/ StageRestore(s)
    PROVE  ObjInv'
<1> DEFINE a == call[s].arg
           d == call[s].snap
<1>1. PICK kind \in {"create", "restore"} : Staging(s, kind)
  BY DEF StageCreate, StageRestore
<1>2. next_object_id' \in Nat \ {0}
  BY DEF StageCreate, StageRestore, ObjInv, CallsInv
<1>3. \/ Fails(s)
      \/ /\ ~ RowFails(d, a.rows, a.ids, 1)
         /\ Staged(s, StageCreateWrites(d, a.rows, a.ids), Created(a.rows, a.ids), {})
  BY DEF StageCreate, StageRestore
<1>4. call[s].pc = "begun" /\ call[s].kind = kind /\ GoodArg(kind, a)
  BY <1>1, BegunHas
<1>5. ASSUME ~ RowFails(d, a.rows, a.ids, 1) PROVE GoodRows(d, a.rows, a.ids)
  BY <1>4, <1>5 DEF GoodArg, GoodRows
<1> HIDE DEF a, d
<1>6. ASSUME GoodRows(d, a.rows, a.ids)
      PROVE  GoodWrite(StageCreateWrites(d, a.rows, a.ids), d, kind, a, {})
  BY <1>6, CreateGood
<1> QED BY <1>2, <1>3, <1>4, <1>5, <1>6, FailsInv, StagedStep DEF a, d

\* The rows of a batch take consecutive ids.
LEMMA StageCreateBatchInv ==
    ASSUME ObjInv, NEW s \in Session, StageCreateBatch(s)
    PROVE  ObjInv'
<1> DEFINE rows == call[s].arg.rows
           d == call[s].snap
           ids == [n \in DOMAIN rows |-> next_object_id + n - 1]
           failing == {n \in DOMAIN rows : RowFails(d, rows, ids, n)}
<1>1. /\ call[s].pc = "begun" /\ call[s].kind = "create_batch" /\ rows \in Seq(Row)
      /\ next_object_id \in Nat \ {0}
  BY BegunHas DEF StageCreateBatch, GoodArg, ObjInv, CallsInv
<1>2. /\ next_object_id + Len(rows) - 1 <= MaxId
      /\ \/ failing /= {} /\ Fails(s) /\ next_object_id' = next_object_id + Min(failing)
         \/ /\ failing = {} /\ next_object_id' = next_object_id + Len(rows)
            /\ Staged(s, StageCreateWrites(d, rows, ids), Created(rows, ids), {})
  BY DEF StageCreateBatch
<1>3. DOMAIN rows = 1 .. Len(rows) /\ Len(rows) \in Nat /\ \A n \in DOMAIN rows : rows[n] \in Row
  BY <1>1
<1> HIDE DEF rows, d
<1>4. \A n \in DOMAIN rows : ids[n] = next_object_id + n - 1
  OBVIOUS
<1>5. failing = {} => \A n \in DOMAIN rows : ~ RowFails(d, rows, ids, n)
  OBVIOUS
<1>6. failing \subseteq DOMAIN rows
  OBVIOUS
<1> HIDE DEF failing, ids
<1>7. CASE failing /= {}
  <2>1. Min(failing) \in failing
    BY <1>3, <1>6, <1>7, MinIsMember
  <2> DEFINE m == Min(failing)
  <2>2. m \in Nat /\ next_object_id' = next_object_id + m
    BY <1>2, <1>3, <1>6, <1>7, <2>1
  <2> HIDE DEF m
  <2>3. next_object_id' \in Nat \ {0}
    BY <1>1, <2>2
  <2> QED BY <1>2, <1>7, <2>3, FailsInv
<1>8. CASE failing = {}
  <2>1. \A n \in DOMAIN rows : ids[n] \in Id
    BY <1>1, <1>2, <1>3, <1>4, SchemaAssumption DEF Id
  <2>2. \A m, n \in DOMAIN rows : ids[m] = ids[n] => m = n
    BY <1>1, <1>3, <1>4
  <2>3. GoodRows(d, rows, ids)
    BY <1>3, <1>5, <1>8, <2>1, <2>2 DEF GoodRows
  <2>4. next_object_id' \in Nat \ {0}
    BY <1>1, <1>2, <1>3, <1>8
  <2>5. GoodWrite(StageCreateWrites(d, rows, ids), d, "create_batch", call[s].arg, {})
    BY <2>3, CreateGood
  <2> QED BY <1>1, <1>2, <1>8, <2>4, <2>5, StagedStep DEF d
<1> QED BY <1>7, <1>8

\* update stages a write over its snapshot, or fails.
LEMMA StageUpdateInv ==
    ASSUME ObjInv, NEW s \in Session, StageUpdate(s)
    PROVE  ObjInv'
<1> DEFINE a == call[s].arg
           d == call[s].snap
           old == Object(d, a.o)
           new == Merged(old, a)
           u == UniqueWrite(a.o, old, new, a.field)
           w == RewriteObject(d, a.o, old, new)
           z == Write(u.puts \cup w.puts \cup {<<<<"o", a.o>>, new>>}, u.dels \cup w.dels)
<1>1. /\ call[s].pc = "begun" /\ call[s].kind = "update" /\ Typed(d)
      /\ a.o \in Obj /\ a.key \in KeyValue \cup {Null}
      /\ next_object_id' \in Nat \ {0}
  BY BegunHas DEF StageUpdate, GoodArg, ObjInv, CallsInv
<1>2. \/ Fails(s)
      \/ /\ Live(d, a.o) /\ ~ (a.field = "key" /\ Taken(d, a.key, a.o))
         /\ Staged(s, z, {a.o}, {})
  BY Zenon DEF StageUpdate
<1>3. ASSUME Live(d, a.o), ~ (a.field = "key" /\ Taken(d, a.key, a.o))
      PROVE  GoodWrite(z, d, "update", a, {})
  BY <1>1, <1>3, UpdateGood, Zenon
<1> HIDE DEF z
<1> QED BY <1>1, <1>2, <1>3, FailsInv, StagedStep

\* delete stages the removal of its victims, or is denied.
LEMMA StageDeleteInv ==
    ASSUME ObjInv, NEW s \in Session, StageDelete(s)
    PROVE  ObjInv'
<1> DEFINE a == call[s].arg
           d == call[s].snap
           z == Write({}, DeleteInner(d, a.o).keys)
<1>1. /\ call[s].pc = "begun" /\ call[s].kind = "delete" /\ Typed(d) /\ Paired(d) /\ a.o \in Obj
      /\ next_object_id' \in Nat \ {0}
  BY BegunHas DEF StageDelete, GoodArg, ObjInv, CallsInv
<1>2. Fails(s) \/ Staged(s, z, {}, DeleteInner(d, a.o).victims)
  BY DEF StageDelete
<1>3. GoodWrite(z, d, "delete", a, DeleteInner(d, a.o).victims)
  BY <1>1, DeleteGood
<1> HIDE DEF z
<1> QED BY <1>1, <1>2, <1>3, FailsInv, StagedStep

\* link and unlink stage one edge in both directions.
LEMMA StageLinkInv ==
    ASSUME ObjInv, NEW s \in Session, StageLink(s) \/ StageUnlink(s)
    PROVE  ObjInv'
<1> DEFINE a == call[s].arg
           d == call[s].snap
           y == Write({<<<<"e", a.src, a.rel, a.tgt>>, "edge">>,
                       <<<<"r", a.tgt, a.rel, a.src>>, CoveringRevValue(d, a.src, a.rel)>>}, {})
           z == Write({}, EdgeKeys({<<a.src, a.rel, a.tgt>>}))
<1>1. next_object_id' \in Nat \ {0}
  BY DEF StageLink, StageUnlink, ObjInv, CallsInv
<1>2. CASE StageLink(s)
  <2>1. /\ call[s].pc = "begun" /\ call[s].kind = "link"
        /\ a.src \in Id /\ a.rel \in Rel /\ a.tgt \in Id
    BY <1>2, BegunHas DEF StageLink, GoodArg
  <2>2. Fails(s) \/ Staged(s, y, {}, {})
    BY <1>2 DEF StageLink
  <2>3. GoodWrite(y, d, "link", a, {})
    BY <2>1, LinkGood, Zenon
  <2> HIDE DEF y
  <2> QED BY <1>1, <2>1, <2>2, <2>3, FailsInv, StagedStep
<1>3. CASE StageUnlink(s)
  <2>1. call[s].pc = "begun" /\ call[s].kind = "unlink"
    BY <1>3, BegunHas DEF StageUnlink
  <2>2. Staged(s, z, {}, {})
    BY <1>3 DEF StageUnlink
  <2>3. GoodWrite(z, d, "unlink", a, {})
    BY UnlinkGood, Zenon
  <2> HIDE DEF z
  <2> QED BY <1>1, <2>1, <2>2, <2>3, StagedStep
<1> QED BY <1>2, <1>3

\* A step that leaves the database and the calls alone.
LEMMA SameInv ==
    ASSUME ObjInv, UNCHANGED <<db, call, setup, next_object_id, history>>
    PROVE  ObjInv'
<1>1. StoreInv'
  BY StoreSame DEF ObjInv
<1>2. ASSUME NEW x \in Session PROVE CallInv(call[x], db)'
  <2>1. CallInv(call'[x], db')
    BY DEF ObjInv, CallsInv
  <2> QED BY <2>1, Zenon DEF CallInv, Begun, IsStaged, GoodWrite, PairedWrite, IndexWrite, EdgeWrite,
          GoodArg, Paired, Typed, Agree, Live, Object
<1>3. CallsInv'
  BY <1>2 DEF ObjInv, CallsInv
<1> QED BY <1>1, <1>3 DEF ObjInv

\* A commit, with the flush after it failing or not, and the call's next stop.
LEMMA CommitInv ==
    ASSUME ObjInv, NEW s \in Session, Commit(s) \/ CommitErrs(s)
    PROVE  ObjInv'
<1> DEFINE n == IF call[s].kind \in {"update", "delete", "restore"}
                THEN [pc |-> "committed", kind |-> call[s].kind, arg |-> call[s].arg,
                      bumped |-> call[s].bumped, deleted |-> call[s].deleted]
                ELSE Idle
<1>1. Published(s) /\ UNCHANGED <<setup, next_object_id>>
  BY Zenon DEF Commit, CommitErrs
<1>2. CASE Commit(s)
  <2>1. call' = Behind(s, n)
    BY <1>2 DEF Commit
  <2>2. n = Idle \/ (n.pc = "committed" /\ n.kind = call[s].kind /\ n.arg = call[s].arg)
    OBVIOUS
  <2> HIDE DEF n
  <2> QED BY <1>1, <2>1, <2>2, PublishedInv
<1>3. CASE CommitErrs(s)
  <2>1. call' = Behind(s, Idle)
    BY <1>3 DEF CommitErrs
  <2> QED BY <1>1, <2>1, PublishedInv
<1> QED BY <1>2, <1>3

\* A conflict, and what follows a commit.
LEMMA FinishInv ==
    ASSUME ObjInv, NEW s \in Session, CommitConflict(s) \/ Finish(s)
    PROVE  ObjInv'
<1>1. next_object_id \in Nat \ {0} /\ CallInv(call[s], db)
  BY DEF ObjInv, CallsInv
<1>2. CASE CommitConflict(s)
  BY <1>1, <1>2, IdleStep, Zenon DEF CommitConflict
<1>3. CASE Finish(s)
  <2>1. /\ call[s].pc = "committed" /\ call' = [call EXCEPT ![s] = Idle]
        /\ UNCHANGED <<db, setup, history>>
        /\ next_object_id' = IF call[s].kind = "restore"
                             THEN Max({next_object_id, call[s].arg.ids[1] + 1})
                             ELSE next_object_id
    BY <1>3 DEF Finish
  <2>2. ASSUME call[s].kind = "restore" PROVE next_object_id' \in Nat \ {0}
    <3> DEFINE i == call[s].arg.ids[1]
               S == {next_object_id, i + 1}
    <3>1. i \in Id
      BY <1>1, <2>1, <2>2 DEF CallInv, GoodArg, Begun, IsStaged
    <3>2. i \in Nat \ {0}
      BY <3>1, SchemaAssumption DEF Id
    <3>3. i + 1 \in Nat \ {0}
      BY <3>2
    <3> HIDE DEF i
    <3>4. S \subseteq 0 .. (next_object_id + (i + 1)) /\ S /= {} /\ next_object_id + (i + 1) \in Nat
      BY <1>1, <3>3
    <3>5. Max(S) \in S
      <4> HIDE DEF S
      <4> QED BY <3>4, MaxIsMember, Zenon
    <3> QED BY <1>1, <2>1, <2>2, <3>3, <3>5 DEF i
  <2>3. next_object_id' \in Nat \ {0}
    BY <1>1, <2>1, <2>2
  <2> QED BY <2>1, <2>3, IdleStep, Zenon
<1> QED BY <1>2, <1>3

\* The refresh rewrites reverse edges of edges there are.
LEMMA RefreshInv ==
    ASSUME ObjInv, RefreshRead \/ RefreshWrite
    PROVE  ObjInv'
<1>1. CASE RefreshRead
  <2>1. UNCHANGED <<db, next_object_id, call, setup, history>>
    BY <1>1 DEF RefreshRead, store
  <2> QED BY <2>1, SameInv
<1>2. CASE RefreshWrite
  <2> DEFINE S == {x \in refresh_sources : Live(db, Src(x))}
             P == UNION {OutboundRevEdges(db, Src(src)) : src \in S}
             w == Write(P, {})
  <2>1. /\ db' = Apply(db, w) /\ \A s \in Session : call[s] = Idle
        /\ UNCHANGED <<next_object_id, call, setup, history>>
    BY <1>2 DEF RefreshWrite
  <2>2. ASSUME NEW k \in PutKeys(P)
        PROVE  k[1] = "r" /\ \E o : k \in PutKeys(OutboundRevEdges(db, o))
    <3>1. PICK p \in P : k = p[1]
      BY DEF PutKeys
    <3>2. PICK src \in S : p \in OutboundRevEdges(db, Src(src))
      BY <3>1
    <3>3. k \in PutKeys(OutboundRevEdges(db, Src(src)))
      BY <3>1, <3>2 DEF PutKeys
    <3>4. k[1] = "r"
      BY <3>1, <3>2 DEF OutboundRevEdges
    <3> QED BY <3>3, <3>4
  <2> HIDE DEF P
  <2>3. w.puts = P /\ w.dels = {} /\ WriteSet(w) = PutKeys(P)
    BY WriteFields DEF WriteSet
  <2> HIDE DEF w
  <2>4. Paired(db) /\ Typed(db) /\ IndexesExact /\ DanglingExplained
    BY DEF ObjInv, StoreInv
  <2>5. Paired(db')
    <3>1. PairedWrite(w, db)
      BY <2>2, <2>3, RewritePaired
    <3>2. Agree(db, db, {})
      BY DEF Agree
    <3> QED BY <2>1, <2>4, <3>1, <3>2, ApplyPaired
  <2>6. IndexWrite(w, db, "update")
    BY <2>2, <2>3, EdgesIndexed
  <2>7. Typed(db')
    BY <2>1, <2>2, <2>3, <2>4, <2>6, ApplyTyped
  <2>8. IndexesExact'
    BY <2>1, <2>4, <2>6, ApplyIndexed DEF IndexesExact, history
  <2>9. \A k : k[1] \in {"e", "o"} => /\ k \in DOMAIN db' <=> k \in DOMAIN db
                                      /\ k \in DOMAIN db => db'[k] = db[k]
    BY <2>1, <2>2, <2>3, ApplyKept
  <2>10. DanglingExplained'
    <3>1. ASSUME NEW e \in Edges(db') PROVE e \in Edges(db)
      BY <2>9 DEF Edges
    <3>2. \A e : Whole(db, e) => Whole(db', e)
      <4>1. \A o : <<"o", o>> \in DOMAIN db => <<"o", o>> \in DOMAIN db'
        BY <2>9
      <4> QED BY <4>1, Zenon DEF Whole, Live
    <3> QED BY <2>1, <2>4, <3>1, <3>2 DEF DanglingExplained, history
  <2>11. StoreInv'
    BY <2>5, <2>7, <2>8, <2>10 DEF StoreInv
  <2>12. \A x \in Session : CallInv(Idle, db')
    BY DEF CallInv, Idle
  <2>13. CallsInv'
    <3>1. /\ setup' \in Setups /\ next_object_id' \in Nat \ {0}
          /\ call' = [s \in Session |-> call'[s]]
      BY <2>1 DEF ObjInv, CallsInv
    <3>2. \A x \in Session : call'[x].pc = "idle"
      BY <2>1 DEF Idle
    <3> QED BY <3>1, <3>2 DEF CallsInv, CallInv
  <2> QED BY <2>11, <2>13 DEF ObjInv
<1> QED BY <1>1, <1>2

\* After a restart no call is in progress, and the next id is past the live ones.
LEMMA RestartInv ==
    ASSUME ObjInv, Restart
    PROVE  ObjInv'
<1>1. /\ call' = [s \in Session |-> Idle] /\ UNCHANGED <<db, setup, history>>
      /\ next_object_id' = Max({o[2] : o \in {o \in Obj : Live(db, o)}} \cup {0}) + 1
  BY DEF Restart
<1>2. next_object_id' \in Nat \ {0}
  <2> DEFINE S == {o \in Obj : Live(db, o)}
  <2>1. S \subseteq Obj
    OBVIOUS
  <2> QED BY <1>1, <2>1, NextIdPositive, Zenon
<1>3. StoreInv'
  BY <1>1, StoreSame DEF ObjInv
<1>4. \A x \in Session : call'[x].pc = "idle"
  BY <1>1 DEF Idle
<1>5. CallsInv'
  BY <1>1, <1>2, <1>4 DEF ObjInv, CallsInv, CallInv
<1> QED BY <1>3, <1>5 DEF ObjInv

\* A setup's database has the invariant, and nothing is in progress.
LEMMA InitInv ==
    ASSUME Init
    PROVE  ObjInv
<1>1. /\ setup \in Setups /\ db = setup.db /\ call = [s \in Session |-> Idle]
      /\ next_object_id = Max({o[2] : o \in {o \in Obj : Live(db, o)}} \cup {0}) + 1
  BY DEF Init
<1>2. next_object_id \in Nat \ {0}
  <2> DEFINE S == {o \in Obj : Live(db, o)}
  <2>1. S \subseteq Obj
    OBVIOUS
  <2> QED BY <1>1, <2>1, NextIdPositive, Zenon
<1>3. StoreInv
  BY <1>1, SetupAssumption DEF StoreInv, IndexesExact, DanglingExplained
<1>4. \A x \in Session : call[x].pc = "idle"
  BY <1>1 DEF Idle
<1>5. CallsInv
  BY <1>1, <1>2, <1>4 DEF CallsInv, CallInv
<1> QED BY <1>3, <1>5 DEF ObjInv

\* Every step keeps the invariant.
LEMMA NextInv ==
    ASSUME ObjInv, [Next]_vars
    PROVE  ObjInv'
<1>1. ASSUME NEW s \in Session,
             BeginCreate(s) \/ BeginCreateBatch(s) \/ BeginRestore(s) \/ BeginUpdate(s)
                 \/ BeginDelete(s) \/ BeginLink(s)
      PROVE  ObjInv'
  BY <1>1, BeginInv
<1>2. ASSUME NEW s \in Session, StageCreate(s) \/ StageRestore(s) \/ StageCreateBatch(s)
      PROVE  ObjInv'
  BY <1>2, StageCreateInv, StageCreateBatchInv
<1>3. ASSUME NEW s \in Session, StageUpdate(s) \/ StageDelete(s) \/ StageLink(s) \/ StageUnlink(s)
      PROVE  ObjInv'
  BY <1>3, StageUpdateInv, StageDeleteInv, StageLinkInv
<1>4. ASSUME NEW s \in Session, Commit(s) \/ CommitErrs(s) \/ CommitConflict(s) \/ Finish(s)
      PROVE  ObjInv'
  BY <1>4, CommitInv, FinishInv
<1>5. CASE RefreshRead \/ RefreshWrite
  BY <1>5, RefreshInv
<1>6. CASE Restart
  BY <1>6, RestartInv
<1>7. CASE UNCHANGED vars
  <2>1. UNCHANGED <<db, call, setup, next_object_id, history>>
    BY <1>7 DEF vars, store
  <2> QED BY <2>1, SameInv
<1> QED BY <1>1, <1>2, <1>3, <1>4, <1>5, <1>6, <1>7 DEF Next

\* The invariant holds of every behaviour.
LEMMA ObjInvHolds == Spec => []ObjInv
<1>1. Init => ObjInv
  BY InitInv
<1>2. ObjInv /\ [Next]_vars => ObjInv'
  BY NextInv
<1> QED BY <1>1, <1>2, PTL DEF Spec

\* An edge and its reverse edge exist together, whatever calls, refreshes and
\* restarts interleave, for any number of sessions and any schema and setup.
THEOREM EdgesAlwaysPaired == Spec => []EdgesPaired
<1>1. ObjInv => EdgesPaired
  BY DEF ObjInv, StoreInv, EdgesPaired
<1> QED BY <1>1, ObjInvHolds, PTL

\* Until a create takes an id that lives, both indexes agree with the objects.
THEOREM IndexesAlwaysExact == Spec => []IndexesExact
<1>1. ObjInv => IndexesExact
  BY DEF ObjInv, StoreInv
<1> QED BY <1>1, ObjInvHolds, PTL

\* An edge without one of its ends was put or kept beside the delete of that
\* end, or a cascade deleted its source: no other history leaves one.
THEOREM DanglingAlwaysExplained == Spec => []DanglingExplained
<1>1. ObjInv => DanglingExplained
  BY DEF ObjInv, StoreInv
<1> QED BY <1>1, ObjInvHolds, PTL
=============================================================================
