--------------------------- MODULE ObjectsWrites ---------------------------
(* What a write does to a database: the ground of the proofs about Objects.  *)
(*                                                                           *)
(* A call stages its write from a snapshot and commits it over a later       *)
(* database, which agrees with the snapshot outside the keys committed       *)
(* since (dirty); a commit goes through only if its write touches none of    *)
(* those.  So the proofs say of a staged write what it does to its snapshot  *)
(* (GoodWrite), and the lemmas here carry that over to the database:         *)
(* ApplyPaired for edges, IndexTransfer with ApplyIndexed for the indexes,   *)
(* ApplyTyped for types.  An index entry is safe although a write does not   *)
(* touch all it read, because whoever takes a key writes the u: entry of it  *)
(* and whoever rewrites an object writes its o: key.  The last sections are  *)
(* a commit, which every other call in progress has to see among its dirty   *)
(* keys, and the choice of an id.                                            *)
EXTENDS Objects, WellFoundedInduction, TLAPS

\* Over d, the write w moves an edge and its reverse edge together; a reverse edge
\* alone is only rewritten.
PairedWrite(w, d) ==
    \A src, tgt \in Id, rel \in Rel :
        /\ EKey(src, rel, tgt) \in w.dels <=> RKey(src, rel, tgt) \in w.dels
        /\ EKey(src, rel, tgt) \in PutKeys(w.puts) => RKey(src, rel, tgt) \in PutKeys(w.puts)
        /\ RKey(src, rel, tgt) \in PutKeys(w.puts) =>
              \/ EKey(src, rel, tgt) \in PutKeys(w.puts)
              \/ EKey(src, rel, tgt) \in DOMAIN d /\ EKey(src, rel, tgt) \notin w.dels

\* Over d, the write w moves the index entries with the objects: an object it
\* puts gets both of its entries, or keeps its unique one; an entry it puts is of
\* an object it puts and takes no other object's key; an entry it removes is of an
\* object it writes; and it leaves no entry of the key an object had, unless
\* another object was created over a live one.
IndexWrite(w, d, kind) ==
    /\ \A p, q \in w.puts : p[1] = q[1] /\ p[1][1] \in {"o", "u", "i"} => p[2] = q[2]
    /\ \A p \in w.puts : p[1][1] = "o" =>
          \E o \in Obj :
              /\ p[1] = OKey(o) /\ IsFields(p[2])
              /\ p[2].key /= Null =>
                    /\ <<IKey(o, p[2].key), p[2]>> \in w.puts
                    /\ \/ <<UKey(o, p[2].key), o[2]>> \in w.puts
                       \/ /\ UKey(o, p[2].key) \notin WriteSet(w)
                          /\ Live(d, o) /\ Object(d, o).key = p[2].key
    /\ \A p \in w.puts : p[1][1] = "u" =>
          \E o \in Obj, v \in KeyValue :
              /\ p = <<UKey(o, v), o[2]>>
              /\ \E q \in w.puts : q[1] = OKey(o) /\ q[2].key = v
              /\ UKey(o, v) \in DOMAIN d => d[UKey(o, v)] = o[2]
    /\ \A p \in w.puts : p[1][1] = "i" =>
          \E o \in Obj, v \in KeyValue :
              p[1] = IKey(o, v) /\ <<OKey(o), p[2]>> \in w.puts /\ p[2].key = v
    /\ \A k \in w.dels :
          /\ k[1] = "u" => \E o \in Obj : /\ OKey(o) \in WriteSet(w) /\ Live(d, o)
                                          /\ k = UKey(o, Object(d, o).key)
          /\ k[1] = "i" => \E o \in Obj, v \in KeyValue : k = IKey(o, v) /\ OKey(o) \in WriteSet(w)
    /\ \A o \in Obj :
          /\ OKey(o) \in WriteSet(w) /\ Live(d, o) /\ Object(d, o).key /= Null
          /\ kind = "update" \/ OKey(o) \notin PutKeys(w.puts)
          => /\ IKey(o, Object(d, o).key) \in WriteSet(w)
             /\ \/ UKey(o, Object(d, o).key) \in WriteSet(w)
                \/ \E p \in w.puts : p[1] = OKey(o) /\ p[2].key = Object(d, o).key

\* The edges of w join ids.  It deletes objects only as delete does: with the
\* edges the snapshot has of them, but for those of a cascaded source.
EdgeWrite(w, snap, kind, arg, deleted) ==
    /\ \A k \in PutKeys(w.puts) : k[1] = "e" =>
          \E src, tgt \in Id, rel \in Rel : k = EKey(src, rel, tgt)
    /\ \A o \in Obj : OKey(o) \in w.dels =>
          /\ kind = "delete" /\ o \in deleted /\ w.puts = {}
          /\ \A src, tgt \in Id, rel \in Rel :
                EKey(src, rel, tgt) \in DOMAIN snap /\ o \in Ends(<<src, rel, tgt>>) =>
                    EKey(src, rel, tgt) \in w.dels \/ Src(src) \in deleted \ {arg.o}

\* What is true of a staged write, over its snapshot.
GoodWrite(w, snap, kind, arg, deleted) ==
    /\ PairedWrite(w, snap)
    /\ IndexWrite(w, snap, kind)
    /\ EdgeWrite(w, snap, kind, arg, deleted)

\* Outside dirty, snap has the keys of d and their values.
Agree(snap, d, dirty) ==
    \A k \in (DOMAIN snap \cup DOMAIN d) \ dirty :
        k \in DOMAIN snap /\ k \in DOMAIN d /\ snap[k] = d[k]

\* The arguments of a call, from inputs as InputAssumption has them.
GoodArg(kind, a) ==
    /\ kind \in {"create", "restore"} =>
          DOMAIN a.rows = {1} /\ a.rows[1] \in Row /\ a.ids[1] \in Id
    /\ kind = "create_batch" => a.rows \in Seq(Row)
    /\ kind = "update" => a.o \in Obj /\ a.key \in KeyValue \cup {Null}
    /\ kind = "delete" => a.o \in Obj
    /\ kind \in {"link", "unlink"} => a.src \in Id /\ a.rel \in Rel /\ a.tgt \in Id

\* The records of a call that has begun, and of one that is staged.
Begun(c) ==
    c = [pc |-> "begun", kind |-> c.kind, arg |-> c.arg, snap |-> c.snap, dirty |-> c.dirty]
IsStaged(c) ==
    c = [pc |-> "staged", kind |-> c.kind, arg |-> c.arg, snap |-> c.snap, dirty |-> c.dirty,
         write |-> c.write, bumped |-> c.bumped, deleted |-> c.deleted]

\* What is true of a call c over the database d.
CallInv(c, d) ==
    \/ c.pc = "idle"
    \/ c.pc = "committed" /\ GoodArg(c.kind, c.arg)
    \/ /\ \/ Begun(c)
          \/ IsStaged(c) /\ GoodWrite(c.write, c.snap, c.kind, c.arg, c.deleted)
       /\ GoodArg(c.kind, c.arg)
       /\ Paired(c.snap) /\ Typed(c.snap) /\ Agree(c.snap, d, c.dirty)

\* What is true of the database.
StoreInv ==
    /\ Paired(db) /\ Typed(db)
    /\ IndexesExact
    /\ DanglingExplained

\* What is true of the calls.
CallsInv ==
    /\ setup \in Setups
    /\ next_object_id \in Nat \ {0}
    /\ call = [s \in Session |-> call[s]]
    /\ \A s \in Session : CallInv(call[s], db)

\* The inductive invariant.
ObjInv == StoreInv /\ CallsInv

\* The two parts of a write.
LEMMA WriteFields ==
    ASSUME NEW puts, NEW dels
    PROVE  /\ Write(puts, dels).puts = puts
           /\ Write(puts, dels).dels = dels \ PutKeys(puts)
BY DEF Write

\* What a write touches.
LEMMA WriteSetIs ==
    ASSUME NEW puts, NEW dels
    PROVE  WriteSet(Write(puts, dels)) = PutKeys(puts) \cup dels
BY WriteFields DEF WriteSet

\* Nothing put, no key put.
LEMMA NoPutKeys == PutKeys({}) = {}
BY DEF PutKeys

\* A write that only deletes.
LEMMA NoPuts ==
    ASSUME NEW K
    PROVE  /\ Write({}, K).puts = {} /\ Write({}, K).dels = K
           /\ WriteSet(Write({}, K)) = K /\ PutKeys(Write({}, K).puts) = {}
BY NoPutKeys DEF Write, WriteSet

\* More puts, more keys.
LEMMA PutKeysMono ==
    ASSUME NEW A, NEW B, A \subseteq B
    PROVE  PutKeys(A) \subseteq PutKeys(B)
BY DEF PutKeys

\* The keys there are after a write.
LEMMA ApplyDomain ==
    ASSUME NEW d, NEW w
    PROVE  DOMAIN Apply(d, w) = (DOMAIN d \ w.dels) \cup PutKeys(w.puts)
BY DEF Apply

\* A key that is not written keeps its value.
LEMMA ApplyKept ==
    ASSUME NEW d, NEW w, NEW k, k \notin WriteSet(w)
    PROVE  /\ k \in DOMAIN Apply(d, w) <=> k \in DOMAIN d
           /\ k \in DOMAIN d => Apply(d, w)[k] = d[k]
BY DEF Apply, WriteSet

\* A key that is put has the value put, if there is one such value.
LEMMA ApplyPut ==
    ASSUME NEW d, NEW w, NEW p \in w.puts, \A q \in w.puts : q[1] = p[1] => q[2] = p[2]
    PROVE  p[1] \in DOMAIN Apply(d, w) /\ Apply(d, w)[p[1]] = p[2]
<1>1. p[1] \in PutKeys(w.puts)
  BY DEF PutKeys
<1>2. (CHOOSE q \in w.puts : q[1] = p[1])[2] = p[2]
  OBVIOUS
<1> QED BY <1>1, <1>2 DEF Apply

\* Nothing else than what is put or kept is there afterwards.
LEMMA ApplyCases ==
    ASSUME NEW d, NEW w, NEW k \in DOMAIN Apply(d, w)
    PROVE  \/ \E p \in w.puts : p[1] = k
           \/ k \in DOMAIN d /\ k \notin WriteSet(w) /\ Apply(d, w)[k] = d[k]
BY DEF Apply, WriteSet, PutKeys

-----------------------------------------------------------------------------

\* A write that moves the index entries of the objects it writes, and creates
\* none over a live object, leaves the indexes exact.
LEMMA ApplyIndexed ==
    ASSUME NEW d, NEW w, NEW kind, Indexed(d), Typed(d), IndexWrite(w, d, kind),
           \A o \in Obj : kind /= "update" /\ OKey(o) \in PutKeys(w.puts) => ~ Live(d, o)
    PROVE  Indexed(Apply(d, w))
<1> DEFINE e == Apply(d, w)
<1>1. \A p \in w.puts : p[1][1] \in {"o", "u", "i"} =>
         p[1] \in DOMAIN e /\ e[p[1]] = p[2] /\ p[1] \in PutKeys(w.puts)
  BY ApplyPut DEF IndexWrite, PutKeys
<1>2. \A k \in DOMAIN e :
         \/ \E p \in w.puts : p[1] = k
         \/ k \in DOMAIN d /\ k \notin WriteSet(w) /\ e[k] = d[k]
  BY ApplyCases
<1>3. \A k : k \notin WriteSet(w) => /\ k \in DOMAIN e <=> k \in DOMAIN d
                                     /\ k \in DOMAIN d => e[k] = d[k]
  BY ApplyKept
<1>4. \A k \in PutKeys(w.puts) : k \in WriteSet(w) /\ \E p \in w.puts : p[1] = k
  BY DEF WriteSet, PutKeys
<1>5. \A k \in WriteSet(w) : k \in w.dels \/ k \in PutKeys(w.puts)
  BY DEF WriteSet
<1>6. \A o \in Obj : \A v : OKey(o)[1] = "o" /\ UKey(o, v)[1] = "u" /\ IKey(o, v)[1] = "i"
  BY DEF OKey, UKey, IKey
<1> HIDE DEF e
<1>7. ASSUME NEW o \in Obj, Live(e, o), Object(e, o).key /= Null
      PROVE  /\ UKey(o, Object(e, o).key) \in DOMAIN e
             /\ e[UKey(o, Object(e, o).key)] = o[2]
             /\ IKey(o, Object(e, o).key) \in DOMAIN e
  <2> DEFINE v == Object(e, o).key
  <2>1. CASE \E p \in w.puts : p[1] = OKey(o)
    <3>1. PICK p \in w.puts : p[1] = OKey(o)
      BY <2>1
    <3>2. p[2] = Object(e, o)
      BY <1>1, <1>6, <3>1 DEF Object, OKey
    <3>3. PICK x \in Obj :
             /\ p[1] = OKey(x)
             /\ <<IKey(x, v), p[2]>> \in w.puts
             /\ \/ <<UKey(x, v), x[2]>> \in w.puts
                \/ UKey(x, v) \notin WriteSet(w) /\ Live(d, x) /\ Object(d, x).key = v
      <4>1. p[1][1] = "o" /\ p[2].key = v /\ v /= Null
        BY <1>6, <1>7, <3>1, <3>2
      <4> HIDE DEF v
      <4> QED BY <4>1, Zenon DEF IndexWrite
    <3>4. x = o
      BY <3>1, <3>3 DEF OKey
    <3>5. IKey(o, v) \in DOMAIN e
      BY <1>1, <1>6, <3>3, <3>4
    <3>6. UKey(o, v) \in DOMAIN e /\ e[UKey(o, v)] = o[2]
      <4>1. CASE <<UKey(o, v), o[2]>> \in w.puts
        BY <1>1, <1>6, <4>1
      <4>2. CASE UKey(o, v) \notin WriteSet(w) /\ Live(d, o) /\ Object(d, o).key = v
        BY <1>3, <1>7, <4>2 DEF Indexed
      <4> QED BY <3>3, <3>4, <4>1, <4>2
    <3> QED BY <3>5, <3>6
  <2>2. CASE ~ \E p \in w.puts : p[1] = OKey(o)
    <3>1. OKey(o) \notin WriteSet(w) /\ Live(d, o) /\ Object(e, o) = Object(d, o)
      BY <1>2, <1>7, <2>2 DEF Live, Object, OKey
    <3>2. /\ UKey(o, v) \in DOMAIN d /\ d[UKey(o, v)] = o[2]
          /\ IKey(o, v) \in DOMAIN d
      BY <1>7, <3>1 DEF Indexed
    <3>3. IKey(o, v) \notin WriteSet(w)
      <4>1. IKey(o, v) \notin w.dels
        BY <1>6, <3>1 DEF IndexWrite, IKey
      <4>2. IKey(o, v) \notin PutKeys(w.puts)
        <5>1. SUFFICES ASSUME NEW p \in w.puts, p[1] = IKey(o, v) PROVE FALSE
          BY <1>4
        <5>2. PICK x \in Obj, y \in KeyValue : p[1] = IKey(x, y) /\ <<OKey(x), p[2]>> \in w.puts
          BY <1>6, <5>1 DEF IndexWrite
        <5>3. x = o
          BY <5>1, <5>2 DEF IKey
        <5> QED BY <2>2, <5>2, <5>3
      <4> QED BY <1>5, <4>1, <4>2
    <3>4. UKey(o, v) \notin WriteSet(w)
      <4>1. UKey(o, v) \notin w.dels
        <5>1. SUFFICES ASSUME UKey(o, v) \in w.dels PROVE FALSE
          OBVIOUS
        <5>2. PICK x \in Obj : OKey(x) \in WriteSet(w) /\ Live(d, x)
                                /\ UKey(o, v) = UKey(x, Object(d, x).key)
          BY <1>6, <5>1 DEF IndexWrite
        <5>3. x[1] = o[1] /\ Object(d, x).key = v
          BY <5>2 DEF UKey
        <5>4. x[2] = o[2]
          BY <1>7, <3>2, <5>2, <5>3 DEF Indexed
        <5> QED BY <3>1, <5>2, <5>3, <5>4 DEF Obj
      <4>2. UKey(o, v) \notin PutKeys(w.puts)
        <5>1. SUFFICES ASSUME NEW p \in w.puts, p[1] = UKey(o, v) PROVE FALSE
          BY <1>4
        <5>2. PICK x \in Obj, y \in KeyValue :
                 /\ p = <<UKey(x, y), x[2]>>
                 /\ \E q \in w.puts : q[1] = OKey(x)
                 /\ UKey(x, y) \in DOMAIN d => d[UKey(x, y)] = x[2]
          BY <1>6, <5>1 DEF IndexWrite
        <5>3. UKey(x, y) = UKey(o, v)
          BY <5>1, <5>2
        <5>4. x[1] = o[1] /\ x[2] = o[2]
          BY <3>2, <5>2, <5>3 DEF UKey
        <5> QED BY <2>2, <5>2, <5>4 DEF Obj
      <4> QED BY <1>5, <4>1, <4>2
    <3> QED BY <1>3, <3>2, <3>3, <3>4
  <2> QED BY <2>1, <2>2
<1>8. ASSUME NEW o \in Obj, Live(d, o), Object(d, o).key /= Null,
             \/ IKey(o, Object(d, o).key) \notin WriteSet(w)
             \/ /\ UKey(o, Object(d, o).key) \notin WriteSet(w)
                /\ ~ \E p \in w.puts : p[1] = OKey(o) /\ p[2].key = Object(d, o).key
      PROVE  OKey(o) \notin WriteSet(w)
  <2>1. SUFFICES ASSUME OKey(o) \in WriteSet(w) PROVE FALSE
    OBVIOUS
  <2>2. kind = "update" \/ OKey(o) \notin PutKeys(w.puts)
    BY <1>8
  <2> QED BY <1>8, <2>1, <2>2 DEF IndexWrite
<1>9. ASSUME NEW t \in Type, NEW v \in KeyValue, <<"u", t, v>> \in DOMAIN e
      PROVE  LET o == <<t, e[<<"u", t, v>>]>>
             IN  o \in Obj /\ Live(e, o) /\ Object(e, o).key = v
  <2> DEFINE k == <<"u", t, v>>
  <2>1. CASE \E p \in w.puts : p[1] = k
    <3>1. PICK p \in w.puts : p[1] = k
      BY <2>1
    <3>2. PICK o \in Obj, y \in KeyValue : 
             /\ p = <<UKey(o, y), o[2]>>
             /\ \E q \in w.puts : q[1] = OKey(o) /\ q[2].key = y
      BY <3>1 DEF IndexWrite
    <3>3. y = v /\ o[1] = t /\ e[k] = o[2]
      BY <1>1, <1>6, <3>1, <3>2 DEF UKey
    <3>4. o = <<t, e[k]>>
      BY <3>3 DEF Obj
    <3>5. Live(e, o) /\ Object(e, o).key = v
      BY <1>1, <1>6, <3>2, <3>3 DEF Live, Object, OKey
    <3> QED BY <3>4, <3>5
  <2>2. CASE k \in DOMAIN d /\ k \notin WriteSet(w) /\ e[k] = d[k]
    <3> DEFINE o == <<t, d[k]>>
    <3>1. o \in Obj /\ Live(d, o) /\ Object(d, o).key = v /\ UKey(o, v) = k
      BY <2>2 DEF Indexed, UKey
    <3>2. v /= Null
      BY SchemaAssumption
    <3> HIDE DEF o
    <3>3. CASE OKey(o) \notin WriteSet(w)
      <4>1. Live(e, o) /\ Object(e, o) = Object(d, o)
        BY <1>3, <3>1, <3>3 DEF Live, Object, OKey
      <4> QED BY <2>2, <3>1, <4>1 DEF o
    <3>4. CASE OKey(o) \in WriteSet(w)
      <4>1. PICK p \in w.puts : p[1] = OKey(o) /\ p[2].key = v
        BY <1>8, <2>2, <3>1, <3>2, <3>4
      <4>2. Live(e, o) /\ Object(e, o).key = v
        BY <1>1, <1>6, <4>1 DEF Live, Object, OKey
      <4> QED BY <2>2, <3>1, <4>2 DEF o
    <3> QED BY <3>3, <3>4
  <2> QED BY <1>2, <1>9, <2>1, <2>2
<1>10. ASSUME NEW k \in DOMAIN e, k[1] = "i"
       PROVE  \E o \in Obj, v \in KeyValue :
                k = IKey(o, v) /\ Live(e, o) /\ Object(e, o).key = v /\ e[k] = Object(e, o)
  <2>1. CASE \E p \in w.puts : p[1] = k
    <3>1. PICK p \in w.puts : p[1] = k
      BY <2>1
    <3>2. PICK o \in Obj, v \in KeyValue :
             k = IKey(o, v) /\ <<OKey(o), p[2]>> \in w.puts /\ p[2].key = v
      BY <1>10, <3>1 DEF IndexWrite
    <3>3. e[k] = p[2]
      BY <1>1, <1>10, <3>1
    <3>4. Live(e, o) /\ Object(e, o) = p[2]
      BY <1>1, <1>6, <3>2 DEF Live, Object, OKey
    <3> QED BY <3>2, <3>3, <3>4
  <2>2. CASE k \in DOMAIN d /\ k \notin WriteSet(w) /\ e[k] = d[k]
    <3>1. PICK o \in Obj, v \in KeyValue :
             k = IKey(o, v) /\ Live(d, o) /\ Object(d, o).key = v /\ d[k] = Object(d, o)
      BY <1>10, <2>2 DEF Indexed
    <3>2. v /= Null
      BY SchemaAssumption
    <3>3. OKey(o) \notin WriteSet(w)
      <4>1. IKey(o, Object(d, o).key) \notin WriteSet(w)
        BY <2>2, <3>1
      <4> QED BY <1>8, <3>1, <3>2, <4>1
    <3>4. Live(e, o) /\ Object(e, o) = Object(d, o)
      BY <1>3, <3>1, <3>3 DEF Live, Object, OKey
    <3> QED BY <2>2, <3>1, <3>4
  <2> QED BY <1>2, <2>1, <2>2
<1>11. Indexed(e)
  BY <1>7, <1>9, <1>10 DEF Indexed
<1> QED BY <1>11 DEF e

\* What a write reads of its snapshot it finds in the database, if nothing it
\* writes is dirty.
LEMMA AgreeOnWrite ==
    ASSUME NEW snap, NEW d, NEW dirty, NEW w, Agree(snap, d, dirty), WriteSet(w) \cap dirty = {},
           NEW k \in WriteSet(w)
    PROVE  /\ k \in DOMAIN snap <=> k \in DOMAIN d
           /\ k \in DOMAIN d => snap[k] = d[k]
BY DEF Agree

\* A write that keeps the indexes exact over the snapshot it was made from does
\* so over a later database, if they agree on what the write touches.
LEMMA IndexTransfer ==
    ASSUME NEW snap, NEW d, NEW dirty, NEW w, NEW kind, Agree(snap, d, dirty),
           WriteSet(w) \cap dirty = {}, IndexWrite(w, snap, kind)
    PROVE  IndexWrite(w, d, kind)
<1>1. \A k \in WriteSet(w) : /\ k \in DOMAIN snap <=> k \in DOMAIN d
                             /\ k \in DOMAIN d => snap[k] = d[k]
  BY AgreeOnWrite
<1>2. \A p \in w.puts : p[1] \in WriteSet(w)
  BY DEF WriteSet, PutKeys
<1>3. \A o \in Obj : OKey(o) \in WriteSet(w) =>
         /\ Live(snap, o) <=> Live(d, o)
         /\ Live(d, o) => Object(snap, o) = Object(d, o)
  BY <1>1 DEF Live, Object, OKey
<1>4. ASSUME NEW p \in w.puts, p[1][1] = "o"
      PROVE  \E o \in Obj :
              /\ p[1] = OKey(o) /\ IsFields(p[2])
              /\ p[2].key /= Null =>
                    /\ <<IKey(o, p[2].key), p[2]>> \in w.puts
                    /\ \/ <<UKey(o, p[2].key), o[2]>> \in w.puts
                       \/ /\ UKey(o, p[2].key) \notin WriteSet(w)
                          /\ Live(d, o) /\ Object(d, o).key = p[2].key
  <2>1. PICK o \in Obj :
              /\ p[1] = OKey(o) /\ IsFields(p[2])
              /\ p[2].key /= Null =>
                    /\ <<IKey(o, p[2].key), p[2]>> \in w.puts
                    /\ \/ <<UKey(o, p[2].key), o[2]>> \in w.puts
                       \/ /\ UKey(o, p[2].key) \notin WriteSet(w)
                          /\ Live(snap, o) /\ Object(snap, o).key = p[2].key
    BY <1>4, Zenon DEF IndexWrite
  <2>2. Live(snap, o) => Live(d, o) /\ Object(snap, o) = Object(d, o)
    BY <1>2, <1>3, <2>1
  <2> QED BY <2>1, <2>2, Zenon
<1>5. ASSUME NEW p \in w.puts, p[1][1] = "u"
      PROVE  \E o \in Obj, v \in KeyValue :
              /\ p = <<UKey(o, v), o[2]>>
              /\ \E q \in w.puts : q[1] = OKey(o) /\ q[2].key = v
              /\ UKey(o, v) \in DOMAIN d => d[UKey(o, v)] = o[2]
  <2>1. PICK o \in Obj, v \in KeyValue :
              /\ p = <<UKey(o, v), o[2]>>
              /\ \E q \in w.puts : q[1] = OKey(o) /\ q[2].key = v
              /\ UKey(o, v) \in DOMAIN snap => snap[UKey(o, v)] = o[2]
    BY <1>5 DEF IndexWrite
  <2>2. UKey(o, v) \in WriteSet(w)
    BY <1>2, <2>1
  <2> QED BY <1>1, <2>1, <2>2
<1>6. ASSUME NEW k \in w.dels, k[1] = "u"
      PROVE  \E o \in Obj : OKey(o) \in WriteSet(w) /\ Live(d, o) /\ k = UKey(o, Object(d, o).key)
  <2>1. PICK o \in Obj : OKey(o) \in WriteSet(w) /\ Live(snap, o) /\ k = UKey(o, Object(snap, o).key)
    BY <1>6 DEF IndexWrite
  <2> QED BY <1>3, <2>1
<1>7. ASSUME NEW o \in Obj, OKey(o) \in WriteSet(w), Live(d, o), Object(d, o).key /= Null,
             kind = "update" \/ OKey(o) \notin PutKeys(w.puts)
      PROVE  /\ IKey(o, Object(d, o).key) \in WriteSet(w)
             /\ \/ UKey(o, Object(d, o).key) \in WriteSet(w)
                \/ \E p \in w.puts : p[1] = OKey(o) /\ p[2].key = Object(d, o).key
  <2>1. Live(snap, o) /\ Object(snap, o) = Object(d, o)
    BY <1>3, <1>7
  <2> QED BY <1>7, <2>1 DEF IndexWrite
<1>8. /\ \A p, q \in w.puts : p[1] = q[1] /\ p[1][1] \in {"o", "u", "i"} => p[2] = q[2]
      /\ \A p \in w.puts : p[1][1] = "i" =>
            \E o \in Obj, v \in KeyValue :
              p[1] = IKey(o, v) /\ <<OKey(o), p[2]>> \in w.puts /\ p[2].key = v
      /\ \A k \in w.dels : k[1] = "i" =>
            \E o \in Obj, v \in KeyValue : k = IKey(o, v) /\ OKey(o) \in WriteSet(w)
  BY Zenon DEF IndexWrite
<1> QED BY <1>4, <1>5, <1>6, <1>7, <1>8, Zenon DEF IndexWrite

\* A typed database stays typed.
LEMMA ApplyTyped ==
    ASSUME NEW d, NEW w, NEW x, NEW kind, Typed(d), IndexWrite(w, x, kind),
           \A k \in PutKeys(w.puts) : k[1] = "e" =>
               \E src, tgt \in Id, rel \in Rel : k = EKey(src, rel, tgt)
    PROVE  Typed(Apply(d, w))
<1> DEFINE e == Apply(d, w)
<1>1. \A k \in DOMAIN e :
         \/ \E p \in w.puts : p[1] = k
         \/ k \in DOMAIN d /\ k \notin WriteSet(w) /\ e[k] = d[k]
  BY ApplyCases
<1>2. \A p \in w.puts : p[1] \in PutKeys(w.puts)
  BY DEF PutKeys
<1>3. \A p \in w.puts : p[1][1] = "o" => e[p[1]] = p[2] /\ IsFields(p[2])
  <2>1. \A p \in w.puts : p[1][1] = "o" => IsFields(p[2])
    BY Zenon DEF IndexWrite
  <2>2. \A p \in w.puts : p[1][1] = "o" => e[p[1]] = p[2]
    BY ApplyPut DEF IndexWrite
  <2> QED BY <2>1, <2>2
<1> HIDE DEF e
<1>4. ASSUME NEW o \in Obj, Live(e, o) PROVE IsFields(Object(e, o))
  <2>1. OKey(o) \in DOMAIN e /\ Object(e, o) = e[OKey(o)] /\ OKey(o)[1] = "o"
    BY <1>4 DEF Live, Object, OKey
  <2>2. CASE \E p \in w.puts : p[1] = OKey(o)
    BY <1>3, <2>1, <2>2
  <2>3. CASE OKey(o) \in DOMAIN d /\ e[OKey(o)] = d[OKey(o)]
    BY <2>1, <2>3 DEF Typed, Live, Object, OKey
  <2> QED BY <1>1, <2>1, <2>2, <2>3
<1>5. ASSUME NEW k \in DOMAIN e, k[1] = "e"
      PROVE  \E src, tgt \in Id, rel \in Rel : k = EKey(src, rel, tgt)
  BY <1>1, <1>2, <1>5 DEF Typed
<1>6. Typed(e)
  BY <1>4, <1>5 DEF Typed
<1> QED BY <1>6 DEF e

\* A write that is paired over its snapshot, and whose keys are not dirty,
\* leaves a paired database paired.
LEMMA ApplyPaired ==
    ASSUME NEW d, NEW w, NEW snap, NEW dirty,
           Paired(d), Paired(snap), PairedWrite(w, snap),
           WriteSet(w) \cap dirty = {}, Agree(snap, d, dirty)
    PROVE  Paired(Apply(d, w))
<1> SUFFICES ASSUME NEW src \in Id, NEW tgt \in Id, NEW rel \in Rel
             PROVE  EKey(src, rel, tgt) \in DOMAIN Apply(d, w)
                        <=> RKey(src, rel, tgt) \in DOMAIN Apply(d, w)
  BY DEF Paired
<1> DEFINE e == EKey(src, rel, tgt)
           r == RKey(src, rel, tgt)
<1>1. /\ e \in DOMAIN d <=> r \in DOMAIN d
      /\ e \in DOMAIN snap <=> r \in DOMAIN snap
  BY DEF Paired
<1>2. /\ e \in w.dels <=> r \in w.dels
      /\ e \in PutKeys(w.puts) => r \in PutKeys(w.puts)
      /\ r \in PutKeys(w.puts) =>
            e \in PutKeys(w.puts) \/ (e \in DOMAIN snap /\ e \notin w.dels)
  BY DEF PairedWrite
<1>3. r \in PutKeys(w.puts) => r \notin dirty
  BY DEF WriteSet
<1>4. r \notin dirty => (r \in DOMAIN snap <=> r \in DOMAIN d)
  BY DEF Agree
<1> HIDE DEF e, r
<1>5. e \in DOMAIN Apply(d, w) <=> r \in DOMAIN Apply(d, w)
  BY <1>1, <1>2, <1>3, <1>4, ApplyDomain, Zenon
<1> QED BY <1>5 DEF e, r

\* A write of edges alone touches no index.
LEMMA EdgesIndexed ==
    ASSUME NEW d, NEW w, NEW kind, \A k \in WriteSet(w) : k[1] \in {"e", "r"}
    PROVE  IndexWrite(w, d, kind)
<1>1. \A p \in w.puts : p[1][1] \in {"e", "r"}
  BY DEF WriteSet, PutKeys
<1>2. \A k \in w.dels : k[1] \in {"e", "r"}
  BY DEF WriteSet
<1>3. \A o \in Obj : OKey(o) \notin WriteSet(w)
  BY DEF OKey
<1> QED BY <1>1, <1>2, <1>3, Zenon DEF IndexWrite

\* Deleting edges in both directions, with keys that are no edges, is paired.
LEMMA RemovalPaired ==
    ASSUME NEW d, NEW edges, NEW other,
           \A k \in other : k[1] \in {"o", "u", "i", "g"}
    PROVE  PairedWrite(Write({}, EdgeKeys(edges) \cup other), d)
<1> DEFINE w == Write({}, EdgeKeys(edges) \cup other)
<1>1. PutKeys({}) = {}
  BY DEF PutKeys
<1>2. PutKeys(w.puts) = {} /\ w.dels = EdgeKeys(edges) \cup other
  BY <1>1, WriteFields
<1> HIDE DEF w
<1>3. ASSUME NEW src \in Id, NEW tgt \in Id, NEW rel \in Rel
      PROVE  EKey(src, rel, tgt) \in w.dels <=> RKey(src, rel, tgt) \in w.dels
  <2>1. EKey(src, rel, tgt) \in EdgeKeys(edges)
            <=> \E e \in edges : e[1] = src /\ e[2] = rel /\ e[3] = tgt
    BY DEF EdgeKeys, EKey
  <2>2. RKey(src, rel, tgt) \in EdgeKeys(edges)
            <=> \E e \in edges : e[1] = src /\ e[2] = rel /\ e[3] = tgt
    BY DEF EdgeKeys, RKey
  <2>3. EKey(src, rel, tgt) \notin other /\ RKey(src, rel, tgt) \notin other
    BY DEF EKey, RKey
  <2> QED BY <1>2, <2>1, <2>2, <2>3
<1>4. PairedWrite(w, d)
  BY <1>2, <1>3 DEF PairedWrite
<1> QED BY <1>4 DEF w

\* A link puts an edge and its reverse edge.
LEMMA LinkPaired ==
    ASSUME NEW d, NEW a, NEW cover
    PROVE  PairedWrite(Write({<<<<"e", a.src, a.rel, a.tgt>>, "edge">>,
                              <<<<"r", a.tgt, a.rel, a.src>>, cover>>}, {}), d)
<1> DEFINE P == {<<<<"e", a.src, a.rel, a.tgt>>, "edge">>,
                 <<<<"r", a.tgt, a.rel, a.src>>, cover>>}
           w == Write(P, {})
<1>1. w.puts = P /\ w.dels = {}
  BY WriteFields
<1>2. PutKeys(P) = {<<"e", a.src, a.rel, a.tgt>>, <<"r", a.tgt, a.rel, a.src>>}
  BY DEF PutKeys
<1> HIDE DEF P, w
<1>3. \A src, tgt \in Id, rel \in Rel :
         EKey(src, rel, tgt) \in PutKeys(P) <=> RKey(src, rel, tgt) \in PutKeys(P)
  BY <1>2 DEF EKey, RKey
<1>4. PairedWrite(w, d)
  BY <1>1, <1>3 DEF PairedWrite
<1> QED BY <1>4 DEF P, w

\* An unlink removes both.
LEMMA UnlinkPaired ==
    ASSUME NEW d, NEW e
    PROVE  PairedWrite(Write({}, EdgeKeys({e})), d)
<1>1. EdgeKeys({e}) \cup {} = EdgeKeys({e})
  OBVIOUS
<1> QED BY <1>1, RemovalPaired

\* The write of a link.
LEMMA LinkGood ==
    ASSUME NEW d, NEW a, NEW cover, a.src \in Id, a.rel \in Rel, a.tgt \in Id
    PROVE  GoodWrite(Write({<<<<"e", a.src, a.rel, a.tgt>>, "edge">>,
                            <<<<"r", a.tgt, a.rel, a.src>>, cover>>}, {}), d, "link", a, {})
<1> DEFINE P == {<<<<"e", a.src, a.rel, a.tgt>>, "edge">>,
                 <<<<"r", a.tgt, a.rel, a.src>>, cover>>}
           w == Write(P, {})
<1>1. PutKeys(P) = {EKey(a.src, a.rel, a.tgt), RKey(a.src, a.rel, a.tgt)}
  BY DEF PutKeys, EKey, RKey
<1>2. PairedWrite(w, d)
  BY LinkPaired, Zenon
<1> HIDE DEF P
<1>3. w.puts = P /\ w.dels = {} /\ WriteSet(w) = PutKeys(P)
  <2>1. w.puts = P /\ w.dels = {} \ PutKeys(P)
    BY WriteFields
  <2>2. WriteSet(w) = PutKeys(P) \cup {}
    BY WriteSetIs
  <2> HIDE DEF w
  <2> QED BY <2>1, <2>2
<1> HIDE DEF w
<1>4. \A k \in WriteSet(w) : k[1] \in {"e", "r"}
  BY <1>1, <1>3 DEF EKey, RKey
<1>5. IndexWrite(w, d, "link")
  BY <1>4, EdgesIndexed
<1>6. EdgeWrite(w, d, "link", a, {})
  BY <1>1, <1>3 DEF EdgeWrite, RKey
<1>7. GoodWrite(w, d, "link", a, {})
  BY <1>2, <1>5, <1>6 DEF GoodWrite
<1> QED BY <1>7 DEF P, w

\* The write of an unlink.
LEMMA UnlinkGood ==
    ASSUME NEW d, NEW a, NEW e
    PROVE  GoodWrite(Write({}, EdgeKeys({e})), d, "unlink", a, {})
<1> DEFINE w == Write({}, EdgeKeys({e}))
<1>1. PutKeys(w.puts) = {} /\ w.dels = EdgeKeys({e}) /\ WriteSet(w) = EdgeKeys({e})
  BY NoPuts
<1>2. \A k \in EdgeKeys({e}) : k[1] \in {"e", "r"}
  BY DEF EdgeKeys
<1>3. PairedWrite(w, d)
  BY UnlinkPaired
<1> HIDE DEF w
<1>4. IndexWrite(w, d, "unlink")
  BY <1>1, <1>2, EdgesIndexed
<1>5. EdgeWrite(w, d, "unlink", a, {})
  BY <1>1, <1>2 DEF EdgeWrite, OKey
<1> QED BY <1>3, <1>4, <1>5 DEF GoodWrite, w

-----------------------------------------------------------------------------
(* A commit.                                                               *)

\* The edges of a typed database, by their keys.
LEMMA EdgeIs ==
    ASSUME NEW d, Typed(d), NEW e \in Edges(d)
    PROVE  \E src, tgt \in Id, rel \in Rel :
               e = <<src, rel, tgt>> /\ EKey(src, rel, tgt) \in DOMAIN d
<1>1. PICK k \in DOMAIN d : k[1] = "e" /\ e = <<k[2], k[3], k[4]>>
  BY DEF Edges
<1>2. PICK src \in Id, tgt \in Id, rel \in Rel : k = EKey(src, rel, tgt)
  BY <1>1 DEF Typed
<1>3. e = <<src, rel, tgt>>
  BY <1>1, <1>2 DEF EKey
<1> QED BY <1>2, <1>3

\* An edge key is an edge.
LEMMA IsEdge ==
    ASSUME NEW d, NEW src, NEW rel, NEW tgt, EKey(src, rel, tgt) \in DOMAIN d
    PROVE  <<src, rel, tgt>> \in Edges(d)
<1> DEFINE k == EKey(src, rel, tgt)
<1>1. k[1] = "e" /\ k[2] = src /\ k[3] = rel /\ k[4] = tgt
  BY DEF EKey
<1> HIDE DEF k
<1>2. k \in DOMAIN d => <<k[2], k[3], k[4]>> \in Edges(d)
  BY <1>1 DEF Edges
<1> QED BY <1>1, <1>2 DEF k

\* An edge key put is an edge put.
LEMMA IsEdgePut ==
    ASSUME NEW w, NEW src, NEW rel, NEW tgt, EKey(src, rel, tgt) \in PutKeys(w.puts)
    PROVE  <<src, rel, tgt>> \in EdgesPut(w)
<1> DEFINE k == EKey(src, rel, tgt)
<1>1. k[1] = "e" /\ k[2] = src /\ k[3] = rel /\ k[4] = tgt
  BY DEF EKey
<1> HIDE DEF k
<1>2. k \in PutKeys(w.puts) => <<k[2], k[3], k[4]>> \in EdgesPut(w)
  BY <1>1 DEF EdgesPut
<1> QED BY <1>1, <1>2 DEF k

\* A commit leaves every edge whole, or explained by the history it extends.
LEMMA PublishedExplained ==
    ASSUME NEW s \in Session, Published(s), Typed(db), Typed(db'), DanglingExplained,
           EdgeWrite(call[s].write, call[s].snap, call[s].kind, call[s].arg, call[s].deleted)
    PROVE  DanglingExplained'
<1> DEFINE c == call[s]
           w == c.write
<1>1. /\ db' = Apply(db, w)
      /\ skewed \subseteq skewed' /\ cascaded \subseteq cascaded'
      /\ \A e \in EdgesPut(w) : \A o \in Ends(e) :
            ~ Live(db, o) /\ OKey(o) \notin PutKeys(w.puts) => e \in skewed'
      /\ \A e \in Edges(db) :
            Ends(e) \cap c.deleted /= {} /\ EKey(e[1], e[2], e[3]) \notin DOMAIN c.snap
            => e \in skewed'
      /\ c.kind = "delete" => c.deleted \ {c.arg.o} \subseteq cascaded'
  BY DEF Published, OKey, EKey
<1>2. ASSUME NEW e \in Edges(db')
      PROVE  Whole(db', e) \/ e \in skewed' \/ Src(e[1]) \in cascaded'
  <2>1. PICK src \in Id, tgt \in Id, rel \in Rel :
           e = <<src, rel, tgt>> /\ EKey(src, rel, tgt) \in DOMAIN db'
    BY EdgeIs
  <2> DEFINE k == EKey(src, rel, tgt)
  <2>2. SUFFICES ASSUME NEW o \in Ends(e), ~ Live(db', o)
                 PROVE  e \in skewed' \/ Src(e[1]) \in cascaded'
    BY DEF Whole
  <2>3. o \in Obj /\ e[1] = src /\ e[2] = rel /\ e[3] = tgt
    BY <2>1 DEF Ends, Src, Tgt, Obj, Type
  <2>4. /\ OKey(o) \notin PutKeys(w.puts)
        /\ OKey(o) \in DOMAIN db => OKey(o) \in w.dels
        /\ Live(db, o) <=> OKey(o) \in DOMAIN db
    BY <1>1, <2>2, ApplyDomain, Zenon DEF Live, OKey
  <2>5. /\ k \in PutKeys(w.puts) \/ (k \in DOMAIN db /\ k \notin w.dels)
    BY <1>1, <2>1, ApplyDomain, Zenon
  <2>6. CASE k \in PutKeys(w.puts)
    <3>1. w.puts /= {}
      BY <2>6 DEF PutKeys
    <3>2. OKey(o) \notin w.dels
      BY <2>3, <3>1 DEF EdgeWrite
    <3>3. e \in EdgesPut(w)
      BY <2>1, <2>6, IsEdgePut
    <3> QED BY <1>1, <2>2, <2>4, <3>2, <3>3
  <2>7. CASE k \in DOMAIN db /\ k \notin w.dels
    <3>1. e \in Edges(db)
      BY <2>1, <2>7, IsEdge
    <3>2. Whole(db, e) \/ e \in skewed \/ Src(e[1]) \in cascaded
      BY <3>1 DEF DanglingExplained
    <3>3. CASE Whole(db, e)
      <4>1. OKey(o) \in w.dels
        BY <2>2, <2>4, <3>3 DEF Whole
      <4>2. c.kind = "delete" /\ o \in c.deleted
        BY <2>3, <4>1 DEF EdgeWrite
      <4>3. CASE k \notin DOMAIN c.snap
        BY <1>1, <2>2, <2>3, <3>1, <4>2, <4>3
      <4>4. CASE k \in DOMAIN c.snap
        <5>1. k \in w.dels \/ Src(src) \in c.deleted \ {c.arg.o}
          BY <2>1, <2>2, <2>3, <4>1, <4>4 DEF EdgeWrite
        <5> QED BY <1>1, <2>3, <2>7, <4>2, <5>1
      <4> QED BY <4>3, <4>4
    <3> QED BY <1>1, <3>2, <3>3
  <2> QED BY <2>5, <2>6, <2>7
<1> QED BY <1>2 DEF DanglingExplained, Whole, Edges, Live

\* A commit keeps the store whole.
LEMMA PublishedStore ==
    ASSUME ObjInv, NEW s \in Session, Published(s)
    PROVE  StoreInv'
<1> DEFINE c == call[s]
           w == c.write
<1>1. /\ c.pc = "staged" /\ WriteSet(w) \cap c.dirty = {} /\ db' = Apply(db, w)
      /\ collided' = collided \cup
             {o \in {o \in Obj : OKey(o) \in PutKeys(w.puts) /\ c.kind /= "update"} : Live(db, o)}
  BY DEF Published, OKey
<1>2. /\ GoodWrite(w, c.snap, c.kind, c.arg, c.deleted)
      /\ Paired(c.snap) /\ Agree(c.snap, db, c.dirty)
      /\ Paired(db) /\ Typed(db) /\ IndexesExact /\ DanglingExplained
  BY <1>1 DEF ObjInv, StoreInv, CallsInv, CallInv, Begun
<1>3. IndexWrite(w, db, c.kind)
  BY <1>1, <1>2, IndexTransfer DEF GoodWrite
<1>4. Paired(db')
  <2>1. Paired(Apply(db, w))
    BY <1>1, <1>2, ApplyPaired DEF GoodWrite
  <2> QED BY <1>1, <2>1
<1>5. Typed(db')
  <2>1. Typed(Apply(db, w))
    BY <1>2, <1>3, ApplyTyped DEF GoodWrite, EdgeWrite
  <2> QED BY <1>1, <2>1
<1>6. ASSUME collided' = {} PROVE Indexed(db')
  <2>1. collided = {}
    BY <1>1, <1>6
  <2>2. \A o \in Obj : c.kind /= "update" /\ OKey(o) \in PutKeys(w.puts) => ~ Live(db, o)
    BY <1>1, <1>6
  <2>3. Indexed(db)
    BY <1>2, <2>1 DEF IndexesExact
  <2>4. Indexed(Apply(db, w))
    BY <1>2, <1>3, <2>2, <2>3, ApplyIndexed
  <2> QED BY <1>1, <2>4
<1>7. DanglingExplained'
  BY <1>2, <1>5, PublishedExplained DEF GoodWrite
<1>8. Paired(db)' /\ Typed(db)'
  BY <1>4, <1>5 DEF Paired, Typed, Live, Object
<1>9. IndexesExact'
  BY <1>6 DEF IndexesExact, Indexed, Live, Object
<1> QED BY <1>7, <1>8, <1>9 DEF StoreInv

-----------------------------------------------------------------------------
(* Ids.                                                                    *)

\* A set of numbers has a least element, and below a bound a greatest.
LEMMA MinIsMember ==
    ASSUME NEW S, S \subseteq Nat, S /= {}
    PROVE  Min(S) \in S /\ \A y \in S : Min(S) =< y
<1> DEFINE R == {p \in Nat \X Nat : p[1] < p[2]}
<1>1. IsWellFoundedOn(R, Nat)
  BY NatLessThanWellFounded DEF OpToRel
<1>2. \A x, y \in S : y < x => <<y, x>> \in R
  OBVIOUS
<1> HIDE DEF R
<1>3. PICK x \in S : \A y \in S : ~ (<<y, x>> \in R)
  BY <1>1, WFMin, Zenon
<1>4. ASSUME NEW y \in S PROVE x =< y
  <2>1. ~ (y < x)
    BY <1>2, <1>3, Zenon
  <2>2. x \in Nat /\ y \in Nat
    OBVIOUS
  <2> QED BY <2>1, <2>2
<1> QED BY <1>4, Zenon DEF Min

\* The largest of some numbers is one of them.
LEMMA MaxIsMember ==
    ASSUME NEW n \in Nat, NEW S, S \subseteq 0 .. n, S /= {}
    PROVE  Max(S) \in S
<1> DEFINE T == {n - x : x \in S}
<1>1. T \subseteq Nat /\ T /= {}
  <2>1. \A x \in S : n - x \in Nat
    OBVIOUS
  <2> QED BY <2>1, Zenon
<1>2. Min(T) \in T /\ \A y \in T : Min(T) =< y
  <2> HIDE DEF T
  <2> QED BY <1>1, MinIsMember, Zenon
<1>3. PICK z \in S : Min(T) = n - z
  BY <1>2
<1>4. \A y \in S : n - z =< n - y
  BY <1>2, <1>3, Zenon
<1>5. \A y \in S : z >= y
  BY <1>4
<1> QED BY <1>5, Zenon DEF Max

\* The next id is positive after a restart.
LEMMA NextIdPositive ==
    ASSUME NEW S, S \subseteq Obj
    PROVE  Max({o[2] : o \in S} \cup {0}) + 1 \in Nat \ {0}
<1> DEFINE I == {o[2] : o \in S} \cup {0}
<1>1. I \subseteq 0 .. MaxId /\ I /= {}
  <2>1. \A o \in S : o[2] \in 0 .. MaxId
    BY SchemaAssumption DEF Obj, Id
  <2>2. 0 \in 0 .. MaxId
    BY SchemaAssumption
  <2> QED BY <2>1, <2>2
<1> HIDE DEF I
<1>2. Max(I) \in I
  BY <1>1, MaxIsMember, SchemaAssumption, Zenon
<1>3. Max(I) + 1 \in Nat \ {0}
  <2> DEFINE m == Max(I)
  <2>1. m \in 0 .. MaxId
    BY <1>1, <1>2, Zenon
  <2> HIDE DEF m
  <2>2. m + 1 \in Nat \ {0}
    BY <2>1, SchemaAssumption
  <2> QED BY <2>2 DEF m
<1> QED BY <1>3 DEF I

=============================================================================
