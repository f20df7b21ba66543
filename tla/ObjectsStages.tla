--------------------------- MODULE ObjectsStages ---------------------------
(* The writes that the calls of Objects stage are good ones: create, batch   *)
(* and restore (CreateGood), update (UpdateGood), delete with its cascades   *)
(* (DeleteGood); link and unlink are in ObjectsWrites.                       *)
EXTENDS ObjectsWrites

\* The index entries of an object with a key.
LEMMA IndexKeysAre ==
    ASSUME NEW o, NEW key
    PROVE  /\ key = Null => UniqueKeys(o, key) = {} /\ IndexKeys(o, key) = {}
           /\ key /= Null => UniqueKeys(o, key) = {UKey(o, key)} /\ IndexKeys(o, key) = {IKey(o, key)}
BY DEF UniqueKeys, IndexKeys, UKey, IKey

\* outbound_rev_edges gives reverse edges only.
LEMMA OutboundAreReverse ==
    ASSUME NEW d, NEW o, NEW p \in OutboundRevEdges(d, o)
    PROVE  p[1][1] = "r"
BY DEF OutboundRevEdges

\* The reverse edges an update or a refresh rewrites are of edges of d.
LEMMA OutboundKeys ==
    ASSUME NEW d, NEW o, NEW k \in PutKeys(OutboundRevEdges(d, o))
    PROVE  \E x \in Rel \X Id : /\ k = <<"r", x[2], x[1], o[2]>>
                                /\ <<"e", o[2], x[1], x[2]>> \in DOMAIN d
<1>1. PICK p \in OutboundRevEdges(d, o) : k = p[1]
  BY DEF PutKeys
<1>2. PICK x \in Rel \X Id :
         /\ p = <<<<"r", x[2], x[1], o[2]>>, CoveringRevValue(d, o[2], x[1])>>
         /\ x[2] \in Targets(d, o[2], x[1])
  BY <1>1 DEF OutboundRevEdges
<1>3. <<"e", o[2], x[1], x[2]>> \in DOMAIN d
  BY <1>2 DEF Targets
<1> QED BY <1>1, <1>2, <1>3, Zenon

\* A write of reverse edges of d, and of keys that are no edges, is paired.
LEMMA RewritePaired ==
    ASSUME NEW d, NEW w,
           \A k \in w.dels : k[1] \in {"o", "u", "i", "g"},
           \A k \in PutKeys(w.puts) :
               \/ k[1] \in {"o", "u", "i", "g"}
               \/ \E o : k \in PutKeys(OutboundRevEdges(d, o))
    PROVE  PairedWrite(w, d)
<1> SUFFICES ASSUME NEW src \in Id, NEW tgt \in Id, NEW rel \in Rel
             PROVE  /\ EKey(src, rel, tgt) \notin w.dels /\ RKey(src, rel, tgt) \notin w.dels
                    /\ EKey(src, rel, tgt) \notin PutKeys(w.puts)
                    /\ RKey(src, rel, tgt) \in PutKeys(w.puts) => EKey(src, rel, tgt) \in DOMAIN d
  BY DEF PairedWrite
<1>1. EKey(src, rel, tgt)[1] = "e" /\ RKey(src, rel, tgt)[1] = "r"
  BY DEF EKey, RKey
<1>2. EKey(src, rel, tgt) \notin w.dels /\ RKey(src, rel, tgt) \notin w.dels
  BY <1>1
<1>3. EKey(src, rel, tgt) \notin PutKeys(w.puts)
  <2>1. SUFFICES ASSUME EKey(src, rel, tgt) \in PutKeys(w.puts) PROVE FALSE
    OBVIOUS
  <2>2. PICK o : EKey(src, rel, tgt) \in PutKeys(OutboundRevEdges(d, o))
    BY <1>1, <2>1
  <2>3. PICK x \in Rel \X Id : /\ EKey(src, rel, tgt) = <<"r", x[2], x[1], o[2]>>
                               /\ <<"e", o[2], x[1], x[2]>> \in DOMAIN d
    BY <2>2, OutboundKeys
  <2> QED BY <2>3 DEF EKey
<1>4. ASSUME RKey(src, rel, tgt) \in PutKeys(w.puts)
      PROVE  EKey(src, rel, tgt) \in DOMAIN d
  <2>1. PICK o : RKey(src, rel, tgt) \in PutKeys(OutboundRevEdges(d, o))
    BY <1>1, <1>4
  <2>2. PICK x \in Rel \X Id : /\ RKey(src, rel, tgt) = <<"r", x[2], x[1], o[2]>>
                               /\ <<"e", o[2], x[1], x[2]>> \in DOMAIN d
    BY <2>1, OutboundKeys
  <2>3. x[2] = tgt /\ x[1] = rel /\ o[2] = src
    BY <2>2 DEF RKey
  <2> QED BY <2>2, <2>3 DEF EKey
<1> QED BY <1>2, <1>3, <1>4

\* An update moves the entries of its object.
LEMMA UpdateIndexed ==
    ASSUME NEW d, NEW a, a.o \in Obj, a.key \in KeyValue \cup {Null}, Live(d, a.o),
           IsFields(Object(d, a.o)), ~ (a.field = "key" /\ Taken(d, a.key, a.o)),
           NEW old, old = Object(d, a.o), NEW new, new = Merged(old, a),
           NEW u, u = UniqueWrite(a.o, old, new, a.field),
           NEW w, w = RewriteObject(d, a.o, old, new)
    PROVE  IndexWrite(Write(u.puts \cup w.puts \cup {<<<<"o", a.o>>, new>>},
                            u.dels \cup w.dels), d, "update")
<1> DEFINE o == a.o
           P == u.puts \cup w.puts \cup {<<<<"o", a.o>>, new>>}
           z == Write(P, u.dels \cup w.dels)
<1>1. /\ IsFields(new)
      /\ a.field = "key" => new.key = a.key
      /\ a.field /= "key" => new.key = old.key
  BY DEF Merged, IsFields
<1>2. /\ a.field /= "key" => u.puts = {} /\ u.dels = {}
      /\ a.field = "key" /\ new.key = Null => u.puts = {}
      /\ a.field = "key" /\ new.key /= Null => u.puts = {<<UKey(o, new.key), o[2]>>}
      /\ a.field = "key" /\ old.key = Null => u.dels = {}
      /\ a.field = "key" /\ old.key /= Null => u.dels = {UKey(o, old.key)} \ PutKeys(u.puts)
  <2>1. CASE a.field /= "key"
    <3>1. u = Write({}, {})
      BY <2>1 DEF UniqueWrite
    <3> QED BY <2>1, <3>1, WriteFields
  <2>2. CASE a.field = "key"
    <3> DEFINE U == {<<k, o[2]>> : k \in UniqueKeys(o, new.key)}
    <3>1. u = Write(U, UniqueKeys(o, old.key))
      BY <2>2 DEF UniqueWrite
    <3>2. /\ new.key = Null => U = {}
          /\ new.key /= Null => U = {<<UKey(o, new.key), o[2]>>}
      BY IndexKeysAre
    <3> HIDE DEF U
    <3>3. u.puts = U /\ u.dels = UniqueKeys(o, old.key) \ PutKeys(U)
      BY <3>1, WriteFields
    <3> QED BY <2>2, <3>2, <3>3, IndexKeysAre
  <2> QED BY <2>1, <2>2
<1>3. /\ \A p \in w.puts : \/ new.key /= Null /\ p = <<IKey(o, new.key), new>>
                           \/ p[1][1] \in {"r", "g"}
      /\ new.key /= Null => <<IKey(o, new.key), new>> \in w.puts
      /\ old.key = Null => w.dels = {}
      /\ old.key /= Null => w.dels = {IKey(o, old.key)} \ PutKeys(w.puts)
  <2> DEFINE A == {<<k, new>> : k \in IndexKeys(o, new.key)}
             G == {<<<<"g", o>>, version_counters[o] + 1>>}
  <2>1. w = Write(A \cup OutboundRevEdges(d, o) \cup G, IndexKeys(o, old.key))
    BY DEF RewriteObject
  <2>2. /\ new.key = Null => A = {}
        /\ new.key /= Null => A = {<<IKey(o, new.key), new>>}
    BY IndexKeysAre
  <2>3. \A p \in G : p[1][1] = "g"
    OBVIOUS
  <2> HIDE DEF A, G
  <2>4. /\ w.puts = A \cup OutboundRevEdges(d, o) \cup G
        /\ w.dels = IndexKeys(o, old.key) \ PutKeys(w.puts)
    BY <2>1, WriteFields
  <2> QED BY <2>2, <2>3, <2>4, IndexKeysAre, OutboundAreReverse
<1>4. /\ z.puts = P /\ z.dels = (u.dels \cup w.dels) \ PutKeys(P)
      /\ WriteSet(z) = PutKeys(P) \cup u.dels \cup w.dels
  BY WriteFields, WriteSetIs
<1>4a. \A p \in P : p \in u.puts \/ p \in w.puts \/ p = <<OKey(o), new>>
  BY DEF OKey
<1>4b. u.puts \subseteq P /\ w.puts \subseteq P /\ <<OKey(o), new>> \in P
  BY DEF OKey
<1> HIDE DEF P, z, o
<1>5. \A p \in z.puts :
                       \/ a.field = "key" /\ new.key /= Null /\ p = <<UKey(o, new.key), o[2]>>
                       \/ new.key /= Null /\ p = <<IKey(o, new.key), new>>
                       \/ p[1][1] \in {"r", "g"}
                       \/ p = <<OKey(o), new>>
  <2>1. \A p \in u.puts : a.field = "key" /\ new.key /= Null /\ p = <<UKey(o, new.key), o[2]>>
    BY <1>2
  <2>2. \A p \in w.puts : \/ new.key /= Null /\ p = <<IKey(o, new.key), new>>
                          \/ p[1][1] \in {"r", "g"}
    BY <1>3
  <2>3. z.puts = P
    BY <1>4
  <2> QED BY <1>4a, <2>1, <2>2, <2>3
<1>6. /\ <<OKey(o), new>> \in z.puts
      /\ new.key /= Null => <<IKey(o, new.key), new>> \in z.puts
      /\ a.field = "key" /\ new.key /= Null => <<UKey(o, new.key), o[2]>> \in z.puts
  BY <1>2, <1>3, <1>4, <1>4b
<1>7. \A k \in z.dels :
                       \/ a.field = "key" /\ old.key /= Null /\ k = UKey(o, old.key)
                       \/ old.key /= Null /\ k = IKey(o, old.key)
  <2>1. \A k \in u.dels : a.field = "key" /\ old.key /= Null /\ k = UKey(o, old.key)
    BY <1>2
  <2>2. \A k \in w.dels : old.key /= Null /\ k = IKey(o, old.key)
    BY <1>3
  <2>3. \A k \in z.dels : k \in u.dels \/ k \in w.dels
    BY <1>4
  <2> QED BY <2>1, <2>2, <2>3
<1>8. /\ OKey(o) \in WriteSet(z)
      /\ old.key /= Null => IKey(o, old.key) \in WriteSet(z)
      /\ a.field = "key" /\ old.key /= Null => UKey(o, old.key) \in WriteSet(z)
  <2>1. PutKeys(u.puts) \subseteq PutKeys(P) /\ PutKeys(w.puts) \subseteq PutKeys(P)
    BY <1>4b, PutKeysMono
  <2>2. OKey(o) \in PutKeys(P)
    BY <1>4b DEF PutKeys
  <2> QED BY <1>2, <1>3, <1>4, <2>1, <2>2
<1>9. a.field = "key" => new.key = a.key /\ (UKey(o, a.key) \in DOMAIN d => d[UKey(o, a.key)] = o[2])
  BY <1>1 DEF Taken, UKey, o
<1>10. /\ o \in Obj /\ Live(d, o) /\ Object(d, o) = old
       /\ new.key \in KeyValue \cup {Null} /\ old.key \in KeyValue \cup {Null}
  BY <1>1 DEF IsFields, o
<1>11. \A x, y, v : /\ OKey(x)[1] = "o" /\ UKey(x, v)[1] = "u" /\ IKey(x, v)[1] = "i"
                    /\ OKey(x) = OKey(y) => x = y
  BY DEF OKey, UKey, IKey
<1>12. \A k \in WriteSet(z) : k \in z.dels \/ \E p \in z.puts : p[1] = k
  BY DEF WriteSet, PutKeys
<1>13. \A p, q \in z.puts : p[1] = q[1] /\ p[1][1] \in {"o", "u", "i"} => p[2] = q[2]
  BY <1>5, <1>11
<1>14. ASSUME NEW p \in z.puts, p[1][1] = "o"
       PROVE  \E x \in Obj :
              /\ p[1] = OKey(x) /\ IsFields(p[2])
              /\ p[2].key /= Null =>
                    /\ <<IKey(x, p[2].key), p[2]>> \in z.puts
                    /\ \/ <<UKey(x, p[2].key), x[2]>> \in z.puts
                       \/ /\ UKey(x, p[2].key) \notin WriteSet(z)
                          /\ Live(d, x) /\ Object(d, x).key = p[2].key
  <2>1. p[1] = OKey(o) /\ p[2] = new
    BY <1>5, <1>11, <1>14
  <2>2. a.field /= "key" => UKey(o, new.key) \notin WriteSet(z)
    BY <1>5, <1>7, <1>11, <1>12
  <2> QED BY <1>1, <1>6, <1>10, <2>1, <2>2, Zenon
<1>15. ASSUME NEW p \in z.puts, p[1][1] = "u"
       PROVE  \E x \in Obj, v \in KeyValue :
                /\ p = <<UKey(x, v), x[2]>>
                /\ \E q \in z.puts : q[1] = OKey(x) /\ q[2].key = v
                /\ UKey(x, v) \in DOMAIN d => d[UKey(x, v)] = x[2]
  <2>1. a.field = "key" /\ new.key /= Null /\ p = <<UKey(o, new.key), o[2]>>
    BY <1>5, <1>11, <1>15
  <2>2. \E q \in z.puts : q[1] = OKey(o) /\ q[2].key = new.key
    BY <1>6
  <2> QED BY <1>9, <1>10, <2>1, <2>2
<1>16. ASSUME NEW p \in z.puts, p[1][1] = "i"
       PROVE  \E x \in Obj, v \in KeyValue :
                p[1] = IKey(x, v) /\ <<OKey(x), p[2]>> \in z.puts /\ p[2].key = v
  <2>1. new.key /= Null /\ p[1] = IKey(o, new.key) /\ p[2] = new
    BY <1>5, <1>11, <1>16
  <2> QED BY <1>6, <1>10, <2>1
<1>17. ASSUME NEW k \in z.dels
       PROVE  /\ k[1] = "u" => \E x \in Obj : /\ OKey(x) \in WriteSet(z) /\ Live(d, x)
                                              /\ k = UKey(x, Object(d, x).key)
              /\ k[1] = "i" => \E x \in Obj, v \in KeyValue : k = IKey(x, v) /\ OKey(x) \in WriteSet(z)
  BY <1>7, <1>8, <1>10, <1>11, <1>17
<1>18. ASSUME NEW x \in Obj, OKey(x) \in WriteSet(z), Live(d, x), Object(d, x).key /= Null
       PROVE  /\ IKey(x, Object(d, x).key) \in WriteSet(z)
              /\ \/ UKey(x, Object(d, x).key) \in WriteSet(z)
                 \/ \E p \in z.puts : p[1] = OKey(x) /\ p[2].key = Object(d, x).key
  <2>1. x = o
    BY <1>5, <1>7, <1>11, <1>12, <1>18
  <2>2. a.field /= "key" => \E p \in z.puts : p[1] = OKey(o) /\ p[2].key = old.key
    BY <1>1, <1>6
  <2> QED BY <1>8, <1>10, <1>18, <2>1, <2>2
<1>19. IndexWrite(z, d, "update")
  BY <1>13, <1>14, <1>15, <1>16, <1>17, <1>18, Zenon DEF IndexWrite
<1> QED BY <1>19 DEF z, P

\* The keys of an update: those of its object and of its reverse edges.
LEMMA UpdateKeys ==
    ASSUME NEW d, NEW o, NEW old, NEW new, NEW field,
           NEW u, u = UniqueWrite(o, old, new, field),
           NEW w, w = RewriteObject(d, o, old, new),
           NEW z, z = Write(u.puts \cup w.puts \cup {<<<<"o", o>>, new>>}, u.dels \cup w.dels)
    PROVE  /\ \A k \in z.dels : k[1] \in {"u", "i"}
           /\ \A k \in PutKeys(z.puts) :
                 \/ k[1] \in {"o", "u", "i", "g"}
                 \/ k \in PutKeys(OutboundRevEdges(d, o))
<1> DEFINE A == {<<k, new>> : k \in IndexKeys(o, new.key)}
           R == OutboundRevEdges(d, o)
           G == {<<<<"g", o>>, version_counters[o] + 1>>}
           O == {<<<<"o", o>>, new>>}
           P == u.puts \cup w.puts \cup O
<1>1. \A k \in PutKeys(u.puts) \cup u.dels : k[1] = "u"
  <2>1. CASE field = "key"
    <3> DEFINE U == {<<k, o[2]>> : k \in UniqueKeys(o, new.key)}
    <3>1. u.puts = U /\ u.dels \subseteq UniqueKeys(o, old.key)
      BY <2>1, WriteFields DEF UniqueWrite
    <3>2. PutKeys(U) \subseteq UniqueKeys(o, new.key)
      BY DEF PutKeys
    <3> HIDE DEF U
    <3> QED BY <3>1, <3>2 DEF UniqueKeys
  <2>2. CASE field /= "key"
    <3>1. u.puts = {} /\ u.dels = {}
      BY <2>2, WriteFields DEF UniqueWrite
    <3> QED BY <3>1 DEF PutKeys
  <2> QED BY <2>1, <2>2
<1>2. w.puts = A \cup R \cup G /\ w.dels \subseteq IndexKeys(o, old.key)
  BY WriteFields DEF RewriteObject
<1>3. \A k \in PutKeys(A) \cup w.dels : k[1] = "i"
  BY <1>2 DEF PutKeys, IndexKeys
<1>4. \A k \in PutKeys(G) \cup PutKeys(O) : k[1] \in {"g", "o"}
  BY DEF PutKeys
<1>5. z.puts = P /\ z.dels \subseteq u.dels \cup w.dels
  BY WriteFields
<1> HIDE DEF A, R, G, O
<1>6. \A k \in PutKeys(P) :
         k \in PutKeys(u.puts) \/ k \in PutKeys(A) \/ k \in PutKeys(R)
            \/ k \in PutKeys(G) \/ k \in PutKeys(O)
  BY <1>2 DEF PutKeys
<1> HIDE DEF P
<1>7. \A k \in z.dels : k[1] \in {"u", "i"}
  BY <1>1, <1>3, <1>5, Zenon
<1>8. \A k \in PutKeys(z.puts) :
         \/ k[1] \in {"o", "u", "i", "g"}
         \/ k \in PutKeys(OutboundRevEdges(d, o))
  BY <1>1, <1>3, <1>4, <1>5, <1>6 DEF R
<1> QED BY <1>7, <1>8, Zenon

\* The write of an update.
LEMMA UpdateGood ==
    ASSUME NEW d, NEW a, a.o \in Obj, a.key \in KeyValue \cup {Null}, Live(d, a.o), Typed(d),
           ~ (a.field = "key" /\ Taken(d, a.key, a.o)),
           NEW old, old = Object(d, a.o), NEW new, new = Merged(old, a),
           NEW u, u = UniqueWrite(a.o, old, new, a.field),
           NEW w, w = RewriteObject(d, a.o, old, new),
           NEW z, z = Write(u.puts \cup w.puts \cup {<<<<"o", a.o>>, new>>}, u.dels \cup w.dels)
    PROVE  GoodWrite(z, d, "update", a, {})
<1>1. IndexWrite(z, d, "update")
  <2>1. IsFields(Object(d, a.o))
    BY DEF Typed
  <2> QED BY <2>1, UpdateIndexed
<1>2. /\ \A k \in z.dels : k[1] \in {"u", "i"}
      /\ \A k \in PutKeys(z.puts) :
            k[1] \in {"o", "u", "i", "g"} \/ k \in PutKeys(OutboundRevEdges(d, a.o))
  BY UpdateKeys
<1>3. PairedWrite(z, d)
  BY <1>2, RewritePaired, Zenon
<1>4. \A k \in PutKeys(z.puts) : k[1] /= "e"
  <2>1. \A k \in PutKeys(OutboundRevEdges(d, a.o)) : k[1] = "r"
    BY OutboundAreReverse DEF PutKeys
  <2> QED BY <1>2, <2>1, Zenon
<1>5. EdgeWrite(z, d, "update", a, {})
  BY <1>2, <1>4, Zenon DEF EdgeWrite, OKey
<1> QED BY <1>1, <1>3, <1>5 DEF GoodWrite

\* What delete removes: the keys of its victims, and edges.
LEMMA DeleteKeysAre ==
    ASSUME NEW d, NEW o, NEW k \in DeleteInner(d, o).keys, k[1] \in {"o", "u", "i"}
    PROVE  \E x \in DeleteInner(d, o).victims : k \in OwnKeys(d, x)
<1> DEFINE edges == IncomingEdges(d, o) \cup OutboundEdges(d, o)
                        \cup UNION {CascadedEdges(d, o, src) : src \in Cascade(d, o)}
           V == DeleteInner(d, o).victims
<1>1. DeleteInner(d, o).keys = EdgeKeys(edges) \cup UNION {OwnKeys(d, x) : x \in V}
  BY DEF DeleteInner
<1> HIDE DEF edges, V
<1>2. k \notin EdgeKeys(edges)
  BY DEF EdgeKeys
<1>3. \E x \in V : k \in OwnKeys(d, x)
  BY <1>1, <1>2
<1> QED BY <1>3 DEF V

\* The victims of a delete: its object, and the sources a cascade reaches.
LEMMA VictimsAre ==
    ASSUME NEW d, NEW o \in Obj, NEW x \in DeleteInner(d, o).victims
    PROVE  /\ x \in Obj /\ OwnKeys(d, x) \subseteq DeleteInner(d, o).keys
           /\ x = o \/ \E src \in Id : x = Src(src)
<1>1. x = o \/ \E src \in Cascade(d, o) : x = Src(src)
  BY DEF DeleteInner
<1>2. Cascade(d, o) \subseteq Id
  BY Zenon DEF Cascade, Sources
<1>3. x \in Obj /\ (x = o \/ \E src \in Id : x = Src(src))
  BY <1>1, <1>2 DEF Src, Obj, Type
<1>4. OwnKeys(d, x) \subseteq DeleteInner(d, o).keys
  BY DEF DeleteInner
<1> QED BY <1>3, <1>4

\* The keys of one victim: of its object, its index entries and its generation.
LEMMA OwnKeysSplit ==
    ASSUME NEW d, NEW x \in Obj
    PROVE  \E G : /\ \A k \in G : k[1] = "g"
                 /\ OwnKeys(d, x) =
                      {OKey(x)} \cup G
                          \cup (IF Live(d, x) /\ Object(d, x).key /= Null
                                THEN {UKey(x, Object(d, x).key), IKey(x, Object(d, x).key)} ELSE {})
<1> DEFINE key == Object(d, x).key
           G == IF version_counters[x] > 1 THEN {<<"g", x>>} ELSE {}
           I == IF Live(d, x) THEN UniqueKeys(x, key) \cup IndexKeys(x, key) ELSE {}
<1>1. OwnKeys(d, x) = {OKey(x)} \cup G \cup I
  BY DEF OwnKeys, OKey
<1>2. \A k \in G : k[1] = "g"
  OBVIOUS
<1>3. I = IF Live(d, x) /\ key /= Null THEN {UKey(x, key), IKey(x, key)} ELSE {}
  BY IndexKeysAre
<1> HIDE DEF G, I
<1> QED BY <1>1, <1>2, <1>3

\* The object and the index entries of a live victim are among its keys.
LEMMA OwnKeysHave ==
    ASSUME NEW d, NEW x \in Obj
    PROVE  /\ OKey(x) \in OwnKeys(d, x)
           /\ Live(d, x) /\ Object(d, x).key /= Null =>
                 /\ UKey(x, Object(d, x).key) \in OwnKeys(d, x)
                 /\ IKey(x, Object(d, x).key) \in OwnKeys(d, x)
BY OwnKeysSplit

\* The same, key by key.
LEMMA OwnKeyIs ==
    ASSUME NEW d, NEW x \in Obj, NEW k \in OwnKeys(d, x)
    PROVE  \/ k = OKey(x) \/ k[1] = "g"
           \/ /\ Live(d, x) /\ Object(d, x).key /= Null
              /\ k = UKey(x, Object(d, x).key) \/ k = IKey(x, Object(d, x).key)
BY OwnKeysSplit

\* A delete removes the entries of its victims.
LEMMA DeleteIndexed ==
    ASSUME NEW d, NEW o \in Obj, Typed(d), NEW kind, kind /= "update"
    PROVE  IndexWrite(Write({}, DeleteInner(d, o).keys), d, kind)
<1> DEFINE w == Write({}, DeleteInner(d, o).keys)
           V == DeleteInner(d, o).victims
           K == DeleteInner(d, o).keys
<1>1. w.puts = {} /\ w.dels = K /\ WriteSet(w) = K /\ PutKeys(w.puts) = {}
  BY NoPuts
<1>2. \A k \in K : k[1] \in {"o", "u", "i"} => \E x \in V : k \in OwnKeys(d, x)
  BY DeleteKeysAre
<1>3. \A x \in V : x \in Obj /\ OwnKeys(d, x) \subseteq K
  BY VictimsAre
<1> HIDE DEF w, V, K
<1>4. ASSUME NEW k \in K, k[1] = "u"
      PROVE  \E x \in Obj : OKey(x) \in K /\ Live(d, x) /\ k = UKey(x, Object(d, x).key)
  <2>1. PICK x \in V : k \in OwnKeys(d, x)
    BY <1>2, <1>4
  <2>2. Live(d, x) /\ k = UKey(x, Object(d, x).key)
    BY <1>3, <1>4, <2>1, OwnKeyIs DEF OKey, UKey, IKey
  <2> QED BY <1>3, <2>1, <2>2, OwnKeysHave
<1>5. ASSUME NEW k \in K, k[1] = "i"
      PROVE  \E x \in Obj, v \in KeyValue : k = IKey(x, v) /\ OKey(x) \in K
  <2>1. PICK x \in V : k \in OwnKeys(d, x)
    BY <1>2, <1>5
  <2>2. Live(d, x) /\ Object(d, x).key /= Null /\ k = IKey(x, Object(d, x).key)
    BY <1>3, <1>5, <2>1, OwnKeyIs DEF OKey, UKey, IKey
  <2>3. Object(d, x).key \in KeyValue
    BY <1>3, <2>2 DEF Typed, IsFields
  <2> QED BY <1>3, <2>1, <2>2, <2>3, OwnKeysHave
<1>6. ASSUME NEW x \in Obj, OKey(x) \in K, Live(d, x), Object(d, x).key /= Null
      PROVE  IKey(x, Object(d, x).key) \in K /\ UKey(x, Object(d, x).key) \in K
  <2>1. PICK y \in V : OKey(x) \in OwnKeys(d, y)
    BY <1>2, <1>6 DEF OKey
  <2>2. y = x
    BY <1>3, <2>1, OwnKeyIs DEF OKey, UKey, IKey
  <2> QED BY <1>3, <1>6, <2>2, OwnKeysHave
<1>7. IndexWrite(w, d, kind)
  BY <1>1, <1>4, <1>5, <1>6 DEF IndexWrite
<1> QED BY <1>7 DEF w, K

\* A delete leaves no edge of its object, and none of the other victims except
\* as edges of a source deleted by the cascade.
LEMMA DeleteEdges ==
    ASSUME NEW d, NEW o \in Obj, Paired(d), NEW x \in DeleteInner(d, o).victims,
           NEW src \in Id, NEW tgt \in Id, NEW rel \in Rel,
           EKey(src, rel, tgt) \in DOMAIN d, x \in Ends(<<src, rel, tgt>>)
    PROVE  \/ EKey(src, rel, tgt) \in DeleteInner(d, o).keys
           \/ Src(src) \in DeleteInner(d, o).victims \ {o}
<1> DEFINE edges == IncomingEdges(d, o) \cup OutboundEdges(d, o)
                        \cup UNION {CascadedEdges(d, o, y) : y \in Cascade(d, o)}
           e == <<src, rel, tgt>>
<1>1. EdgeKeys(edges) \subseteq DeleteInner(d, o).keys
  BY DEF DeleteInner
<1>2. e \in edges => EKey(src, rel, tgt) \in EdgeKeys(edges)
  <2> HIDE DEF edges
  <2>1. e[1] = src /\ e[2] = rel /\ e[3] = tgt
    OBVIOUS
  <2> HIDE DEF e
  <2> QED BY <2>1 DEF EdgeKeys, EKey
<1>3. x = Src(src) \/ x = Tgt(tgt)
  BY DEF Ends
<1>4. CASE x = o /\ x = Src(src)
  <2>1. tgt \in Targets(d, o[2], rel) /\ o[1] = "source" /\ o[2] = src
    BY <1>4 DEF Targets, EKey, Src
  <2>2. e \in OutboundEdges(d, o)
    BY <2>1 DEF OutboundEdges
  <2> QED BY <1>1, <1>2, <2>2
<1>5. CASE x = o /\ x = Tgt(tgt)
  <2>1. RKey(src, rel, tgt) \in DOMAIN d
    BY DEF Paired
  <2>2. src \in Sources(d, o[2], rel) /\ o[1] = "target" /\ o[2] = tgt
    BY <1>5, <2>1 DEF Sources, RKey, Tgt
  <2>3. e \in IncomingEdges(d, o)
    BY <2>2 DEF IncomingEdges, Incoming
  <2> QED BY <1>1, <1>2, <2>3
<1>6. CASE x /= o
  <2>1. PICK y \in Id : x = Src(y)
    BY <1>6, VictimsAre
  <2>2. x = Src(src)
    BY <1>3, <2>1 DEF Src, Tgt
  <2> QED BY <1>6, <2>2
<1> QED BY <1>3, <1>4, <1>5, <1>6

\* A delete removes edges in both directions.
LEMMA DeletePaired ==
    ASSUME NEW d, NEW o
    PROVE  PairedWrite(Write({}, DeleteInner(d, o).keys), d)
<1> DEFINE victims == {o} \cup {Src(src) : src \in Cascade(d, o)}
           edges == IncomingEdges(d, o) \cup OutboundEdges(d, o)
                        \cup UNION {CascadedEdges(d, o, src) : src \in Cascade(d, o)}
           own == UNION {OwnKeys(d, x) : x \in victims}
<1>1. DeleteInner(d, o).keys = EdgeKeys(edges) \cup own
  BY DEF DeleteInner
<1>2. \A x : \A k \in OwnKeys(d, x) : k[1] \in {"o", "u", "i", "g"}
  BY DEF OwnKeys, UniqueKeys, IndexKeys
<1>3. \A k \in own : k[1] \in {"o", "u", "i", "g"}
  BY <1>2
<1> HIDE DEF edges, own
<1> QED BY <1>1, <1>3, RemovalPaired

\* The write of a delete.
LEMMA DeleteGood ==
    ASSUME NEW d, NEW a, a.o \in Obj, Paired(d), Typed(d)
    PROVE  GoodWrite(Write({}, DeleteInner(d, a.o).keys), d, "delete", a,
                     DeleteInner(d, a.o).victims)
<1> DEFINE K == DeleteInner(d, a.o).keys
           V == DeleteInner(d, a.o).victims
           w == Write({}, K)
<1>1. PairedWrite(w, d) /\ IndexWrite(w, d, "delete")
  BY DeletePaired, DeleteIndexed
<1>2. w.puts = {} /\ PutKeys(w.puts) = {} /\ w.dels = K
  BY NoPuts
<1>3. ASSUME NEW x \in Obj, OKey(x) \in K
      PROVE  x \in V
  <2>1. PICK y \in V : OKey(x) \in OwnKeys(d, y)
    BY <1>3, DeleteKeysAre DEF OKey
  <2>2. y \in Obj
    BY VictimsAre
  <2>3. x = y
    BY <2>1, <2>2, OwnKeyIs DEF OKey, UKey, IKey
  <2> QED BY <2>3
<1>4. ASSUME NEW x \in Obj, OKey(x) \in K, NEW src \in Id, NEW tgt \in Id, NEW rel \in Rel,
             EKey(src, rel, tgt) \in DOMAIN d, x \in Ends(<<src, rel, tgt>>)
      PROVE  EKey(src, rel, tgt) \in K \/ Src(src) \in V \ {a.o}
  BY <1>3, <1>4, DeleteEdges
<1> HIDE DEF K, V, w
<1>5. EdgeWrite(w, d, "delete", a, V)
  BY <1>2, <1>3, <1>4 DEF EdgeWrite
<1>6. GoodWrite(w, d, "delete", a, V)
  BY <1>1, <1>5 DEF GoodWrite
<1> QED BY <1>6 DEF w, K, V

\* What a row puts.
LEMMA RowPutIs ==
    ASSUME NEW d, NEW row, NEW id, NEW p \in RowPuts(d, row, id)
    PROVE  \/ p = <<OKey(Ref(row, id)), FieldsOf(row)>>
           \/ row.key /= Null /\ p = <<UKey(Ref(row, id), row.key), id>>
           \/ row.key /= Null /\ p = <<IKey(Ref(row, id), row.key), FieldsOf(row)>>
           \/ \E rel \in DOMAIN row.links : p = <<EKey(id, rel, row.links[rel]), "edge">>
           \/ \E rel \in DOMAIN row.links : p[1] = RKey(id, rel, row.links[rel])
<1> DEFINE o == Ref(row, id)
           f == FieldsOf(row)
           edges == {<<id, q, row.links[q]>> : q \in DOMAIN row.links}
           B == {<<k, id>> : k \in UniqueKeys(o, row.key)}
           C == {<<k, f>> : k \in IndexKeys(o, row.key)}
           E == {<<<<"e", id, e[2], e[3]>>, "edge">> : e \in edges}
           R == {<<<<"r", e[3], e[2], id>>, InflightCover(d, row.links, e[2])>> : e \in edges}
<1>1. p = <<<<"o", o>>, f>> \/ p \in B \/ p \in C \/ p \in E \/ p \in R
  BY DEF RowPuts
<1>2. ASSUME p \in B PROVE row.key /= Null /\ p = <<UKey(o, row.key), id>>
  BY <1>2, IndexKeysAre
<1>3. ASSUME p \in C PROVE row.key /= Null /\ p = <<IKey(o, row.key), f>>
  BY <1>3, IndexKeysAre
<1>4. ASSUME p \in E
      PROVE  \E rel \in DOMAIN row.links : p = <<EKey(id, rel, row.links[rel]), "edge">>
  <2>1. PICK q \in DOMAIN row.links : p = <<<<"e", id, q, row.links[q]>>, "edge">>
    BY <1>4
  <2> QED BY <2>1 DEF EKey
<1>5. ASSUME p \in R
      PROVE  \E rel \in DOMAIN row.links : p[1] = RKey(id, rel, row.links[rel])
  <2>1. PICK q \in DOMAIN row.links :
          p = <<<<"r", row.links[q], q, id>>, InflightCover(d, row.links, q)>>
    BY <1>5
  <2> QED BY <2>1 DEF RKey
<1> HIDE DEF B, C, E, R
<1> QED BY <1>1, <1>2, <1>3, <1>4, <1>5 DEF OKey

\* A row puts its object with both index entries.
LEMMA RowPutsHave ==
    ASSUME NEW d, NEW row, NEW id
    PROVE  /\ <<OKey(Ref(row, id)), FieldsOf(row)>> \in RowPuts(d, row, id)
           /\ row.key /= Null =>
                 /\ <<UKey(Ref(row, id), row.key), id>> \in RowPuts(d, row, id)
                 /\ <<IKey(Ref(row, id), row.key), FieldsOf(row)>> \in RowPuts(d, row, id)
<1> DEFINE o == Ref(row, id)
           f == FieldsOf(row)
           A == {<<<<"o", o>>, f>>}
           B == {<<k, id>> : k \in UniqueKeys(o, row.key)}
           C == {<<k, f>> : k \in IndexKeys(o, row.key)}
<1>1. A \cup B \cup C \subseteq RowPuts(d, row, id)
  BY DEF RowPuts
<1>2. <<OKey(o), f>> \in A
  BY DEF OKey
<1>3. row.key /= Null => <<UKey(o, row.key), id>> \in B /\ <<IKey(o, row.key), f>> \in C
  BY IndexKeysAre
<1> HIDE DEF A, B, C
<1> QED BY <1>1, <1>2, <1>3

\* Rows with ids of their own that did not fail.
GoodRows(d, rows, ids) ==
    /\ DOMAIN rows \subseteq Nat \ {0}
    /\ \A n \in DOMAIN rows : rows[n] \in Row /\ ids[n] \in Id /\ ~ RowFails(d, rows, ids, n)
    /\ \A m, n \in DOMAIN rows : ids[m] = ids[n] => m = n

\* A create, a batch or a restore puts the index entries of its objects, and no
\* two of its rows share a key or take one that is taken.
LEMMA CreateIndexed ==
    ASSUME NEW d, NEW rows, NEW ids, GoodRows(d, rows, ids), NEW kind, kind /= "update"
    PROVE  IndexWrite(StageCreateWrites(d, rows, ids), d, kind)
<1> DEFINE P == UNION {RowPuts(d, rows[n], ids[n]) : n \in DOMAIN rows}
           w == StageCreateWrites(d, rows, ids)
           O(n) == Ref(rows[n], ids[n])
           F(n) == FieldsOf(rows[n])
<1>1. w.puts = P /\ w.dels = {}
  BY WriteFields DEF StageCreateWrites
<1>2. \A p \in w.puts : \E n \in DOMAIN rows :
         \/ p = <<OKey(O(n)), F(n)>>
         \/ rows[n].key /= Null /\ p = <<UKey(O(n), rows[n].key), ids[n]>>
         \/ rows[n].key /= Null /\ p = <<IKey(O(n), rows[n].key), F(n)>>
         \/ p[1][1] \in {"e", "r"}
  <2>1. TAKE p \in w.puts
  <2>2. PICK n \in DOMAIN rows : p \in RowPuts(d, rows[n], ids[n])
    BY <1>1
  <2>3. \/ p = <<OKey(O(n)), F(n)>>
        \/ rows[n].key /= Null /\ p = <<UKey(O(n), rows[n].key), ids[n]>>
        \/ rows[n].key /= Null /\ p = <<IKey(O(n), rows[n].key), F(n)>>
        \/ \E rel \in DOMAIN rows[n].links : p = <<EKey(ids[n], rel, rows[n].links[rel]), "edge">>
        \/ \E rel \in DOMAIN rows[n].links : p[1] = RKey(ids[n], rel, rows[n].links[rel])
    <3> HIDE DEF P, w
    <3> QED BY <2>2, RowPutIs
  <2>4. CASE \E rel \in DOMAIN rows[n].links : p = <<EKey(ids[n], rel, rows[n].links[rel]), "edge">>
    BY <2>4 DEF EKey
  <2>5. CASE \E rel \in DOMAIN rows[n].links : p[1] = RKey(ids[n], rel, rows[n].links[rel])
    BY <2>5 DEF RKey
  <2> QED BY <2>3, <2>4, <2>5
<1>3. \A n \in DOMAIN rows :
         /\ <<OKey(O(n)), F(n)>> \in w.puts
         /\ rows[n].key /= Null => /\ <<UKey(O(n), rows[n].key), ids[n]>> \in w.puts
                                   /\ <<IKey(O(n), rows[n].key), F(n)>> \in w.puts
  <2>1. TAKE n \in DOMAIN rows
  <2>2. RowPuts(d, rows[n], ids[n]) \subseteq w.puts
    BY <1>1
  <2> HIDE DEF P, w
  <2> QED BY <2>2, RowPutsHave
<1>4. \A n \in DOMAIN rows :
         /\ O(n) \in Obj /\ O(n)[1] = rows[n].type /\ O(n)[2] = ids[n]
         /\ F(n) = [key |-> rows[n].key, note |-> 0] /\ IsFields(F(n)) /\ F(n).key = rows[n].key
         /\ rows[n].key \in KeyValue \cup {Null}
  BY DEF GoodRows, Row, Ref, FieldsOf, IsFields, Obj
<1>5. \A m, n \in DOMAIN rows : O(m) = O(n) => m = n
  BY <1>4 DEF GoodRows
<1>6. \A m, n \in DOMAIN rows : rows[m].key = rows[n].key /\ rows[n].key /= Null => m = n
  <2>1. \A m, n \in DOMAIN rows : rows[m].key = rows[n].key /\ rows[n].key /= Null => ~ (m < n)
    <3>1. SUFFICES ASSUME NEW m \in DOMAIN rows, NEW n \in DOMAIN rows,
                          rows[m].key = rows[n].key, rows[n].key /= Null, m < n
                   PROVE  FALSE
      OBVIOUS
    <3>2. m \in 1 .. n - 1 /\ ~ RowFails(d, rows, ids, n)
      BY <3>1 DEF GoodRows
    <3> QED BY <3>1, <3>2 DEF RowFails
  <2> QED BY <2>1 DEF GoodRows
<1>7. \A n \in DOMAIN rows : UKey(O(n), rows[n].key) \in DOMAIN d =>
         d[UKey(O(n), rows[n].key)] = ids[n]
  <2>1. TAKE n \in DOMAIN rows
  <2>2. ~ Taken(d, rows[n].key, O(n))
    BY DEF GoodRows, RowFails
  <2> QED BY <1>4, <2>2 DEF Taken, UKey
<1> HIDE DEF P, w, O, F
<1>8. ASSUME NEW p \in w.puts, NEW q \in w.puts, p[1] = q[1], p[1][1] \in {"o", "u", "i"}
      PROVE  p[2] = q[2]
  <2>1. PICK m \in DOMAIN rows :
         \/ p = <<OKey(O(m)), F(m)>>
         \/ rows[m].key /= Null /\ p = <<UKey(O(m), rows[m].key), ids[m]>>
         \/ rows[m].key /= Null /\ p = <<IKey(O(m), rows[m].key), F(m)>>
    BY <1>2, <1>8
  <2>2. PICK n \in DOMAIN rows :
         \/ q = <<OKey(O(n)), F(n)>>
         \/ rows[n].key /= Null /\ q = <<UKey(O(n), rows[n].key), ids[n]>>
         \/ rows[n].key /= Null /\ q = <<IKey(O(n), rows[n].key), F(n)>>
    BY <1>2, <1>8
  <2>3. CASE p = <<OKey(O(m)), F(m)>>
    BY <1>5, <1>8, <2>2, <2>3 DEF OKey, UKey, IKey
  <2>4. CASE rows[m].key /= Null /\ p = <<UKey(O(m), rows[m].key), ids[m]>>
    BY <1>6, <1>8, <2>2, <2>4 DEF OKey, UKey, IKey
  <2>5. CASE rows[m].key /= Null /\ p = <<IKey(O(m), rows[m].key), F(m)>>
    BY <1>5, <1>8, <2>2, <2>5 DEF OKey, UKey, IKey
  <2> QED BY <2>1, <2>3, <2>4, <2>5
<1>9. ASSUME NEW p \in w.puts, p[1][1] = "o"
      PROVE  \E o \in Obj : /\ p[1] = OKey(o) /\ IsFields(p[2])
                            /\ p[2].key /= Null => /\ <<IKey(o, p[2].key), p[2]>> \in w.puts
                                                   /\ <<UKey(o, p[2].key), o[2]>> \in w.puts
  <2>1. PICK n \in DOMAIN rows : p = <<OKey(O(n)), F(n)>>
    BY <1>2, <1>9 DEF OKey, UKey, IKey
  <2>2. p[1] = OKey(O(n)) /\ p[2] = F(n) /\ O(n)[2] = ids[n] /\ p[2].key = rows[n].key
    BY <1>4, <2>1
  <2> QED BY <1>3, <1>4, <2>2, Zenon
<1>10. ASSUME NEW p \in w.puts, p[1][1] = "u"
       PROVE  \E o \in Obj, v \in KeyValue :
                /\ p = <<UKey(o, v), o[2]>>
                /\ \E q \in w.puts : q[1] = OKey(o) /\ q[2].key = v
                /\ UKey(o, v) \in DOMAIN d => d[UKey(o, v)] = o[2]
  <2>1. PICK n \in DOMAIN rows : rows[n].key /= Null /\ p = <<UKey(O(n), rows[n].key), ids[n]>>
    BY <1>2, <1>10 DEF OKey, UKey, IKey
  <2>2. \E q \in w.puts : q[1] = OKey(O(n)) /\ q[2].key = rows[n].key
    <3>1. <<OKey(O(n)), F(n)>> \in w.puts /\ F(n).key = rows[n].key
      BY <1>3, <1>4, Zenon
    <3> QED BY <3>1
  <2>3. O(n) \in Obj /\ rows[n].key \in KeyValue /\ O(n)[2] = ids[n]
    BY <1>4, <2>1
  <2> QED BY <1>7, <2>1, <2>2, <2>3
<1>11. ASSUME NEW p \in w.puts, p[1][1] = "i"
       PROVE  \E o \in Obj, v \in KeyValue :
                p[1] = IKey(o, v) /\ <<OKey(o), p[2]>> \in w.puts /\ p[2].key = v
  <2>1. PICK n \in DOMAIN rows : rows[n].key /= Null /\ p = <<IKey(O(n), rows[n].key), F(n)>>
    BY <1>2, <1>11 DEF OKey, UKey, IKey
  <2>2. p[1] = IKey(O(n), rows[n].key) /\ p[2] = F(n)
    BY <2>1
  <2> QED BY <1>3, <1>4, <2>1, <2>2, Zenon
<1>12. \A o \in Obj : OKey(o) \in WriteSet(w) => OKey(o) \in PutKeys(w.puts)
  BY <1>1 DEF WriteSet
<1>13. \A p \in w.puts : p[1][1] = "o" =>
          \E o \in Obj :
              /\ p[1] = OKey(o) /\ IsFields(p[2])
              /\ p[2].key /= Null =>
                    /\ <<IKey(o, p[2].key), p[2]>> \in w.puts
                    /\ \/ <<UKey(o, p[2].key), o[2]>> \in w.puts
                       \/ /\ UKey(o, p[2].key) \notin WriteSet(w)
                          /\ Live(d, o) /\ Object(d, o).key = p[2].key
  BY <1>9, Zenon
<1>14. IndexWrite(w, d, kind)
  BY <1>1, <1>8, <1>10, <1>11, <1>12, <1>13, Zenon DEF IndexWrite
<1> QED BY <1>14 DEF w

\* A row puts its edges in both directions.
LEMMA RowPaired ==
    ASSUME NEW d, NEW row, NEW id, NEW src, NEW tgt, NEW rel
    PROVE  EKey(src, rel, tgt) \in PutKeys(RowPuts(d, row, id))
               <=> RKey(src, rel, tgt) \in PutKeys(RowPuts(d, row, id))
<1> DEFINE o == Ref(row, id)
           edges == {<<id, q, row.links[q]>> : q \in DOMAIN row.links}
           A == {<<<<"o", o>>, FieldsOf(row)>>}
           B == {<<k, id>> : k \in UniqueKeys(o, row.key)}
           C == {<<k, FieldsOf(row)>> : k \in IndexKeys(o, row.key)}
           E == {<<<<"e", id, e[2], e[3]>>, "edge">> : e \in edges}
           R == {<<<<"r", e[3], e[2], id>>, InflightCover(d, row.links, e[2])>> : e \in edges}
<1>1. RowPuts(d, row, id) = A \cup B \cup C \cup E \cup R
  BY DEF RowPuts
<1>2. \A k \in PutKeys(A) \cup PutKeys(B) \cup PutKeys(C) : k[1] \in {"o", "u", "i"}
  BY DEF PutKeys, UniqueKeys, IndexKeys
<1>3. \A k : k \in PutKeys(E) <=> \E q \in DOMAIN row.links : k = <<"e", id, q, row.links[q]>>
  <2>1. ASSUME NEW k, k \in PutKeys(E)
        PROVE  \E q \in DOMAIN row.links : k = <<"e", id, q, row.links[q]>>
    <3>1. PICK p \in E : k = p[1]
      BY <2>1 DEF PutKeys
    <3>2. PICK q \in DOMAIN row.links : p = <<<<"e", id, q, row.links[q]>>, "edge">>
      BY <3>1
    <3> QED BY <3>1, <3>2
  <2>2. ASSUME NEW q \in DOMAIN row.links
        PROVE  <<"e", id, q, row.links[q]>> \in PutKeys(E)
    <3> DEFINE e == <<id, q, row.links[q]>>
    <3>1. e \in edges /\ e[2] = q /\ e[3] = row.links[q]
      OBVIOUS
    <3> HIDE DEF e, edges
    <3>2. <<<<"e", id, q, row.links[q]>>, "edge">> \in E
      BY <3>1
    <3> HIDE DEF E
    <3> QED BY <3>2 DEF PutKeys
  <2> QED BY <2>1, <2>2
<1>4. \A k : k \in PutKeys(R) <=> \E q \in DOMAIN row.links : k = <<"r", row.links[q], q, id>>
  <2>1. ASSUME NEW k, k \in PutKeys(R)
        PROVE  \E q \in DOMAIN row.links : k = <<"r", row.links[q], q, id>>
    <3>1. PICK p \in R : k = p[1]
      BY <2>1 DEF PutKeys
    <3>2. PICK q \in DOMAIN row.links : p = <<<<"r", row.links[q], q, id>>, InflightCover(d, row.links, q)>>
      BY <3>1
    <3> QED BY <3>1, <3>2
  <2>2. ASSUME NEW q \in DOMAIN row.links
        PROVE  <<"r", row.links[q], q, id>> \in PutKeys(R)
    <3> DEFINE e == <<id, q, row.links[q]>>
    <3>1. e \in edges /\ e[2] = q /\ e[3] = row.links[q]
      OBVIOUS
    <3> HIDE DEF e, edges
    <3>2. <<<<"r", row.links[q], q, id>>, InflightCover(d, row.links, q)>> \in R
      BY <3>1
    <3> HIDE DEF R
    <3> QED BY <3>2 DEF PutKeys
  <2> QED BY <2>1, <2>2
<1> HIDE DEF A, B, C, E, R
<1>5. \A k : k \in PutKeys(RowPuts(d, row, id)) <=>
                 \/ k \in PutKeys(A) \cup PutKeys(B) \cup PutKeys(C)
                 \/ k \in PutKeys(E) \/ k \in PutKeys(R)
  BY <1>1 DEF PutKeys
<1>6. EKey(src, rel, tgt) \in PutKeys(RowPuts(d, row, id))
          <=> id = src /\ rel \in DOMAIN row.links /\ row.links[rel] = tgt
  BY <1>2, <1>3, <1>4, <1>5 DEF EKey
<1>7. RKey(src, rel, tgt) \in PutKeys(RowPuts(d, row, id))
          <=> id = src /\ rel \in DOMAIN row.links /\ row.links[rel] = tgt
  BY <1>2, <1>3, <1>4, <1>5 DEF RKey
<1> QED BY <1>6, <1>7

\* A create puts edges in both directions.
LEMMA CreatePaired ==
    ASSUME NEW d, NEW rows, NEW ids
    PROVE  PairedWrite(StageCreateWrites(d, rows, ids), d)
<1> DEFINE P == UNION {RowPuts(d, rows[n], ids[n]) : n \in DOMAIN rows}
           w == StageCreateWrites(d, rows, ids)
<1>1. w.puts = P /\ w.dels = {}
  BY WriteFields DEF StageCreateWrites
<1>2. \A k : k \in PutKeys(P) <=> \E n \in DOMAIN rows : k \in PutKeys(RowPuts(d, rows[n], ids[n]))
  BY DEF PutKeys
<1> HIDE DEF P, w
<1>3. \A src, tgt \in Id, rel \in Rel :
         EKey(src, rel, tgt) \in PutKeys(P) <=> RKey(src, rel, tgt) \in PutKeys(P)
  BY <1>2, RowPaired
<1>4. PairedWrite(w, d)
  BY <1>1, <1>3 DEF PairedWrite
<1> QED BY <1>4 DEF w

\* The write of a create, a batch or a restore.
LEMMA CreateGood ==
    ASSUME NEW d, NEW rows, NEW ids, GoodRows(d, rows, ids), NEW kind, kind /= "update",
           NEW arg
    PROVE  GoodWrite(StageCreateWrites(d, rows, ids), d, kind, arg, {})
<1> DEFINE w == StageCreateWrites(d, rows, ids)
<1>1. /\ w.puts = UNION {RowPuts(d, rows[n], ids[n]) : n \in DOMAIN rows}
      /\ w.dels = {}
  BY WriteFields DEF StageCreateWrites
<1>2. PairedWrite(w, d) /\ IndexWrite(w, d, kind)
  BY CreatePaired, CreateIndexed
<1> HIDE DEF w
<1>3. ASSUME NEW k \in PutKeys(w.puts), k[1] = "e"
      PROVE  \E src, tgt \in Id, rel \in Rel : k = EKey(src, rel, tgt)
  <2>1. PICK p \in w.puts : k = p[1]
    BY DEF PutKeys
  <2>2. PICK n \in DOMAIN rows : p \in RowPuts(d, rows[n], ids[n])
    BY <1>1, <2>1
  <2>3. \E rel \in DOMAIN rows[n].links : k = EKey(ids[n], rel, rows[n].links[rel])
    BY <1>3, <2>1, <2>2, RowPutIs DEF OKey, UKey, IKey, RKey
  <2>4. ids[n] \in Id /\ \A rel \in DOMAIN rows[n].links : rel \in Rel /\ rows[n].links[rel] \in Id
    BY <2>2 DEF GoodRows, Row
  <2> QED BY <2>3, <2>4
<1>4. EdgeWrite(w, d, kind, arg, {})
  BY <1>1, <1>3 DEF EdgeWrite
<1> QED BY <1>2, <1>4 DEF GoodWrite, w
=============================================================================
