------------------------------ MODULE LsmFacts ------------------------------
(***************************************************************************)
(* The inductive invariant of Lsm, and what its steps rest on: what replay *)
(* makes of a log, how sets of entries relate, the order of files and of   *)
(* the layers a read searches.                                             *)
(***************************************************************************)
EXTENDS Lsm, TLAPS

\* A log that replay recovers to its last record.
Whole(recs) == FooteredLen(recs) = Len(recs)

Entry == Key \X Version

File == [id : Nat, entries : SUBSET Entry]

Record == [type : {"data", "commit", "torn"}, key : Key \cup {""},
           version : Nat, count : Nat]

\* A log whose data records are entries.
Log == {w \in [framed : BOOLEAN, recs : Seq(Record)] :
          \A i \in 1 .. Len(w.recs) :
              IsData(w.recs[i]) => <<w.recs[i].key, w.recs[i].version>> \in Entry}

FlusherType ==
    [pc : {"idle", "rotated", "staged", "written", "registered", "unstaged",
           "truncated", "linking"},
     old : SUBSET Entry, sst : File, snap : BOOLEAN]

MergerType ==
    [pc : {"idle", "merging", "written", "swapped"}, inputs : Seq(File), out : File]

Types ==
    /\ conf \in Configs
    /\ wal \in Log /\ disk_wal \in Log
    /\ sst_disk \subseteq File /\ IsFiniteSet(sst_disk)
    /\ mode \in {"down", "converting", "up"}
    /\ active \subseteq Entry
    /\ immutables \in Seq(SUBSET Entry)
    /\ sst_files \in Seq(File)
    /\ next_version \in Nat \ {0} /\ visible_version \in Nat /\ next_sst_id \in Nat
    /\ committer \in [pc : {"idle", "appending"}, writes : SUBSET Key, base : Nat]
    /\ flusher \in FlusherType /\ merger \in MergerType
    /\ committed \subseteq Entry

\* Which processes run beside which, and what a flush leaves in memory.
Control ==
    /\ mode = "down" => committer.pc = "idle" /\ flusher = IdleFlusher
    /\ mode /= "up" => merger.pc = "idle" /\ flusher.pc /= "linking"
    /\ committer.pc = "appending" =>
          /\ mode = "up" /\ flusher.pc = "idle"
          /\ committer.writes /= {} /\ next_version - 1 \in Version
    /\ IF flusher.pc \in {"idle", "linking"} THEN flusher.old = {} ELSE active = {}

IdsOf(S) == {f.id : f \in S}

\* Files have ids of their own; a registered file is on disk; a merge's inputs
\* stay the oldest registered files until its output takes their place, and are
\* in no list when they are unlinked.
Ids ==
    /\ \A f \in sst_disk : f.id < next_sst_id
    /\ \A f, g \in sst_disk : f.id = g.id => f = g
    /\ Range(sst_files) \subseteq sst_disk
    /\ \A i, j \in DOMAIN sst_files : i /= j => sst_files[i].id /= sst_files[j].id
    /\ flusher.pc = "written" =>
          /\ flusher.sst \in sst_disk /\ flusher.sst.entries = flusher.old
          /\ flusher.sst.id \notin IdsOf(Range(sst_files))
    /\ merger.pc \in {"merging", "written"} =>
          /\ merger.inputs /= <<>> /\ Len(merger.inputs) <= Len(sst_files)
          /\ \A i \in DOMAIN merger.inputs : sst_files[i] = merger.inputs[i]
    /\ merger.pc = "written" =>
          /\ merger.out \in sst_disk /\ merger.out.id \notin IdsOf(Range(sst_files))
          /\ flusher.pc = "written" => merger.out.id /= flusher.sst.id
    /\ merger.pc = "swapped" =>
          /\ merger.out \in Range(sst_files) /\ merger.inputs /= <<>>
          /\ \A f \in Range(merger.inputs) : f.id < next_sst_id
          /\ IdsOf(Range(merger.inputs)) \cap IdsOf(Range(sst_files)) = {}
          /\ flusher.pc = "written" => flusher.sst.id \notin IdsOf(Range(merger.inputs))

-----------------------------------------------------------------------------
(* How sets of entries relate, C being what is committed.                  *)

Ents(S) == UNION {f.entries : f \in S}

\* E has, for every entry of C, that version of its key or a newer one.
Covers(E, C) == \A c \in C : \E g \in E : g[1] = c[1] /\ c[2] <= g[2]

\* E's newest version of each of its keys is the newest up to E's newest version.
Complete(E, C) ==
    \A e, f \in E, c \in C :
        c[1] = e[1] /\ c[2] <= f[2] => \E g \in E : g[1] = c[1] /\ c[2] <= g[2]

\* E covers what is committed up to its newest version.
Closed(E, C) ==
    \A f \in E, c \in C : c[2] <= f[2] => \E g \in E : g[1] = c[1] /\ c[2] <= g[2]

\* E has all that is committed from its oldest version on.
Suffix(E, C) == \A e \in E, c \in C : e[2] <= c[2] => c \in E

\* A has no version newer than all of B.
Below(A, B) == \A a \in A, b \in B : \E f \in B : a[2] <= f[2]

-----------------------------------------------------------------------------
(* The inductive invariant.                                                *)

\* The files: each is complete, and together they have what is committed up to
\* the newest version among them.
DiskInv ==
    /\ Ents(sst_disk) \subseteq committed
    /\ \A f \in sst_disk : Complete(f.entries, committed)
    /\ Closed(Ents(sst_disk), committed)
    /\ visible_version = 0 \/ \E c \in committed : c[2] = visible_version

\* The memtable that a flush took is in a registered file, or in the list.
Flushed == flusher.pc \in {"registered", "unstaged", "truncated"}

Staged == flusher.pc \in {"staged", "written", "registered"}

\* What the registered files hold.
Registered == Ents(Range(sst_files))

\* The layers of a read: they cover what is committed, each has no version newer
\* than all of the next, and the versions count on from the visible one.
MemInv ==
    /\ active \subseteq committed /\ flusher.old \subseteq committed
    /\ Suffix(active, committed) /\ Suffix(flusher.old, committed)
    /\ Closed(Registered, committed)
    /\ Covers(Registered \cup flusher.old \cup active, committed)
    /\ Flushed => Covers(Registered, committed)
    /\ \A i, j \in DOMAIN sst_files :
          i < j => Below(sst_files[i].entries, sst_files[j].entries)
    /\ immutables = IF Staged THEN <<flusher.old>> ELSE <<>>
    /\ \A c \in committed : c[2] <= visible_version
    /\ next_version = visible_version + (IF committer.pc = "appending" THEN 2 ELSE 1)

\* A merge: its output has the newest versions of its inputs.
MergeInv ==
    /\ merger.pc \in {"merging", "written"} =>
          /\ merger.out.entries \subseteq Ents(Range(merger.inputs))
          /\ Complete(merger.out.entries, committed)
    /\ merger.pc /= "idle" => Covers(merger.out.entries, Ents(Range(merger.inputs)))

\* What the batch that is being appended adds.
Pending ==
    IF committer.pc = "appending" THEN committer.writes \X {next_version - 1} ELSE {}

\* A log a crash may leave beside the files whose entries are D: with them it
\* covers what is committed, and more than that it has only what is newer.
GoodLog(w, D, C, P, down) ==
    /\ Recovered(w) \subseteq Entry
    /\ Covers(D \cup Recovered(w), C)
    /\ Suffix(Recovered(w), C)
    /\ \A r \in Recovered(w) : r \in C \cup P \/ (down /\ \A c \in C : c[2] < r[2])
    /\ FileIsLegacy(w) => Recovered(w) /= {}

\* The worst crash that what is committed survives.
Worst == IF conf.sync_on_commit THEN "power" ELSE "kill"

GoodLogs ==
    \A w \in Survivors(Worst) :
        GoodLog(w, Ents(sst_disk), committed, Pending, mode = "down")

\* The log: whatever a crash leaves of it now recovers what is committed.
LogInv ==
    /\ GoodLogs
    /\ mode = "down" => disk_wal = wal
    /\ mode = "up" /\ flusher.pc /= "truncated" => wal.framed /\ Whole(wal.recs)
    /\ mode = "converting" /\ flusher.pc = "idle" => active /= {}
    /\ Pending \subseteq Recovered(wal)

Sound == DiskInv /\ (mode /= "down" => MemInv /\ MergeInv) /\ LogInv

LsmInv == Types /\ Control /\ Ids /\ (Undamaged => Sound)

-----------------------------------------------------------------------------
(* Sequences and finite sets.                                              *)

\* What the library proves by induction: a finite set has a number of elements,
\* and a set of numbers a least one.  The lemmas here take it as a hypothesis, and
\* LsmProofs proves it.
ByInduction ==
    /\ \A S : IsFiniteSet(S) => Cardinality(S) \in Nat
    /\ \A S \in SUBSET Nat : S /= {} => \E x \in S : \A y \in S : x =< y

\* A sequence is a function on its places.
LEMMA SeqIs ==
    ASSUME NEW S, NEW s \in Seq(S)
    PROVE  Len(s) \in Nat /\ s \in [1 .. Len(s) -> S] /\ DOMAIN s = 1 .. Len(s)
OBVIOUS

\* Sequences with the same elements at the same places are the same.
LEMMA SameSeq ==
    ASSUME NEW S, NEW s \in Seq(S), NEW t \in Seq(S),
           Len(s) = Len(t), \A i \in 1 .. Len(s) : s[i] = t[i]
    PROVE  s = t
OBVIOUS

\* A sequence with one more element at its end.
LEMMA AppendIs ==
    ASSUME NEW S, NEW s \in Seq(S), NEW e \in S
    PROVE  /\ Append(s, e) \in Seq(S) /\ Len(Append(s, e)) = Len(s) + 1
           /\ \A i \in 1 .. Len(s) : Append(s, e)[i] = s[i]
           /\ Append(s, e)[Len(s) + 1] = e
OBVIOUS

\* One sequence behind the other.
LEMMA ConcatIs ==
    ASSUME NEW S, NEW s \in Seq(S), NEW t \in Seq(S)
    PROVE  /\ s \o t \in Seq(S) /\ Len(s \o t) = Len(s) + Len(t)
           /\ \A i \in 1 .. Len(s) + Len(t) :
                 (s \o t)[i] = IF i <= Len(s) THEN s[i] ELSE t[i - Len(s)]
OBVIOUS

\* A sequence without its first element.
LEMMA TailIs ==
    ASSUME NEW S, NEW s \in Seq(S), s /= <<>>
    PROVE  /\ Len(s) >= 1 /\ Tail(s) \in Seq(S) /\ Len(Tail(s)) = Len(s) - 1
           /\ \A i \in 1 .. Len(Tail(s)) : Tail(s)[i] = s[i + 1]
OBVIOUS

\* The empty set is finite.
LEMMA FiniteEmpty == IsFiniteSet({})
<1>1. <<>> \in Seq({})
  OBVIOUS
<1> QED BY <1>1 DEF IsFiniteSet

\* A finite set stays finite with one more element.
LEMMA FiniteAdd ==
    ASSUME NEW S, NEW x, IsFiniteSet(S)
    PROVE  IsFiniteSet(S \cup {x})
<1>1. PICK q \in Seq(S) : \A s \in S : \E n \in 1 .. Len(q) : q[n] = s
  BY DEF IsFiniteSet
<1> DEFINE r == Append(q, x)
<1>2. /\ r \in Seq(S \cup {x}) /\ Len(r) = Len(q) + 1 /\ Len(q) \in Nat
      /\ r[Len(q) + 1] = x /\ \A n \in 1 .. Len(q) : r[n] = q[n]
  <2>1. q \in Seq(S \cup {x})
    OBVIOUS
  <2> QED BY <2>1
<1> HIDE DEF r
<1>3. Len(q) + 1 \in 1 .. Len(r) /\ \A n \in 1 .. Len(q) : n \in 1 .. Len(r)
  BY <1>2
<1>4. \A s \in S \cup {x} : \E n \in 1 .. Len(r) : r[n] = s
  BY <1>1, <1>2, <1>3
<1> QED BY <1>2, <1>4 DEF IsFiniteSet

\* The subsets of a finite set are finite.
LEMMA FiniteSubset ==
    ASSUME NEW S, IsFiniteSet(S), NEW T, T \subseteq S
    PROVE  IsFiniteSet(T)
<1>1. CASE T = {}
  BY <1>1, FiniteEmpty
<1>2. CASE T /= {}
  <2>1. PICK q \in Seq(S) : \A s \in S : \E n \in 1 .. Len(q) : q[n] = s
    BY DEF IsFiniteSet
  <2>2. PICK t : t \in T
    BY <1>2
  <2> DEFINE r == [n \in 1 .. Len(q) |-> IF q[n] \in T THEN q[n] ELSE t]
  <2>3. Len(q) \in Nat
    OBVIOUS
  <2>4. r \in Seq(T) /\ Len(r) = Len(q)
    BY <2>2, <2>3
  <2>5. \A s \in T : \E n \in 1 .. Len(q) : r[n] = s
    BY <2>1
  <2> HIDE DEF r
  <2> QED BY <2>4, <2>5 DEF IsFiniteSet
<1> QED BY <1>1, <1>2

\* What has no values has no places.
LEMMA NoPlaces == ASSUME NEW n \in Nat, NEW p \in [1 .. n -> {}] PROVE n = 0
OBVIOUS

\* An interval from 1 is finite.
LEMMA FiniteInterval == ASSUME NEW n \in Nat PROVE IsFiniteSet(1 .. n)
<1> DEFINE s == [i \in 1 .. n |-> i]
<1>1. s \in Seq(1 .. n) /\ Len(s) = n /\ \A i \in 1 .. n : s[i] = i
  OBVIOUS
<1> HIDE DEF s
<1> QED BY <1>1 DEF IsFiniteSet

\* Two lists of one element make a list of two.
LEMMA PairIs == ASSUME NEW x, NEW y PROVE <<x>> \o <<y>> = <<x, y>>
<1>1. <<x>> \o <<y>> \in Seq({x, y}) /\ <<x, y>> \in Seq({x, y})
  OBVIOUS
<1>2. Len(<<x>> \o <<y>>) = Len(<<x, y>>)
  OBVIOUS
<1>3. \A i \in 1 .. Len(<<x>> \o <<y>>) : (<<x>> \o <<y>>)[i] = <<x, y>>[i]
  OBVIOUS
<1> QED BY <1>1, <1>2, <1>3, SameSeq, Zenon

\* A lower bound of a set that belongs to it is its least element.
LEMMA MinIs ==
    ASSUME NEW S, S \subseteq Int, NEW m \in S, \A y \in S : m =< y
    PROVE  Min(S) = m
<1>1. Min(S) \in S /\ \A y \in S : Min(S) =< y
  BY Zenon DEF Min
<1> DEFINE x == Min(S)
<1> HIDE DEF x
<1>2. x \in Int /\ m \in Int /\ x =< m /\ m =< x
  BY <1>1 DEF x
<1>3. x = m
  BY <1>2
<1> QED BY <1>3 DEF x

\* An upper bound of a set that belongs to it is its greatest element.
LEMMA MaxIs ==
    ASSUME NEW S, S \subseteq Int, NEW m \in S, \A y \in S : m >= y
    PROVE  Max(S) = m
<1>1. Max(S) \in S /\ \A y \in S : Max(S) >= y
  BY Zenon DEF Max
<1> DEFINE x == Max(S)
<1> HIDE DEF x
<1>2. x \in Int /\ m \in Int /\ x >= m /\ m >= x
  BY <1>1 DEF x
<1>3. x = m
  BY <1>2
<1> QED BY <1>3 DEF x

\* A set of numbers has a least element.
LEMMA MinIsMember ==
    ASSUME ByInduction, NEW S, S \subseteq Nat, S /= {}
    PROVE  Min(S) \in S /\ \A y \in S : Min(S) =< y
<1>1. PICK x \in S : \A y \in S : x =< y
  BY Zenon DEF ByInduction
<1> QED BY <1>1, Zenon DEF Min

\* A set of numbers below a bound has a greatest element.
LEMMA MaxIsMember ==
    ASSUME ByInduction, NEW n \in Nat, NEW S, S \subseteq 0 .. n, S /= {}
    PROVE  Max(S) \in S /\ \A y \in S : Max(S) >= y
<1> DEFINE T == {n - x : x \in S}
<1>1. T \subseteq Nat /\ T /= {}
  <2>1. \A x \in S : n - x \in Nat
    OBVIOUS
  <2> QED BY <2>1, Zenon
<1>2. Min(T) \in T /\ \A y \in T : Min(T) =< y
  <2> HIDE DEF T
  <2> QED BY <1>1, MinIsMember, Zenon
<1>3. PICK z \in S : Min(T) = n - z
  BY <1>2
<1>4. \A y \in S : n - z =< n - y
  BY <1>2, <1>3, Zenon
<1>5. \A y \in S : z >= y
  BY <1>4
<1> QED BY <1>5, Zenon DEF Max

-----------------------------------------------------------------------------
(* Replay.                                                                 *)

\* Replay decodes the records before the first torn one.
LEMMA DecodedIs ==
    ASSUME NEW R, NEW recs \in Seq(R), NEW n \in 0 .. Len(recs),
           \A i \in 1 .. n : recs[i] /= Torn,
           n = Len(recs) \/ recs[n + 1] = Torn
    PROVE  Decoded(recs) = n
<1> DEFINE D == {i \in 1 .. Len(recs) : recs[i] = Torn} \cup {Len(recs) + 1}
<1>0. Len(recs) \in Nat
  OBVIOUS
<1>1. D \subseteq Int /\ n + 1 \in D /\ \A y \in D : n + 1 =< y
  BY <1>0
<1> HIDE DEF D
<1>2. Min(D) = n + 1
  BY <1>1, MinIs
<1>3. Decoded(recs) = Min(D) - 1
  BY DEF Decoded, D
<1> QED BY <1>2, <1>3, <1>0

\* The number of decoded records, and that none of them is torn.
LEMMA DecodedProps ==
    ASSUME ByInduction, NEW R, NEW recs \in Seq(R)
    PROVE  /\ Decoded(recs) \in 0 .. Len(recs)
           /\ \A i \in 1 .. Decoded(recs) : recs[i] /= Torn
           /\ Decoded(recs) = Len(recs) \/ recs[Decoded(recs) + 1] = Torn
<1> DEFINE D == {i \in 1 .. Len(recs) : recs[i] = Torn} \cup {Len(recs) + 1}
<1>0. Len(recs) \in Nat
  OBVIOUS
<1>1. D \subseteq Nat /\ D /= {} /\ D \subseteq 1 .. Len(recs) + 1
  BY <1>0
<1>2. Min(D) \in D /\ \A y \in D : Min(D) =< y
  <2> HIDE DEF D
  <2> QED BY <1>1, MinIsMember
<1> DEFINE m == Min(D)
<1>3. Decoded(recs) = m - 1
  BY DEF Decoded
<1> HIDE DEF m
<1>4. m \in D /\ \A y \in D : m =< y
  BY <1>2 DEF m
<1> QED BY <1>0, <1>3, <1>4

\* What replay makes of the first n records of a log depends on these records only.
LEMMA SamePrefix ==
    ASSUME ByInduction, NEW R, NEW r \in Seq(R), NEW s \in Seq(R), NEW n \in Nat,
           n =< Decoded(r), n =< Decoded(s), \A i \in 1 .. n : r[i] = s[i]
    PROVE  \A i \in 1 .. n : /\ i \in Footers(r) <=> i \in Footers(s)
                             /\ Balanced(r, i) <=> Balanced(s, i)
<1>0. Decoded(r) \in Nat /\ Decoded(s) \in Nat
  BY DecodedProps
<1>1. \A i \in 1 .. n : i \in Footers(r) <=> i \in Footers(s)
  BY <1>0 DEF Footers
<1> SUFFICES ASSUME NEW i \in 1 .. n PROVE Balanced(r, i) <=> Balanced(s, i)
  BY <1>1
<1>2. {j \in Footers(r) : j < i} = {j \in Footers(s) : j < i}
  <2>1. \A j : j \in Footers(r) /\ j < i => j \in 1 .. n
    BY <1>0 DEF Footers
  <2>2. \A j : j \in Footers(s) /\ j < i => j \in 1 .. n
    BY <1>0 DEF Footers
  <2> QED BY <1>1, <2>1, <2>2
<1> QED BY <1>2, Zenon DEF Balanced

\* The length of the footered part, from what makes it so.
LEMMA FooteredIs ==
    ASSUME ByInduction, NEW R, NEW recs \in Seq(R), NEW m \in Footers(recs) \cup {0},
           \A j \in Footers(recs) : j =< m => Balanced(recs, j),
           \A i \in Footers(recs) : i > m =>
               \E j \in Footers(recs) : j =< i /\ ~ Balanced(recs, j)
    PROVE  FooteredLen(recs) = m
<1> DEFINE F == {i \in Footers(recs) :
                    \A j \in Footers(recs) : j <= i => Balanced(recs, j)} \cup {0}
<1>0. Footers(recs) \subseteq Nat
  BY DecodedProps DEF Footers
<1>1. F \subseteq Int /\ m \in F
  BY <1>0
<1>2. \A y \in F : m >= y
  BY <1>0
<1> HIDE DEF F
<1>3. Max(F) = m
  BY <1>1, <1>2, MaxIs
<1> QED BY <1>3 DEF FooteredLen, F

\* And what follows from it.
LEMMA FooteredProps ==
    ASSUME ByInduction, NEW R, NEW recs \in Seq(R)
    PROVE  /\ FooteredLen(recs) \in Footers(recs) \cup {0}
           /\ FooteredLen(recs) \in 0 .. Decoded(recs)
           /\ \A j \in Footers(recs) : j =< FooteredLen(recs) => Balanced(recs, j)
<1> DEFINE F == {i \in Footers(recs) :
                    \A j \in Footers(recs) : j <= i => Balanced(recs, j)} \cup {0}
<1>0. Decoded(recs) \in Nat /\ Footers(recs) \subseteq 1 .. Decoded(recs)
  BY DecodedProps DEF Footers
<1>1. F \subseteq 0 .. Decoded(recs) /\ F /= {}
  BY <1>0
<1>2. Max(F) \in F
  <2> HIDE DEF F
  <2> QED BY <1>0, <1>1, MaxIsMember
<1> DEFINE m == FooteredLen(recs)
<1>3. m = Max(F)
  BY DEF FooteredLen
<1> HIDE DEF m
<1>4. m \in F
  BY <1>2, <1>3
<1>5. m \in Footers(recs) \cup {0} /\ \A j \in Footers(recs) : j =< m => Balanced(recs, j)
  <2>1. CASE m = 0
    BY <2>1, <1>0
  <2>2. CASE m /= 0
    BY <2>2, <1>4
  <2> QED BY <2>1, <2>2
<1> QED BY <1>0, <1>5 DEF m

\* A log that is whole has no torn record and no batch without its footer.
LEMMA WholeClean ==
    ASSUME ByInduction, NEW R, NEW recs \in Seq(R), Whole(recs)
    PROVE  /\ Decoded(recs) = Len(recs)
           /\ \A j \in Footers(recs) : Balanced(recs, j)
           /\ Len(recs) \in Footers(recs) \cup {0}
           /\ \A i \in 1 .. Len(recs) : recs[i] /= Torn
<1>1. Len(recs) \in Nat /\ Decoded(recs) \in 0 .. Len(recs)
  BY DecodedProps
<1>2. Len(recs) \in 0 .. Decoded(recs) /\ Len(recs) \in Footers(recs) \cup {0}
  BY FooteredProps DEF Whole
<1>3. Decoded(recs) = Len(recs)
  BY <1>1, <1>2
<1>4. Footers(recs) \subseteq 1 .. Len(recs)
  BY <1>3 DEF Footers
<1>5. \A j \in Footers(recs) : j =< Len(recs) => Balanced(recs, j)
  BY FooteredProps, Zenon DEF Whole
<1> QED BY <1>1, <1>2, <1>3, <1>4, <1>5, DecodedProps

\* A batch that stops before its footer adds nothing to what is recovered.
LEMMA ExtendPartial ==
    ASSUME ByInduction, NEW R, NEW r \in Seq(R), NEW s \in Seq(R), Whole(r), Len(r) =< Len(s),
           \A i \in 1 .. Len(r) : s[i] = r[i],
           \A i \in Len(r) + 1 .. Len(s) : ~ IsFooter(s[i])
    PROVE  FooteredLen(s) = Len(r)
<1> DEFINE n == Len(r)
<1>0. n \in Nat /\ Len(s) \in Nat
  OBVIOUS
<1>1. /\ Decoded(r) = n /\ n \in Footers(r) \cup {0}
      /\ \A j \in Footers(r) : Balanced(r, j)
      /\ \A i \in 1 .. n : r[i] /= Torn
  BY WholeClean
<1>2. /\ Decoded(s) \in 0 .. Len(s)
      /\ Decoded(s) = Len(s) \/ s[Decoded(s) + 1] = Torn
  BY DecodedProps
<1> HIDE DEF n
<1>2a. \A i \in 1 .. n : s[i] = r[i]
  BY DEF n
<1>2b. \A i \in n + 1 .. Len(s) : ~ IsFooter(s[i])
  BY DEF n
<1>3. n =< Decoded(s)
  <2> SUFFICES ASSUME ~ (n =< Decoded(s)) PROVE FALSE
    OBVIOUS
  <2>1. Decoded(s) + 1 \in 1 .. n /\ Decoded(s) /= Len(s)
    BY <1>0, <1>2 DEF n
  <2> QED BY <2>1, <1>1, <1>2, <1>2a
<1>4. \A i \in 1 .. n : (i \in Footers(r) <=> i \in Footers(s))
                        /\ (Balanced(r, i) <=> Balanced(s, i))
  <2>1. n =< Decoded(r)
    BY <1>0, <1>1
  <2> QED BY <1>0, <1>2a, <1>3, <2>1, SamePrefix
<1>5. Footers(s) \subseteq 1 .. n
  BY <1>0, <1>2, <1>2b DEF Footers
<1>6. Footers(r) \subseteq 1 .. n
  BY <1>1 DEF Footers
<1>7. n \in Footers(s) \cup {0}
  BY <1>1, <1>4, <1>6
<1>8. \A j \in Footers(s) : Balanced(s, j) /\ ~ (j > n)
  <2>1. \A j \in Footers(s) : j \in 1 .. n
    BY <1>5
  <2>2. \A j \in Footers(s) : Balanced(s, j)
    BY <1>1, <1>4, <2>1, Zenon
  <2> QED BY <1>0, <2>1, <2>2
<1>9. FooteredLen(s) = n
  BY <1>7, <1>8, FooteredIs
<1> QED BY <1>9 DEF n

\* A whole batch is recovered whole.
LEMMA ExtendBatch ==
    ASSUME ByInduction, NEW R, NEW r \in Seq(R), NEW s \in Seq(R), Whole(r),
           NEW k \in Nat, Len(s) = Len(r) + k + 1,
           \A i \in 1 .. Len(r) : s[i] = r[i],
           \A i \in Len(r) + 1 .. Len(r) + k : IsData(s[i]),
           IsFooter(s[Len(s)]), s[Len(s)].count = k
    PROVE  Whole(s)
<1> DEFINE n == Len(r)
           m == Len(s)
<1>1. /\ Decoded(r) = n /\ n \in Footers(r) \cup {0}
      /\ \A j \in Footers(r) : Balanced(r, j)
      /\ \A i \in 1 .. n : r[i] /= Torn
  BY WholeClean
<1>0. n \in Nat /\ m \in Nat /\ m = n + k + 1
  OBVIOUS
<1>2. \A i \in 1 .. n : s[i] = r[i]
  OBVIOUS
<1>3. \A i \in n + 1 .. n + k : s[i].type = "data"
  BY DEF IsData
<1>4. s[m].type = "commit" /\ s[m].count = k
  BY DEF IsFooter
<1>5. \A i \in 1 .. m : s[i] /= Torn
  <2>1. Torn.type = "torn"
    BY DEF Torn
  <2>2. \A i \in 1 .. m : i \in 1 .. n \/ i \in n + 1 .. n + k \/ i = m
    BY <1>0
  <2> QED BY <1>1, <1>2, <1>3, <1>4, <2>1, <2>2
<1>6. Decoded(s) = m
  <2>1. m \in 0 .. Len(s)
    BY <1>0
  <2> QED BY <1>5, <2>1, DecodedIs
<1> HIDE DEF n, m
<1>7. \A i \in 1 .. n : (i \in Footers(r) <=> i \in Footers(s))
                        /\ (Balanced(r, i) <=> Balanced(s, i))
  <2>1. n =< Decoded(r) /\ n =< Decoded(s)
    BY <1>0, <1>1, <1>6
  <2> QED BY <1>0, <1>2, <2>1, SamePrefix
<1>8. Footers(r) \subseteq 1 .. n /\ m \in Footers(s)
      /\ \A j \in Footers(s) : j \in 1 .. n \/ j = m
  <2>1. \A j \in 1 .. m : j \in 1 .. n \/ j \in n + 1 .. n + k \/ j = m
    BY <1>0
  <2>2. Footers(s) = {j \in 1 .. m : s[j].type = "commit"}
    BY <1>6 DEF Footers, IsFooter
  <2>3. m \in Footers(s)
    BY <1>0, <1>4, <2>2
  <2>4. Footers(r) \subseteq 1 .. n
    BY <1>1 DEF Footers
  <2>5. \A j \in n + 1 .. n + k : j \notin Footers(s)
    BY <1>3, <2>2
  <2>6. Footers(s) \subseteq 1 .. m
    BY <2>2
  <2> QED BY <2>1, <2>3, <2>4, <2>5, <2>6, Zenon
<1>9. Balanced(s, m)
  <2> DEFINE B == {j \in Footers(s) : j < m} \cup {0}
  <2>1. \A j \in B : j \in 0 .. n
    <3>1. ASSUME NEW j \in Footers(s), j < m PROVE j \in 0 .. n
      <4>0. j /= m
        BY <1>0, <3>1
      <4>1. j \in 1 .. n
        BY <1>8, <4>0, Zenon
      <4> QED BY <1>0, <4>1
    <3>2. 0 \in 0 .. n
      BY <1>0
    <3> QED BY <3>1, <3>2
  <2>2. n \in B
    <3>1. CASE n = 0
      BY <3>1
    <3>2. CASE n /= 0
      <4>1. n \in Footers(r) /\ n \in 1 .. n /\ n < m
        BY <3>2, <1>0, <1>1
      <4> QED BY <4>1, <1>7
    <3> QED BY <3>1, <3>2
  <2> HIDE DEF B
  <2>3. B \subseteq Int /\ \A y \in B : n >= y
    BY <1>0, <2>1
  <2>4. Max(B) = n
    BY <2>2, <2>3, MaxIs
  <2>5. k = m - 1 - n
    BY <1>0
  <2> QED BY <1>4, <2>4, <2>5 DEF Balanced, B
<1>10. \A j \in Footers(s) : Balanced(s, j) /\ ~ (j > m)
  <2>1. \A j \in Footers(s) : j \in 1 .. n => Balanced(s, j)
    BY <1>1, <1>7, Zenon
  <2>2. \A j \in Footers(s) : ~ (j > m)
    BY <1>0, <1>8
  <2> QED BY <1>8, <1>9, <2>1, <2>2, Zenon
<1>11. FooteredLen(s) = m
  BY <1>8, <1>10, FooteredIs
<1> QED BY <1>11 DEF Whole, m

\* A log cut to its valid length is whole.
LEMMA CutWhole ==
    ASSUME ByInduction, NEW R, NEW r \in Seq(R), NEW s \in Seq(R), Len(s) = FooteredLen(r),
           \A i \in 1 .. Len(s) : s[i] = r[i]
    PROVE  Whole(s)
<1> DEFINE n == Len(s)
<1>1. /\ n \in Nat /\ n \in Footers(r) \cup {0} /\ n =< Decoded(r)
      /\ \A j \in Footers(r) : j =< n => Balanced(r, j)
      /\ Decoded(r) \in Nat
  BY FooteredProps, DecodedProps
<1>2. \A i \in 1 .. n : s[i] = r[i]
  OBVIOUS
<1>3. \A i \in 1 .. n : s[i] /= Torn
  BY <1>1, <1>2, DecodedProps
<1>4. Decoded(s) = n
  BY <1>1, <1>3, DecodedIs
<1> HIDE DEF n
<1>5. \A i \in 1 .. n : (i \in Footers(r) <=> i \in Footers(s))
                        /\ (Balanced(r, i) <=> Balanced(s, i))
  <2>1. n =< Decoded(s) /\ \A i \in 1 .. n : r[i] = s[i]
    BY <1>1, <1>2, <1>4
  <2> QED BY <1>1, <2>1, SamePrefix
<1>6. Footers(s) \subseteq 1 .. n
  BY <1>4 DEF Footers
<1>7. n \in Footers(s) \cup {0}
  BY <1>1, <1>5
<1>8. \A j \in Footers(s) : Balanced(s, j) /\ ~ (j > n)
  <2>1. \A j \in Footers(s) : j \in 1 .. n /\ j =< n /\ ~ (j > n)
    BY <1>1, <1>6
  <2> QED BY <1>1, <1>5, <2>1, Zenon
<1>9. FooteredLen(s) = n
  BY <1>7, <1>8, FooteredIs
<1> QED BY <1>9 DEF Whole, n

\* No more is valid than the file holds.
LEMMA ValidWithin ==
    ASSUME ByInduction, NEW R, NEW file, file.recs \in Seq(R)
    PROVE  ValidLen(file) \in 0 .. Len(file.recs)
<1>1. Decoded(file.recs) \in 0 .. Len(file.recs)
  BY DecodedProps
<1>2. FooteredLen(file.recs) \in 0 .. Decoded(file.recs)
  BY FooteredProps
<1>3. Len(file.recs) \in Nat
  OBVIOUS
<1> QED BY <1>1, <1>2, <1>3 DEF ValidLen

\* Nothing is recovered from an empty file.
LEMMA RecoveredEmpty ==
    ASSUME ByInduction, NEW file, file.recs = <<>>
    PROVE  Recovered(file) = {}
<1>1. file.recs \in Seq({}) /\ Len(file.recs) = 0
  OBVIOUS
<1>2. ValidLen(file) \in 0 .. 0
  BY <1>1, ValidWithin
<1>3. 1 .. ValidLen(file) = {}
  BY <1>2
<1> QED BY <1>3 DEF Recovered

\* An empty log ends where its last batch does.
LEMMA WholeEmpty == ASSUME ByInduction PROVE Whole(<<>>)
<1>1. <<>> \in Seq({}) /\ Len(<<>>) = 0
  OBVIOUS
<1>2. Decoded(<<>>) \in 0 .. 0
  BY <1>1, DecodedProps
<1>3. FooteredLen(<<>>) \in 0 .. Decoded(<<>>)
  BY <1>1, FooteredProps
<1> QED BY <1>1, <1>2, <1>3 DEF Whole

\* The entries of the data records among the first n.
DataOf(recs, n) ==
    {<<recs[i].key, recs[i].version>> : i \in {j \in 1 .. n : IsData(recs[j])}}

\* What a framed log recovers lies before its last good footer.
LEMMA RecoveredFramed ==
    ASSUME NEW file, file.framed = TRUE
    PROVE  Recovered(file) = DataOf(file.recs, FooteredLen(file.recs))
<1>1. ValidLen(file) = FooteredLen(file.recs)
  BY DEF ValidLen
<1> QED BY <1>1, Zenon DEF Recovered, DataOf

\* The data of a prefix is that of any log with the same records there.
LEMMA SameData ==
    ASSUME NEW r, NEW s, NEW n, \A i \in 1 .. n : s[i] = r[i]
    PROVE  DataOf(s, n) = DataOf(r, n)
BY DEF DataOf

\* A file cut off inside its last batch recovers to what it was before the batch.
LEMMA RecoveredPartial ==
    ASSUME ByInduction, NEW R, NEW w, NEW x, w.framed = TRUE, x.framed = TRUE,
           w.recs \in Seq(R), x.recs \in Seq(R), Whole(w.recs),
           Len(w.recs) =< Len(x.recs),
           \A i \in 1 .. Len(w.recs) : x.recs[i] = w.recs[i],
           \A i \in Len(w.recs) + 1 .. Len(x.recs) : ~ IsFooter(x.recs[i])
    PROVE  Recovered(x) = Recovered(w)
<1>1. FooteredLen(x.recs) = Len(w.recs) /\ FooteredLen(w.recs) = Len(w.recs)
  BY ExtendPartial DEF Whole
<1>2. DataOf(x.recs, Len(w.recs)) = DataOf(w.recs, Len(w.recs))
  BY SameData
<1> QED BY <1>1, <1>2, RecoveredFramed

\* x is w, a whole log of records in R, with the batch of the k keys ws, the
\* set W, at version v at its end.
BatchAdded(R, x, w, W, ws, k, v) ==
    /\ w.framed = TRUE /\ x.framed = TRUE /\ w.recs \in Seq(R) /\ x.recs \in Seq(R)
    /\ Whole(w.recs) /\ k \in Nat /\ Len(x.recs) = Len(w.recs) + k + 1
    /\ \A i \in 1 .. Len(w.recs) : x.recs[i] = w.recs[i]
    /\ \A i \in 1 .. k : x.recs[Len(w.recs) + i] = Data(ws[i], v)
    /\ W = {ws[i] : i \in 1 .. k}
    /\ x.recs[Len(x.recs)] = Footer(v, k)

\* A batch appended whole adds its entries.
LEMMA RecoveredBatch ==
    ASSUME ByInduction, NEW R, NEW w, NEW x, NEW k, NEW ws, NEW W, NEW v,
           BatchAdded(R, x, w, W, ws, k, v)
    PROVE  Whole(x.recs) /\ Recovered(x) = Recovered(w) \cup (W \X {v})
<1> USE DEF BatchAdded
<1> DEFINE n == Len(w.recs)
           m == Len(x.recs)
           r == w.recs
           s == x.recs
<1>0. n \in Nat /\ m = n + k + 1
  OBVIOUS
<1>1. \A i \in n + 1 .. n + k : i - n \in 1 .. k /\ s[i] = Data(ws[i - n], v)
  <2> TAKE i \in n + 1 .. n + k
  <2>1. i - n \in 1 .. k /\ n + (i - n) = i
    BY <1>0
  <2>2. s[n + (i - n)] = Data(ws[i - n], v)
    BY <2>1
  <2> QED BY <2>1, <2>2
<1>2. \A a, b : IsData(Data(a, b)) /\ Data(a, b).key = a /\ Data(a, b).version = b
  BY DEF Data, IsData
<1>3. IsFooter(Footer(v, k)) /\ ~ IsData(Footer(v, k)) /\ Footer(v, k).count = k
  BY DEF Footer, IsData, IsFooter
<1>4. Whole(s)
  <2>1. \A i \in n + 1 .. n + k : IsData(s[i])
    BY <1>1, <1>2
  <2>2. IsFooter(s[m]) /\ s[m].count = k
    BY <1>3
  <2> QED BY <2>1, <2>2, ExtendBatch
<1>5. Recovered(x) = DataOf(s, m) /\ Recovered(w) = DataOf(r, n)
  BY <1>4, RecoveredFramed DEF Whole
<1>6. DataOf(s, n) = DataOf(r, n)
  BY SameData
<1>7. DataOf(s, m) = DataOf(s, n) \cup (W \X {v})
  <2>0. \A i \in 1 .. m : i \in 1 .. n \/ i \in n + 1 .. n + k \/ i = m
    BY <1>0
  <2>1. ASSUME NEW e \in DataOf(s, m) PROVE e \in DataOf(s, n) \cup (W \X {v})
    <3>1. PICK i \in 1 .. m : IsData(s[i]) /\ e = <<s[i].key, s[i].version>>
      BY DEF DataOf
    <3>2. CASE i \in 1 .. n
      BY <3>1, <3>2 DEF DataOf
    <3>3. CASE i \in n + 1 .. n + k
      <4>1. s[i] = Data(ws[i - n], v) /\ i - n \in 1 .. k
        BY <1>1, <3>3
      <4>2. e = <<ws[i - n], v>>
        BY <3>1, <4>1, <1>2
      <4> QED BY <4>1, <4>2
    <3>4. CASE i = m
      BY <3>1, <3>4, <1>3
    <3> QED BY <2>0, <3>2, <3>3, <3>4
  <2>2. DataOf(s, n) \subseteq DataOf(s, m)
    <3>1. 1 .. n \subseteq 1 .. m
      BY <1>0
    <3> QED BY <3>1 DEF DataOf
  <2>3. ASSUME NEW j \in 1 .. k PROVE <<ws[j], v>> \in DataOf(s, m)
    <3>1. s[n + j] = Data(ws[j], v) /\ n + j \in 1 .. m
      BY <1>0
    <3>2. IsData(s[n + j]) /\ s[n + j].key = ws[j] /\ s[n + j].version = v
      BY <3>1, <1>2
    <3> QED BY <3>1, <3>2 DEF DataOf
  <2> QED BY <2>1, <2>2, <2>3
<1> QED BY <1>4, <1>5, <1>6, <1>7

\* Cutting the torn tail off a framed log loses nothing.
LEMMA RecoveredCut ==
    ASSUME ByInduction, NEW R, NEW w, NEW x, w.framed = TRUE, x.framed = TRUE,
           w.recs \in Seq(R), x.recs \in Seq(R), Len(x.recs) = FooteredLen(w.recs),
           \A i \in 1 .. Len(x.recs) : x.recs[i] = w.recs[i]
    PROVE  Whole(x.recs) /\ Recovered(x) = Recovered(w)
<1>1. Whole(x.recs)
  BY CutWhole
<1>2. DataOf(x.recs, Len(x.recs)) = DataOf(w.recs, Len(x.recs))
  BY SameData
<1> QED BY <1>1, <1>2, RecoveredFramed DEF Whole

\* A log's fields.
LEMMA LogFields ==
    ASSUME NEW w \in Log
    PROVE  /\ w.framed \in BOOLEAN /\ w.recs \in Seq(Record)
           /\ Len(w.recs) \in Nat /\ w = [framed |-> w.framed, recs |-> w.recs]
BY DEF Log

\* Replay yields entries.
LEMMA RecoveredType ==
    ASSUME ByInduction, NEW w \in Log
    PROVE  Recovered(w) \in SUBSET Entry
<1>1. w.recs \in Seq(Record) /\ Len(w.recs) \in Nat
  BY LogFields
<1>2. ValidLen(w) \in 0 .. Len(w.recs)
  BY <1>1, ValidWithin
<1>3. \A i \in 1 .. ValidLen(w) : i \in 1 .. Len(w.recs)
  BY <1>1, <1>2
<1>4. \A i \in 1 .. Len(w.recs) :
          IsData(w.recs[i]) => <<w.recs[i].key, w.recs[i].version>> \in Entry
  BY DEF Log
<1> QED BY <1>3, <1>4 DEF Recovered

-----------------------------------------------------------------------------
(* Sets of entries.                                                        *)

\* An entry is a key and a version.
LEMMA EntryType ==
    ASSUME NEW e \in Entry PROVE e[1] \in Key /\ e[2] \in 1 .. MaxVersion
BY DEF Entry, Version

\* Versions are counted from 1.
LEMMA VersionType == MaxVersion \in Nat /\ Version = 1 .. MaxVersion
BY BoundAssumption DEF Version

\* More entries cover as much.
LEMMA CoversMore ==
    ASSUME NEW E, NEW F, NEW C, Covers(E, C), E \subseteq F
    PROVE  Covers(F, C)
BY DEF Covers

\* What covers a cover covers what that covers.
LEMMA CoversTrans ==
    ASSUME NEW E \in SUBSET Entry, NEW F \in SUBSET Entry, NEW C \in SUBSET Entry,
           Covers(E, F), Covers(F, C)
    PROVE  Covers(E, C)
<1> SUFFICES ASSUME NEW c \in C PROVE \E g \in E : g[1] = c[1] /\ c[2] <= g[2]
  BY DEF Covers
<1>1. PICK f \in F : f[1] = c[1] /\ c[2] <= f[2]
  BY DEF Covers
<1>2. PICK g \in E : g[1] = f[1] /\ f[2] <= g[2]
  BY DEF Covers
<1>3. c[2] \in Nat /\ f[2] \in Nat /\ g[2] \in Nat
  BY EntryType, VersionType
<1> QED BY <1>1, <1>2, <1>3

\* A set of entries covers its subsets.
LEMMA CoversSelf ==
    ASSUME NEW E \in SUBSET Entry, NEW C, C \subseteq E
    PROVE  Covers(E, C)
<1>1. \A c \in C : c[2] \in Nat
  BY EntryType, VersionType
<1> QED BY <1>1 DEF Covers

\* A set that covers two sets covers both together.
LEMMA CoversUnion ==
    ASSUME NEW E, NEW C, NEW D, Covers(E, C), Covers(E, D)
    PROVE  Covers(E, C \cup D)
BY DEF Covers

\* A memtable, which has all that is committed from its first version on, has the
\* newest version of each of its keys.
LEMMA SuffixComplete ==
    ASSUME NEW E \in SUBSET Entry, NEW C \in SUBSET Entry, Suffix(E, C)
    PROVE  Complete(E, C)
<1> SUFFICES ASSUME NEW e \in E, NEW f \in E, NEW c \in C, c[1] = e[1], c[2] <= f[2]
             PROVE  \E g \in E : g[1] = c[1] /\ c[2] <= g[2]
  BY DEF Complete
<1>1. c[2] \in Nat /\ e[2] \in Nat
  BY EntryType, VersionType
<1>2. CASE e[2] <= c[2]
  BY <1>1, <1>2 DEF Suffix
<1>3. CASE ~ (e[2] <= c[2])
  BY <1>1, <1>3
<1> QED BY <1>2, <1>3

\* What a suffix leaves out is older than it, so a file flushed from it goes last.
LEMMA BelowSuffix ==
    ASSUME NEW A, NEW B \in SUBSET Entry, NEW C \in SUBSET Entry, A \subseteq C, Suffix(B, C)
    PROVE  Below(A, B)
<1> SUFFICES ASSUME NEW a \in A, NEW b \in B PROVE \E f \in B : a[2] <= f[2]
  BY DEF Below
<1>1. a[2] \in Nat /\ b[2] \in Nat
  BY EntryType, VersionType
<1>2. CASE b[2] <= a[2]
  BY <1>1, <1>2 DEF Suffix
<1>3. CASE ~ (b[2] <= a[2])
  BY <1>1, <1>3
<1> QED BY <1>2, <1>3

\* Newer commits do not disturb what older files are complete for.
LEMMA CompleteKept ==
    ASSUME NEW E, NEW C \in SUBSET Entry, NEW N \in SUBSET Entry, E \subseteq C,
           \A n \in N : n \in C \/ \A c \in C : c[2] < n[2], Complete(E, C)
    PROVE  Complete(E, C \cup N)
<1> SUFFICES ASSUME NEW e \in E, NEW f \in E, NEW c \in C \cup N, c[1] = e[1], c[2] <= f[2]
             PROVE  \E g \in E : g[1] = c[1] /\ c[2] <= g[2]
  BY DEF Complete
<1>1. c[2] \in Nat /\ f[2] \in Nat
  BY EntryType, VersionType
<1>2. c \in C
  BY <1>1
<1> QED BY <1>2 DEF Complete

\* Newer commits do not open what is closed.
LEMMA ClosedKept ==
    ASSUME NEW E, NEW C \in SUBSET Entry, NEW N \in SUBSET Entry, E \subseteq C,
           \A n \in N : n \in C \/ \A c \in C : c[2] < n[2], Closed(E, C)
    PROVE  Closed(E, C \cup N)
<1> SUFFICES ASSUME NEW f \in E, NEW c \in C \cup N, c[2] <= f[2]
             PROVE  \E g \in E : g[1] = c[1] /\ c[2] <= g[2]
  BY DEF Closed
<1>1. c[2] \in Nat /\ f[2] \in Nat
  BY EntryType, VersionType
<1>2. c \in C
  BY <1>1
<1> QED BY <1>2 DEF Closed

\* What covers a closed set is as closed.
LEMMA ClosedCovered ==
    ASSUME NEW E \in SUBSET Entry, NEW F \in SUBSET Entry, NEW C \in SUBSET Entry,
           E \subseteq F, Covers(E, F), Closed(F, C)
    PROVE  Closed(E, C) /\ Complete(E, C)
<1>1. ASSUME NEW f \in E, NEW c \in C, c[2] <= f[2]
      PROVE  \E g \in E : g[1] = c[1] /\ c[2] <= g[2]
  <2>1. PICK g \in F : g[1] = c[1] /\ c[2] <= g[2]
    BY <1>1 DEF Closed
  <2>2. PICK h \in E : h[1] = g[1] /\ g[2] <= h[2]
    BY DEF Covers
  <2>3. c[2] \in Nat /\ g[2] \in Nat /\ h[2] \in Nat
    BY EntryType, VersionType
  <2> QED BY <2>1, <2>2, <2>3
<1> QED BY <1>1 DEF Closed, Complete

\* The entries of files are entries.
LEMMA EntsType == ASSUME NEW S, S \subseteq File PROVE Ents(S) \in SUBSET Entry
BY DEF Ents, File

\* The entries of files with one more file.
LEMMA EntsAdd == ASSUME NEW S, NEW f PROVE Ents(S \cup {f}) = Ents(S) \cup f.entries
BY DEF Ents

\* Adding the rest of what is committed keeps a set of entries closed.
LEMMA ClosedAll ==
    ASSUME NEW E, NEW C, Covers(E, C) PROVE Closed(E, C)
BY DEF Covers, Closed

-----------------------------------------------------------------------------
(* The logs the engine writes, finds and loses.                            *)

\* A log that is good beside some files is good beside files that cover them.
LEMMA GoodLogKept ==
    ASSUME NEW w, NEW D \in SUBSET Entry, NEW E \in SUBSET Entry,
           NEW C \in SUBSET Entry, NEW P, NEW down, NEW down2,
           GoodLog(w, D, C, P, down), Covers(E, D), down => down2
    PROVE  GoodLog(w, E, C, P, down2)
<1>1. Recovered(w) \in SUBSET Entry
  BY DEF GoodLog
<1> DEFINE R == Recovered(w)
<1> HIDE DEF R
<1>2. Covers(E \cup R, D \cup R)
  <2>1. Covers(E \cup R, D)
    BY CoversMore
  <2>2. Covers(E \cup R, R)
    BY <1>1, CoversSelf DEF R
  <2> QED BY <2>1, <2>2, CoversUnion
<1>3. Covers(E \cup R, C)
  <2>1. Covers(D \cup R, C)
    BY DEF GoodLog, R
  <2> QED BY <1>1, <1>2, <2>1, CoversTrans DEF R
<1> QED BY <1>3, Zenon DEF GoodLog, R

\* The logs a crash may leave depend on the log, its synced prefix and the batch.
LEMMA SurvivorsKept ==
    ASSUME UNCHANGED <<wal, disk_wal, committer, conf>>
    PROVE  Survivors(Worst)' = Survivors(Worst)
BY DEF Survivors, Worst

\* A torn record is neither data nor a footer.
LEMMA TornRecord == Torn \in Record /\ ~ IsData(Torn) /\ ~ IsFooter(Torn)
BY DEF Torn, Record, IsData, IsFooter

\* A prefix of a log, with or without a torn record at its end.
LEMMA TornLog ==
    ASSUME NEW w \in Log, NEW base \in Nat, NEW x \in TornFrom(w, base)
    PROVE  /\ x \in Log /\ x.framed = w.framed
           /\ \E i \in base .. Len(w.recs) - 1 :
                 /\ \A j \in 1 .. i : x.recs[j] = w.recs[j]
                 /\ i =< Len(x.recs)
                 /\ \A j \in i + 1 .. Len(x.recs) : x.recs[j] = Torn
<1>1. PICK r \in UNION {{SubSeq(w.recs, 1, i), SubSeq(w.recs, 1, i) \o <<Torn>>} :
                           i \in base .. Len(w.recs) - 1} : x = [w EXCEPT !.recs = r]
  BY Zenon DEF TornFrom
<1>1a. PICK i \in base .. Len(w.recs) - 1 :
          r \in {SubSeq(w.recs, 1, i), SubSeq(w.recs, 1, i) \o <<Torn>>}
  BY Zenon
<1>2. w.framed \in BOOLEAN /\ w.recs \in Seq(Record) /\ Len(w.recs) \in Nat
  BY LogFields
<1> DEFINE p == SubSeq(w.recs, 1, i)
           t == IF r = p THEN <<>> ELSE <<Torn>>
<1>3. i \in Nat /\ i =< Len(w.recs) /\ \A j \in 1 .. i : j \in 1 .. Len(w.recs)
  BY <1>2
<1>4. p \in Seq(Record) /\ Len(p) = i /\ \A j \in 1 .. i : p[j] = w.recs[j]
  BY <1>2, <1>3
<1> HIDE DEF p
<1>5. t \in Seq(Record) /\ Len(t) \in Nat /\ \A j \in 1 .. Len(t) : t[j] = Torn
  BY TornRecord
<1>5a. r = p \o t
  <2>1. CASE r = p
    BY <1>4, <2>1
  <2>2. CASE r /= p
    BY <1>1a, <2>2, Zenon DEF p
  <2> QED BY <2>1, <2>2
<1> HIDE DEF t
<1>6. x.framed = w.framed /\ x.recs = p \o t /\ x = [framed |-> w.framed, recs |-> p \o t]
  <2>1. w = [framed |-> w.framed, recs |-> w.recs]
    BY LogFields
  <2> QED BY <1>1, <1>5a, <2>1
<1>7. /\ p \o t \in Seq(Record) /\ Len(p \o t) = i + Len(t)
      /\ \A j \in 1 .. i + Len(t) : (p \o t)[j] = IF j <= i THEN p[j] ELSE t[j - i]
  BY <1>4, <1>5, ConcatIs
<1>8. \A j \in 1 .. i : x.recs[j] = w.recs[j]
  <2> TAKE j \in 1 .. i
  <2>1. j \in 1 .. i + Len(t) /\ j <= i
    BY <1>3, <1>5
  <2>2. (p \o t)[j] = p[j]
    BY <1>7, <2>1
  <2> QED BY <1>4, <1>6, <2>2
<1>9. \A j \in i + 1 .. Len(x.recs) : x.recs[j] = Torn
  <2> TAKE j \in i + 1 .. Len(x.recs)
  <2>1. j \in 1 .. i + Len(t) /\ ~ (j <= i) /\ j - i \in 1 .. Len(t)
    BY <1>3, <1>5, <1>6, <1>7
  <2>2. x.recs[j] = t[j - i]
    BY <1>6, <1>7, <2>1
  <2> QED BY <1>5, <2>1, <2>2
<1>10. x.recs \in Seq(Record) /\ Len(x.recs) \in Nat /\ i =< Len(x.recs)
  BY <1>3, <1>5, <1>6, <1>7
<1>11. x \in Log
  <2>1. x \in [framed : BOOLEAN, recs : Seq(Record)]
    BY <1>2, <1>6, <1>7
  <2>2. ASSUME NEW j \in 1 .. Len(x.recs), IsData(x.recs[j])
        PROVE  <<x.recs[j].key, x.recs[j].version>> \in Entry
    <3>1. j \in 1 .. i
      <4>1. j \in 1 .. i \/ j \in i + 1 .. Len(x.recs)
        BY <1>3, <1>10
      <4> QED BY <4>1, <1>9, <2>2, TornRecord
    <3>2. x.recs[j] = w.recs[j] /\ j \in 1 .. Len(w.recs)
      BY <1>3, <1>8, <3>1
    <3>3. \A q \in 1 .. Len(w.recs) :
              IsData(w.recs[q]) => <<w.recs[q].key, w.recs[q].version>> \in Entry
      BY DEF Log
    <3> QED BY <2>2, <3>2, <3>3
  <2> QED BY <2>1, <2>2 DEF Log
<1> QED BY <1>6, <1>8, <1>9, <1>10, <1>11

\* Whatever a crash leaves of a log is a log.
LEMMA SurvivorsLog ==
    ASSUME Types, NEW cause, NEW w \in Survivors(cause)
    PROVE  w \in Log
<1>1. wal \in Log /\ disk_wal \in Log /\ committer.base \in Nat
  BY DEF Types
<1>2. Len(disk_wal.recs) \in Nat
  BY <1>1, LogFields
<1>3. CASE w = wal \/ w = disk_wal
  BY <1>1, <1>3
<1>4. CASE w \in TornFrom(wal, committer.base)
  BY <1>1, <1>4, TornLog
<1>5. CASE w \in TornFrom(wal, Len(disk_wal.recs))
  BY <1>1, <1>2, <1>5, TornLog
<1>6. CASE w \in TornFrom(wal, 0)
  BY <1>1, <1>6, TornLog
<1> QED BY <1>3, <1>4, <1>5, <1>6 DEF Survivors

\* An empty log, framed or not, is a log.
LEMMA EmptyLog == Legacy(<<>>) \in Log /\ FreshWal \in Log
BY DEF Legacy, FreshWal, Framed, Log

\* What a log is once the batch of W at version v is appended to it.
Appended(x, w, W, writes, v) ==
    LET n == Len(w.recs) k == Cardinality(W)
    IN  /\ k \in Nat /\ x.recs \in Seq(Record) /\ Len(x.recs) = n + k + 1
        /\ \A i \in 1 .. n : x.recs[i] = w.recs[i]
        /\ \A i \in 1 .. k : x.recs[n + i] = Data(writes[i], v)
        /\ x.recs[n + k + 1] = Footer(v, k)
        /\ W = {writes[i] : i \in 1 .. k}

AppendTo(w, writes, v) == [w EXCEPT !.recs = @ \o Batch(writes, v)]

\* Append as the elements at its places.
LEMMA AppendedIs ==
    ASSUME ByInduction, NEW w \in Log, NEW v \in Version, NEW W \in SUBSET Key, NEW writes \in Orders(W)
    PROVE  LET x == AppendTo(w, writes, v)
           IN  x \in Log /\ x.framed = w.framed /\ Appended(x, w, W, writes, v)
<1> DEFINE x == AppendTo(w, writes, v)
           k == Cardinality(W)
           n == Len(w.recs)
           d == [i \in 1 .. k |-> Data(writes[i], v)]
           f == <<Footer(v, k)>>
<1>1. k \in Nat
  <2>1. IsFiniteSet(W)
    BY BoundAssumption, FiniteSubset
  <2> QED BY <2>1 DEF ByInduction
<1>2. w.framed \in BOOLEAN /\ w.recs \in Seq(Record) /\ n \in Nat
  BY LogFields
<1>3. writes \in [1 .. k -> W] /\ Range(writes) = W
  BY DEF Orders
<1>4. Len(writes) = k
  BY <1>1, <1>3
<1> HIDE DEF k, n, x
<1>5. v \in Nat /\ \A i \in 1 .. k : Data(writes[i], v) \in Record
  <2>1. v \in Nat
    BY VersionType
  <2>2. \A y \in Key : Data(y, v) \in Record
    BY <2>1 DEF Record, Data
  <2> QED BY <1>3, <2>1, <2>2
<1>6. d \in Seq(Record) /\ Len(d) = k /\ \A i \in 1 .. k : d[i] = Data(writes[i], v)
  BY <1>1, <1>5
<1>7. Footer(v, k) \in Record
  BY <1>1, <1>5 DEF Footer, Record
<1>8. f \in Seq(Record) /\ Len(f) = 1 /\ f[1] = Footer(v, k)
  BY <1>7
<1>9. Batch(writes, v) = d \o f
  BY <1>4 DEF Batch
<1> HIDE DEF d, f
<1>10. /\ d \o f \in Seq(Record) /\ Len(d \o f) = k + 1
       /\ \A i \in 1 .. k + 1 : (d \o f)[i] = IF i <= k THEN d[i] ELSE f[i - k]
  <2>1. /\ d \o f \in Seq(Record) /\ Len(d \o f) = Len(d) + Len(f)
        /\ \A i \in 1 .. Len(d) + Len(f) : (d \o f)[i] = IF i <= Len(d) THEN d[i] ELSE f[i - Len(d)]
    BY <1>6, <1>8, ConcatIs
  <2> QED BY <1>6, <1>8, <2>1, Zenon
<1> DEFINE b == d \o f
<1>11. \A i \in 1 .. k : b[i] = Data(writes[i], v)
  BY <1>1, <1>6, <1>10
<1>12. b[k + 1] = Footer(v, k)
  <2>1. k + 1 \in 1 .. k + 1 /\ ~ (k + 1 <= k) /\ (k + 1) - k = 1
    BY <1>1
  <2> QED BY <1>8, <1>10, <2>1
<1>13. b \in Seq(Record) /\ Len(b) = k + 1
  BY <1>10
<1> HIDE DEF b
<1>14. x.framed = w.framed /\ x.recs = w.recs \o b /\ x = [framed |-> w.framed, recs |-> w.recs \o b]
  <2>1. w = [framed |-> w.framed, recs |-> w.recs]
    BY LogFields
  <2>2. x = [w EXCEPT !.recs = w.recs \o b]
    BY <1>9 DEF b, x, AppendTo
  <2> QED BY <2>1, <2>2
<1>15. /\ x.recs \in Seq(Record) /\ Len(x.recs) = n + (k + 1)
       /\ \A i \in 1 .. n + (k + 1) : x.recs[i] = IF i <= n THEN w.recs[i] ELSE b[i - n]
  <2>1. /\ w.recs \o b \in Seq(Record) /\ Len(w.recs \o b) = n + Len(b)
        /\ \A i \in 1 .. n + Len(b) : (w.recs \o b)[i] = IF i <= n THEN w.recs[i] ELSE b[i - n]
    BY <1>2, <1>13, ConcatIs DEF n
  <2> QED BY <1>13, <1>14, <2>1, Zenon
<1> DEFINE r == x.recs
<1> HIDE DEF r
<1>16. \A i \in 1 .. n : r[i] = w.recs[i]
  BY <1>1, <1>2, <1>15 DEF r
<1>17. \A i \in 1 .. k + 1 : r[n + i] = b[i]
  <2> TAKE i \in 1 .. k + 1
  <2>1. n + i \in 1 .. n + (k + 1) /\ ~ (n + i <= n) /\ (n + i) - n = i
    BY <1>1, <1>2
  <2> DEFINE j == n + i
  <2> HIDE DEF j
  <2>2. r[j] = b[j - n]
    BY <1>15, <2>1 DEF j, r
  <2> QED BY <2>1, <2>2 DEF j
<1>18. \A i \in 1 .. k : r[n + i] = Data(writes[i], v)
  <2>1. \A i \in 1 .. k : i \in 1 .. k + 1
    BY <1>1
  <2> QED BY <1>11, <1>17, <2>1
<1>19. r[n + k + 1] = Footer(v, k)
  <2>1. k + 1 \in 1 .. k + 1 /\ n + (k + 1) = n + k + 1
    BY <1>1, <1>2
  <2> QED BY <1>12, <1>17, <2>1
<1>20. W = {writes[i] : i \in 1 .. k}
  BY <1>3 DEF Range
<1>21. Len(r) = n + k + 1 /\ r \in Seq(Record)
  BY <1>1, <1>2, <1>15 DEF r
<1>22. Appended(x, w, W, writes, v)
  BY <1>1, <1>16, <1>18, <1>19, <1>20, <1>21 DEF Appended, r, k, n
<1>23. x \in Log
  <2> SUFFICES ASSUME NEW i \in 1 .. n + k + 1, IsData(r[i])
               PROVE  <<r[i].key, r[i].version>> \in Entry
    <3>1. x \in [framed : BOOLEAN, recs : Seq(Record)]
      BY <1>2, <1>14, <1>15
    <3> QED BY <1>21, <3>1 DEF Log, r
  <2>1. CASE i \in 1 .. n
    BY <1>16, <2>1 DEF Log, n
  <2>2. CASE i \in n + 1 .. n + k
    <3> DEFINE j == i - n
    <3>1. j \in 1 .. k /\ n + j = i
      BY <1>1, <1>2, <2>2
    <3> HIDE DEF j
    <3>2. r[i] = Data(writes[j], v) /\ writes[j] \in Key
      BY <1>3, <1>18, <3>1
    <3> QED BY <3>2 DEF Data, Entry
  <2>3. CASE i = n + k + 1
    <3>1. r[i] = Footer(v, k)
      BY <1>19, <2>3
    <3>2. ~ IsData(Footer(v, k))
      BY DEF Footer, IsData
    <3> QED BY <3>1, <3>2, Zenon
  <2>4. i \in 1 .. n \/ i \in n + 1 .. n + k \/ i = n + k + 1
    BY <1>1, <1>2
  <2> QED BY <2>1, <2>2, <2>3, <2>4
<1> QED BY <1>14, <1>22, <1>23 DEF x

\* A torn log is torn in what was appended, or as the shorter log may be.
LEMMA TornExtended ==
    ASSUME NEW w \in Log, NEW x \in Log, x.framed = w.framed, Len(w.recs) =< Len(x.recs),
           \A i \in 1 .. Len(w.recs) : x.recs[i] = w.recs[i],
           NEW b \in Nat, NEW y \in TornFrom(x, b)
    PROVE  y \in TornFrom(x, Len(w.recs)) \/ y \in TornFrom(w, b)
<1> DEFINE Cut(z, i) == {SubSeq(z.recs, 1, i), SubSeq(z.recs, 1, i) \o <<Torn>>}
<1>1. PICK r \in UNION {Cut(x, i) : i \in b .. Len(x.recs) - 1} : y = [x EXCEPT !.recs = r]
  BY Zenon DEF TornFrom
<1>2. PICK i \in b .. Len(x.recs) - 1 : r \in Cut(x, i)
  BY <1>1, Zenon
<1>3. /\ w.recs \in Seq(Record) /\ x.recs \in Seq(Record) /\ Len(w.recs) \in Nat
      /\ Len(x.recs) \in Nat
  BY LogFields
<1>4. CASE i >= Len(w.recs)
  <2>1. i \in Len(w.recs) .. Len(x.recs) - 1
    BY <1>3, <1>4
  <2> QED BY <1>1, <1>2, <2>1, Zenon DEF TornFrom
<1>5. CASE i < Len(w.recs)
  <2>1. i \in b .. Len(w.recs) - 1 /\ i \in Nat /\ i <= Len(x.recs)
    BY <1>3, <1>5
  <2>2. SubSeq(x.recs, 1, i) = SubSeq(w.recs, 1, i)
    <3>1. \A j \in 1 .. i : x.recs[j] = w.recs[j]
      BY <1>3, <2>1
    <3>2. SubSeq(x.recs, 1, i) = [j \in 1 .. i |-> x.recs[j]]
      BY <1>3, <2>1
    <3>3. SubSeq(w.recs, 1, i) = [j \in 1 .. i |-> w.recs[j]]
      BY <1>3, <2>1
    <3> QED BY <3>1, <3>2, <3>3
  <2>3. r \in Cut(w, i)
    BY <1>2, <2>2
  <2>4. [x EXCEPT !.recs = r] = [w EXCEPT !.recs = r]
    <3>1. x = [framed |-> x.framed, recs |-> x.recs] /\ w = [framed |-> w.framed, recs |-> w.recs]
      BY LogFields
    <3> QED BY <3>1
  <2> QED BY <1>1, <2>1, <2>3, <2>4, Zenon DEF TornFrom
<1> QED BY <1>3, <1>4, <1>5

\* Logs that are good stay good when a batch is pending.
LEMMA GoodLogPending ==
    ASSUME NEW w, NEW D, NEW C, NEW P, GoodLog(w, D, C, {}, FALSE)
    PROVE  GoodLog(w, D, C, P, FALSE)
BY DEF GoodLog

\* A log to which a whole batch is appended.
LEMMA BatchRecovered ==
    ASSUME NEW w \in Log, w.framed = TRUE, Whole(w.recs), NEW x \in Log, x.framed = w.framed,
           NEW W, NEW writes, NEW v, Appended(x, w, W, writes, v)
    PROVE  BatchAdded(Record, x, w, W, writes, Cardinality(W), v)
<1>1. w.recs \in Seq(Record) /\ x.recs \in Seq(Record)
  BY LogFields
<1> QED BY <1>1 DEF Appended, BatchAdded

\* A log cut off inside the batch that is being appended is as good as the log
\* before it.
LEMMA TornBatch ==
    ASSUME ByInduction, NEW w \in Log, w.framed = TRUE, Whole(w.recs), NEW x \in Log, x.framed = w.framed,
           NEW W, NEW writes, NEW v, Appended(x, w, W, writes, v),
           NEW y \in TornFrom(x, Len(w.recs))
    PROVE  Recovered(y) = Recovered(w) /\ ~ FileIsLegacy(y)
<1> DEFINE n == Len(w.recs)
           k == Cardinality(W)
<1>1. /\ k \in Nat /\ n \in Nat /\ Len(x.recs) = n + k + 1
      /\ \A i \in 1 .. n : x.recs[i] = w.recs[i]
      /\ \A i \in 1 .. k : x.recs[n + i] = Data(writes[i], v)
  BY LogFields DEF Appended
<1>2. y \in Log /\ y.framed = TRUE
  BY <1>1, TornLog
<1> HIDE DEF k, n
<1>3. PICK i \in n .. Len(x.recs) - 1 :
          /\ \A j \in 1 .. i : y.recs[j] = x.recs[j]
          /\ i =< Len(y.recs)
          /\ \A j \in i + 1 .. Len(y.recs) : y.recs[j] = Torn
  BY <1>1, TornLog DEF n
<1>4. /\ y.recs \in Seq(Record) /\ w.recs \in Seq(Record) /\ Len(y.recs) \in Nat
  BY <1>2, LogFields
<1>5. n =< Len(y.recs) /\ \A j \in 1 .. n : y.recs[j] = w.recs[j]
  BY <1>1, <1>3, <1>4
<1>6. \A j \in n + 1 .. Len(y.recs) : ~ IsFooter(y.recs[j])
  <2> TAKE j \in n + 1 .. Len(y.recs)
  <2>1. CASE j <= i
    <3> DEFINE q == j - n
    <3>1. q \in 1 .. k /\ n + q = j
      BY <1>1, <1>3, <1>4, <2>1
    <3> HIDE DEF q
    <3>2. y.recs[j] = x.recs[j]
      BY <1>1, <1>3, <1>4, <2>1
    <3>3. x.recs[j] = Data(writes[q], v)
      BY <1>1, <3>1
    <3>4. ~ IsFooter(Data(writes[q], v))
      BY DEF Data, IsFooter
    <3> QED BY <3>2, <3>3, <3>4, Zenon
  <2>2. CASE ~ (j <= i)
    <3>1. y.recs[j] = Torn
      BY <1>1, <1>3, <1>4, <2>2
    <3> QED BY <3>1, TornRecord, Zenon
  <2> QED BY <2>1, <2>2
<1>7. Recovered(y) = Recovered(w)
  BY <1>2, <1>4, <1>5, <1>6, RecoveredPartial DEF n
<1> QED BY <1>2, <1>7 DEF FileIsLegacy

\* What open makes of the log: a framed log without its torn tail.
LEMMA CutLog ==
    ASSUME ByInduction, NEW w \in Log, ~ FileIsLegacy(w)
    PROVE  LET cut == TruncateTo(w, ValidLen(w))
               x == Framed(cut.recs)
           IN  /\ x \in Log /\ cut \in Log /\ cut.recs = x.recs /\ x.framed = TRUE
               /\ Whole(x.recs) /\ Recovered(x) = Recovered(w) /\ Recovered(cut) = Recovered(w)
               /\ ~ FileIsLegacy(cut)
<1> DEFINE n == ValidLen(w)
           r == SubSeq(w.recs, 1, n)
           cut == TruncateTo(w, n)
           x == Framed(cut.recs)
<1>1. /\ w.framed \in BOOLEAN /\ w.recs \in Seq(Record) /\ Len(w.recs) \in Nat
      /\ w = [framed |-> w.framed, recs |-> w.recs]
  BY LogFields
<1>2. n \in 0 .. Len(w.recs)
  BY <1>1, ValidWithin
<1> HIDE DEF n
<1>3. r \in Seq(Record) /\ Len(r) = n /\ \A i \in 1 .. n : r[i] = w.recs[i]
  BY <1>1, <1>2
<1> HIDE DEF r
<1>4. cut = [framed |-> w.framed, recs |-> r] /\ x = [framed |-> TRUE, recs |-> r]
  <2>1. cut = [w EXCEPT !.recs = r]
    BY DEF TruncateTo, r
  <2>2. cut = [framed |-> w.framed, recs |-> r]
    BY <1>1, <2>1
  <2> HIDE DEF cut
  <2>3. cut.recs = r
    BY <2>2
  <2> QED BY <2>2, <2>3 DEF Framed
<1> HIDE DEF cut, x
<1>5. \A i \in 1 .. n : IsData(r[i]) => <<r[i].key, r[i].version>> \in Entry
  <2>1. \A i \in 1 .. n : i \in 1 .. Len(w.recs)
    BY <1>1, <1>2
  <2> QED BY <1>3, <2>1 DEF Log
<1>6. x \in Log /\ cut \in Log /\ cut.recs = r /\ x.recs = r /\ x.framed = TRUE
      /\ cut.framed = w.framed
  BY <1>1, <1>3, <1>4, <1>5 DEF Log
<1>7. CASE w.framed = TRUE
  <2>1. n = FooteredLen(w.recs)
    BY <1>7 DEF ValidLen, n
  <2>2. Whole(x.recs) /\ Recovered(x) = Recovered(w)
    <3>1. /\ Len(x.recs) = FooteredLen(w.recs) /\ x.recs \in Seq(Record)
          /\ \A i \in 1 .. Len(x.recs) : x.recs[i] = w.recs[i]
      BY <1>3, <1>6, <2>1
    <3> HIDE DEF x
    <3>2. x.framed = TRUE
      BY <1>6
    <3> QED BY <1>1, <1>7, <3>1, <3>2, RecoveredCut
  <2>3. cut = x
    BY <1>4, <1>7
  <2>4. ~ FileIsLegacy(cut)
    BY <1>6, <1>7 DEF FileIsLegacy
  <2> QED BY <1>6, <2>2, <2>3, <2>4 DEF cut, x, n
<1>8. CASE w.framed = FALSE
  <2>1. w.recs = <<>>
    BY <1>8 DEF FileIsLegacy
  <2>2. Len(w.recs) = 0
    BY <2>1
  <2>3. n = 0
    BY <1>2, <2>2
  <2>4. r = <<>>
    BY <1>3, <2>3
  <2>5. Recovered(w) = {} /\ Recovered(cut) = {} /\ Recovered(x) = {}
    BY <1>6, <2>1, <2>4, RecoveredEmpty
  <2>6. Whole(x.recs) /\ ~ FileIsLegacy(cut)
    BY <1>6, <2>4, WholeEmpty DEF FileIsLegacy
  <2> QED BY <1>6, <2>5, <2>6 DEF cut, x, n
<1> QED BY <1>1, <1>7, <1>8

\* A log of an older binary that starts with a record has something to recover.
LEMMA LegacyRecovers ==
    ASSUME ByInduction, NEW w \in Log, w.framed = FALSE, 1 <= Len(w.recs), NEW k, w.recs[1] = Data(k, 1),
           \A i \in 1 .. Len(w.recs) : ~ IsFooter(w.recs[i])
    PROVE  Recovered(w) /= {}
<1>1. w.recs \in Seq(Record) /\ Len(w.recs) \in Nat
  BY LogFields
<1>2. Decoded(w.recs) \in 0 .. Len(w.recs)
      /\ (Decoded(w.recs) = Len(w.recs) \/ w.recs[Decoded(w.recs) + 1] = Torn)
  BY <1>1, DecodedProps
<1>3. Footers(w.recs) = {}
  BY <1>1, <1>2 DEF Footers
<1>4. ValidLen(w) = Decoded(w.recs)
  BY <1>3 DEF ValidLen, Mismatch
<1>5. Data(k, 1) /= Torn /\ IsData(Data(k, 1))
  BY DEF Data, Torn, IsData
<1>6. Decoded(w.recs) /= 0
  <2> SUFFICES ASSUME Decoded(w.recs) = 0 PROVE FALSE
    OBVIOUS
  <2>1. w.recs[1] = Torn
    BY <1>1, <1>2
  <2> QED BY <1>5, <2>1, Zenon
<1>7. 1 \in 1 .. ValidLen(w)
  BY <1>1, <1>2, <1>4, <1>6
<1>8. IsData(w.recs[1])
  BY <1>5, Zenon
<1> QED BY <1>7, <1>8, Zenon DEF Recovered

\* A log of one record, or two.
LEMMA LegacyLog ==
    ASSUME ByInduction, NEW k \in Key, NEW r \in Record, 2 \in Version,
           IsData(r) => <<r.key, r.version>> \in Entry, ~ IsFooter(r)
    PROVE  /\ Legacy(<<Data(k, 1)>>) \in Log /\ Recovered(Legacy(<<Data(k, 1)>>)) /= {}
           /\ Legacy(<<Data(k, 1), r>>) \in Log /\ Recovered(Legacy(<<Data(k, 1), r>>)) /= {}
<1>1. 1 \in Version
  BY VersionType
<1> DEFINE d == Data(k, 1)
<1>2. d \in Record /\ (IsData(d) => <<d.key, d.version>> \in Entry) /\ ~ IsFooter(d)
  BY <1>1 DEF Data, Record, IsData, IsFooter, Entry
<1> HIDE DEF d
<1> DEFINE x == Legacy(<<d>>)
           y == Legacy(<<d, r>>)
<1>3. /\ x.framed = FALSE /\ x.recs = <<d>> /\ y.framed = FALSE /\ y.recs = <<d, r>>
      /\ x = [framed |-> FALSE, recs |-> <<d>>] /\ y = [framed |-> FALSE, recs |-> <<d, r>>]
  BY DEF Legacy
<1> HIDE DEF x, y
<1>4. /\ <<d>> \in Seq(Record) /\ Len(<<d>>) = 1 /\ <<d>>[1] = d
      /\ <<d, r>> \in Seq(Record) /\ Len(<<d, r>>) = 2 /\ <<d, r>>[1] = d /\ <<d, r>>[2] = r
  BY <1>2
<1>5. (\A i \in 1 .. 1 : i = 1) /\ (\A i \in 1 .. 2 : i = 1 \/ i = 2)
  OBVIOUS
<1>6. /\ \A i \in 1 .. 1 : <<d>>[i] = d
      /\ \A i \in 1 .. 2 : <<d, r>>[i] = d \/ <<d, r>>[i] = r
  BY <1>4, <1>5, Zenon
<1>7. x \in Log
  <2>1. x \in [framed : BOOLEAN, recs : Seq(Record)]
    BY <1>3, <1>4
  <2> QED BY <1>2, <1>3, <1>4, <1>6, <2>1, Zenon DEF Log
<1>8. y \in Log
  <2>1. y \in [framed : BOOLEAN, recs : Seq(Record)]
    BY <1>3, <1>4
  <2> QED BY <1>2, <1>3, <1>4, <1>6, <2>1, Zenon DEF Log
<1>9. Recovered(x) /= {}
  <2>1. 1 <= Len(x.recs) /\ x.recs[1] = Data(k, 1)
    BY <1>3, <1>4 DEF d
  <2>2. \A i \in 1 .. Len(x.recs) : ~ IsFooter(x.recs[i])
    BY <1>2, <1>3, <1>4, <1>6, Zenon
  <2> QED BY <1>3, <1>7, <2>1, <2>2, LegacyRecovers
<1>10. Recovered(y) /= {}
  <2>1. 1 <= Len(y.recs) /\ y.recs[1] = Data(k, 1)
    BY <1>3, <1>4 DEF d
  <2>2. \A i \in 1 .. Len(y.recs) : ~ IsFooter(y.recs[i])
    BY <1>2, <1>3, <1>4, <1>6, Zenon
  <2> QED BY <1>3, <1>8, <2>1, <2>2, LegacyRecovers
<1> QED BY <1>7, <1>8, <1>9, <1>10 DEF x, y, d

-----------------------------------------------------------------------------
(* Lists of files.                                                         *)

\* The elements of a sequence with one more at its end.
LEMMA RangeAppend ==
    ASSUME NEW T, NEW s \in Seq(T), NEW x \in T
    PROVE  Range(Append(s, x)) = Range(s) \cup {x}
<1>1. /\ Append(s, x) \in Seq(T) /\ Len(s) \in Nat /\ Len(Append(s, x)) = Len(s) + 1
      /\ \A i \in 1 .. Len(s) : Append(s, x)[i] = s[i]
      /\ Append(s, x)[Len(s) + 1] = x
  BY AppendIs
<1>2. DOMAIN s = 1 .. Len(s) /\ DOMAIN Append(s, x) = 1 .. Len(s) + 1
  BY <1>1, SeqIs
<1>3. \A i \in 1 .. Len(s) + 1 : i \in 1 .. Len(s) \/ i = Len(s) + 1
  BY <1>1
<1>4. Len(s) + 1 \in 1 .. Len(s) + 1 /\ \A i \in 1 .. Len(s) : i \in 1 .. Len(s) + 1
  BY <1>1
<1> DEFINE t == Append(s, x)
           n == Len(s)
<1> HIDE DEF t, n
<1>5. /\ DOMAIN s = 1 .. n /\ DOMAIN t = 1 .. n + 1
      /\ \A i \in 1 .. n : t[i] = s[i]
      /\ t[n + 1] = x
      /\ \A i \in 1 .. n + 1 : i \in 1 .. n \/ i = n + 1
      /\ n + 1 \in 1 .. n + 1 /\ \A i \in 1 .. n : i \in 1 .. n + 1
  BY <1>1, <1>2, <1>3, <1>4 DEF t, n
<1>6. Range(t) = Range(s) \cup {x}
  BY <1>5 DEF Range
<1> QED BY <1>6 DEF t

\* A list with one element before it.
LEMMA ConsList ==
    ASSUME NEW T, NEW x \in T, NEW s \in Seq(T)
    PROVE  /\ <<x>> \o s \in Seq(T) /\ Len(<<x>> \o s) = Len(s) + 1
           /\ DOMAIN (<<x>> \o s) = 1 .. Len(s) + 1
           /\ (<<x>> \o s)[1] = x /\ \A i \in 1 .. Len(s) : (<<x>> \o s)[i + 1] = s[i]
<1>1. <<x>> \in Seq(T) /\ Len(<<x>>) = 1 /\ <<x>>[1] = x /\ Len(s) \in Nat
  OBVIOUS
<1>2. /\ <<x>> \o s \in Seq(T) /\ Len(<<x>> \o s) = 1 + Len(s)
      /\ \A i \in 1 .. 1 + Len(s) :
            (<<x>> \o s)[i] = IF i <= 1 THEN <<x>>[i] ELSE s[i - 1]
  BY <1>1, ConcatIs
<1>3. \A i \in 1 .. Len(s) : i + 1 \in 1 .. 1 + Len(s) /\ ~ (i + 1 <= 1) /\ (i + 1) - 1 = i
  BY <1>1
<1>4. 1 \in 1 .. 1 + Len(s) /\ 1 + Len(s) = Len(s) + 1
  BY <1>1
<1> QED BY <1>1, <1>2, <1>3, <1>4

\* t is what s has at the places I, in that order.
KeptPlaces(t, s, I) ==
    \E p \in [1 .. Len(t) -> I] :
        /\ Range(p) = I
        /\ \A i, j \in 1 .. Len(t) : i < j => p[i] < p[j]
        /\ \A i \in 1 .. Len(t) : t[i] = s[p[i]]

\* The places of the files that a merge leaves.
Unmerged == {i \in DOMAIN sst_files : sst_files[i] \notin Range(merger.inputs)}

\* What stays of a list keeps its order.
LEMMA RetainedProps ==
    ASSUME ByInduction, NEW T, NEW s \in Seq(T), NEW I, I \subseteq DOMAIN s, NEW t \in Retained(s, I)
    PROVE  t \in Seq(T) /\ KeptPlaces(t, s, I)
<1> DEFINE n == Cardinality(I)
<1>1. DOMAIN s = 1 .. Len(s) /\ Len(s) \in Nat
  BY SeqIs
<1>2. n \in Nat
  <2>1. IsFiniteSet(1 .. Len(s))
    BY <1>1, FiniteInterval
  <2>2. IsFiniteSet(I)
    BY <1>1, <2>1, FiniteSubset
  <2> QED BY <2>2 DEF ByInduction
<1>3. PICK p \in Ascending(I) : t = [i \in DOMAIN p |-> s[p[i]]]
  BY DEF Retained
<1>4. p \in [1 .. n -> I] /\ Range(p) = I /\ \A i, j \in DOMAIN p : i < j => p[i] < p[j]
  BY <1>3 DEF Ascending, Orders
<1> HIDE DEF n
<1>5. t = [i \in 1 .. n |-> s[p[i]]] /\ \A i \in 1 .. n : s[p[i]] \in T
  BY <1>1, <1>3, <1>4
<1>6. t \in Seq(T) /\ Len(t) = n
  BY <1>2, <1>5
<1>7. \A i \in 1 .. n : t[i] = s[p[i]]
  BY <1>5
<1>8. \A i, j \in 1 .. n : i < j => p[i] < p[j]
  BY <1>4
<1> QED BY <1>4, <1>6, <1>7, <1>8 DEF n, KeptPlaces

\* A merge keeps the newest version of each key.
LEMMA MergeKeepsNewest ==
    ASSUME ByInduction, NEW E \in SUBSET Entry
    PROVE  MergeEntries(E) \subseteq E /\ Covers(MergeEntries(E), E)
<1>1. MergeEntries(E) \subseteq E
  BY DEF MergeEntries
<1> SUFFICES ASSUME NEW c \in E
             PROVE  \E g \in MergeEntries(E) : g[1] = c[1] /\ c[2] <= g[2]
  BY <1>1 DEF Covers
<1> DEFINE V == {e[2] : e \in {x \in E : x[1] = c[1]}}
<1>2. V \subseteq 0 .. MaxVersion /\ c[2] \in V
  BY EntryType, VersionType
<1> HIDE DEF V
<1>3. Max(V) \in V /\ \A y \in V : Max(V) >= y
  BY <1>2, VersionType, MaxIsMember
<1>4. PICK g \in E : g[1] = c[1] /\ g[2] = Max(V)
  BY <1>3 DEF V
<1>5. \A x \in E : x[1] = g[1] => ~ (x[2] > g[2])
  <2> TAKE x \in E
  <2> HAVE x[1] = g[1]
  <2>1. x[2] \in V /\ x[2] \in Nat /\ g[2] \in Nat
    BY <1>4, EntryType, VersionType DEF V
  <2> QED BY <1>3, <1>4, <2>1
<1>6. g \in MergeEntries(E)
  BY <1>5 DEF MergeEntries
<1>7. c[2] <= g[2]
  <2>1. c[2] \in Nat /\ g[2] \in Nat
    BY EntryType, VersionType
  <2> QED BY <1>2, <1>3, <1>4, <2>1
<1> QED BY <1>4, <1>6, <1>7

\* MaxEntryVersion is an upper bound that one of the entries has.
LEMMA MaxVersionOf ==
    ASSUME ByInduction, NEW E \in SUBSET Entry
    PROVE  LET m == MaxEntryVersion(E)
           IN  /\ m \in Nat /\ \A e \in E : e[2] \in Nat /\ e[2] <= m
               /\ m = 0 \/ \E e \in E : e[2] = m
<1> DEFINE S == {e[2] : e \in E} \cup {0}
<1>1. MaxVersion \in Nat /\ \A e \in E : e[2] \in 1 .. MaxVersion
  BY EntryType, VersionType
<1>2. S \subseteq 0 .. MaxVersion /\ S /= {} /\ \A e \in E : e[2] \in S
  BY <1>1
<1>3. \A x \in S : x = 0 \/ \E e \in E : e[2] = x
  OBVIOUS
<1> HIDE DEF S
<1>4. Max(S) \in S /\ \A y \in S : Max(S) >= y
  BY <1>1, <1>2, MaxIsMember
<1> DEFINE m == Max(S)
<1> HIDE DEF m
<1>5. m \in Nat /\ \A e \in E : e[2] \in Nat /\ e[2] <= m
  <2>1. m \in S /\ \A y \in S : m >= y
    BY <1>4 DEF m
  <2>2. m \in Nat /\ \A e \in E : e[2] \in Nat
    BY <1>1, <1>2, <2>1
  <2>3. \A e \in E : m >= e[2]
    BY <1>2, <2>1
  <2> QED BY <2>2, <2>3
<1>6. MaxEntryVersion(E) = m
  BY DEF MaxEntryVersion, MaxOf, m, S
<1> QED BY <1>3, <1>4, <1>5, <1>6 DEF m

\* The list open makes of the files on disk.
LEMMA Sorted ==
    ASSUME ByInduction, NEW S \in SUBSET File, IsFiniteSet(S), \A f, g \in S : f.id = g.id => f = g,
           NEW s \in SortSsts(S)
    PROVE  /\ s \in Seq(File) /\ Range(s) = S
           /\ \A i, j \in DOMAIN s : i /= j => s[i].id /= s[j].id
           /\ \A i, j \in DOMAIN s : i < j => Below(s[i].entries, s[j].entries)
<1>1. Cardinality(S) \in Nat
  BY DEF ByInduction
<1> DEFINE n == Cardinality(S)
<1>2. s \in [1 .. n -> S] /\ Range(s) = S /\ \A i, j \in DOMAIN s : i < j => Older(s[i], s[j])
  BY DEF SortSsts, Orders
<1> HIDE DEF n
<1>3. n \in Nat /\ DOMAIN s = 1 .. n /\ \A i \in 1 .. n : s[i] \in S /\ s[i] \in File
  BY <1>1, <1>2 DEF n
<1>4. s \in Seq(File)
  BY <1>2, <1>3
<1>5. \A f \in File : /\ f.id \in Nat /\ f.entries \in SUBSET Entry
                      /\ MaxEntryVersion(f.entries) \in Nat
  BY MaxVersionOf DEF File
<1>6. \A f \in File : ~ Older(f, f)
  BY <1>5 DEF Older
<1>7. \A i, j \in 1 .. n : i < j => s[i].id /= s[j].id
  BY <1>2, <1>3, <1>6
<1>8. \A i, j \in 1 .. n : i /= j => s[i].id /= s[j].id
  <2>1. \A i, j \in 1 .. n : i /= j => i < j \/ j < i
    BY <1>3
  <2> QED BY <1>7, <2>1
<1>9. ASSUME NEW i \in 1 .. n, NEW j \in 1 .. n, i < j
      PROVE  Below(s[i].entries, s[j].entries)
  <2> SUFFICES ASSUME NEW a \in s[i].entries, NEW b \in s[j].entries
               PROVE  \E f \in s[j].entries : a[2] <= f[2]
    BY DEF Below
  <2> DEFINE mi == MaxEntryVersion(s[i].entries)
             mj == MaxEntryVersion(s[j].entries)
  <2>1. s[i].entries \in SUBSET Entry /\ s[j].entries \in SUBSET Entry
    BY <1>3, <1>5
  <2>2. mi \in Nat /\ mj \in Nat /\ a[2] \in Nat /\ a[2] <= mi /\ b[2] <= mj
        /\ (mj = 0 \/ \E f \in s[j].entries : f[2] = mj)
    BY <2>1, MaxVersionOf
  <2>3. mi <= mj
    <3>1. Older(s[i], s[j])
      BY <1>2, <1>3, <1>9
    <3>2. mi < mj \/ mi = mj
      BY <3>1, Zenon DEF Older
    <3> HIDE DEF mi, mj
    <3> QED BY <2>2, <3>2
  <2>4. b[2] \in Nat /\ b[2] > 0
    BY <2>1, EntryType, VersionType
  <2> HIDE DEF mi, mj
  <2>5. mj /= 0
    BY <2>2, <2>4
  <2>6. PICK f \in s[j].entries : f[2] = mj
    BY <2>2, <2>5
  <2> QED BY <2>2, <2>3, <2>6
<1> QED BY <1>2, <1>3, <1>4, <1>8, <1>9

-----------------------------------------------------------------------------
(* The layers a read searches.                                             *)

\* The layers of a read, newest first.
LEMMA LayerAt ==
    ASSUME NEW mem \in SUBSET Entry, NEW imms \in Seq(SUBSET Entry), NEW ssts \in Seq(File)
    PROVE  LET L == Layers(mem, imms, ssts) IN
           /\ L \in Seq(SUBSET Entry)
           /\ Len(L) = 1 + Len(imms) + Len(ssts)
           /\ L[1] = mem
           /\ \A i \in 1 .. Len(imms) : L[1 + i] = imms[Len(imms) + 1 - i]
           /\ \A i \in 1 .. Len(ssts) : L[1 + Len(imms) + i] = ssts[Len(ssts) + 1 - i].entries
<1> DEFINE a == Len(imms)
           b == Len(ssts)
           N == NewestFirst(imms)
           S == NewestFirst(EntriesOf(ssts))
           L == Layers(mem, imms, ssts)
<1>0. a \in Nat /\ b \in Nat
  OBVIOUS
<1>1. N \in Seq(SUBSET Entry) /\ Len(N) = a /\ \A i \in 1 .. a : N[i] = imms[a + 1 - i]
  <2>1. DOMAIN imms = 1 .. a /\ \A i \in 1 .. a : a + 1 - i \in 1 .. a
    BY <1>0
  <2>2. N = [i \in 1 .. a |-> imms[a + 1 - i]]
    BY <2>1 DEF NewestFirst
  <2>3. \A i \in 1 .. a : imms[a + 1 - i] \in SUBSET Entry
    BY <2>1
  <2> QED BY <1>0, <2>2, <2>3
<1>2. /\ S \in Seq(SUBSET Entry) /\ Len(S) = b
      /\ \A i \in 1 .. b : S[i] = ssts[b + 1 - i].entries
  <2>1. DOMAIN ssts = 1 .. b /\ \A i \in 1 .. b : b + 1 - i \in 1 .. b
    BY <1>0
  <2>2. EntriesOf(ssts) = [i \in 1 .. b |-> ssts[i].entries]
    BY <2>1 DEF EntriesOf
  <2>3. \A i \in 1 .. b : ssts[i].entries \in SUBSET Entry
    <3>1. \A i \in 1 .. b : ssts[i] \in File
      BY SeqIs
    <3> QED BY <3>1 DEF File
  <2>4. EntriesOf(ssts) \in Seq(SUBSET Entry) /\ Len(EntriesOf(ssts)) = b
    BY <1>0, <2>2, <2>3
  <2>5. S = [i \in 1 .. b |-> ssts[b + 1 - i].entries]
    <3>1. S = [i \in 1 .. b |-> EntriesOf(ssts)[b + 1 - i]]
      BY <2>2, <2>4 DEF NewestFirst
    <3>2. \A i \in 1 .. b : EntriesOf(ssts)[b + 1 - i] = ssts[b + 1 - i].entries
      BY <2>1, <2>2
    <3> QED BY <3>1, <3>2
  <2>6. \A i \in 1 .. b : ssts[b + 1 - i].entries \in SUBSET Entry
    BY <2>1, <2>3
  <2> QED BY <1>0, <2>5, <2>6
<1>3. L = <<mem>> \o N \o S
  BY DEF Layers
<1> HIDE DEF N, S, L, a, b
<1>4. <<mem>> \in Seq(SUBSET Entry) /\ Len(<<mem>>) = 1 /\ <<mem>>[1] = mem
  OBVIOUS
<1>5. /\ <<mem>> \o N \in Seq(SUBSET Entry) /\ Len(<<mem>> \o N) = 1 + a
      /\ (<<mem>> \o N)[1] = mem /\ \A i \in 1 .. a : (<<mem>> \o N)[1 + i] = N[i]
  BY <1>0, <1>1, <1>4, ConcatIs
<1>6. /\ L \in Seq(SUBSET Entry) /\ Len(L) = 1 + a + b
      /\ \A i \in 1 .. 1 + a : L[i] = (<<mem>> \o N)[i]
      /\ \A i \in 1 .. b : L[1 + a + i] = S[i]
  <2> DEFINE M == <<mem>> \o N
  <2>1. M \in Seq(SUBSET Entry) /\ Len(M) = 1 + a /\ L = M \o S
    BY <1>3, <1>5
  <2> HIDE DEF M
  <2>2. /\ M \o S \in Seq(SUBSET Entry) /\ Len(M \o S) = 1 + a + b
        /\ \A i \in 1 .. 1 + a : (M \o S)[i] = M[i]
        /\ \A i \in 1 .. b : (M \o S)[1 + a + i] = S[i]
    <3>1. /\ M \o S \in Seq(SUBSET Entry) /\ Len(M \o S) = Len(M) + Len(S)
          /\ \A i \in 1 .. Len(M) + Len(S) :
                (M \o S)[i] = IF i <= Len(M) THEN M[i] ELSE S[i - Len(M)]
      BY <1>2, <2>1, ConcatIs
    <3>3. \A i \in 1 .. 1 + a : i \in 1 .. 1 + a + b /\ i <= 1 + a
      BY <1>0
    <3>4. Len(S) = b
      BY <1>2
    <3>5. \A i \in 1 .. 1 + a + b :
              (M \o S)[i] = IF i <= 1 + a THEN M[i] ELSE S[i - (1 + a)]
      BY <2>1, <3>1, <3>4
    <3>6. \A i \in 1 .. 1 + a : (M \o S)[i] = M[i]
      BY <3>3, <3>5
    <3>7. \A i \in 1 .. b : (M \o S)[1 + a + i] = S[i]
      <4> TAKE i \in 1 .. b
      <4> DEFINE j == 1 + a + i
      <4>1. j \in 1 .. 1 + a + b /\ ~ (j <= 1 + a) /\ j - (1 + a) = i
        BY <1>0
      <4> HIDE DEF j
      <4>2. (M \o S)[j] = S[i]
        <5>1. (M \o S)[j] = IF j <= 1 + a THEN M[j] ELSE S[j - (1 + a)]
          BY <3>5, <4>1, Zenon
        <5> QED BY <4>1, <5>1
      <4> QED BY <4>2 DEF j
    <3> QED BY <2>1, <3>1, <3>4, <3>6, <3>7
  <2> QED BY <2>1, <2>2 DEF M
<1>7. L[1] = mem /\ \A i \in 1 .. a : L[1 + i] = N[i]
  <2>1. 1 \in 1 .. 1 + a /\ \A i \in 1 .. a : 1 + i \in 1 .. 1 + a
    BY <1>0
  <2> QED BY <1>5, <1>6, <2>1
<1> QED BY <1>1, <1>2, <1>6, <1>7 DEF L, a, b

\* B's newest version of a key both have is at least A's.
Dominates(B, A) ==
    \A a \in A, b \in B : a[1] = b[1] => \E g \in B : g[1] = a[1] /\ a[2] <= g[2]

\* The layers L, newest first, hold parts of C, cover it, and dominate the older ones.
Layered(L, C, snap) ==
    /\ L \in Seq(SUBSET Entry) /\ C \in SUBSET Entry /\ snap \in Nat
    /\ \A i \in 1 .. Len(L) : L[i] \subseteq C
    /\ \A c \in C : c[2] <= snap
    /\ \A c \in C : \E i \in 1 .. Len(L) : \E g \in L[i] : g[1] = c[1] /\ c[2] <= g[2]
    /\ \A i, j \in 1 .. Len(L) : i < j => Dominates(L[i], L[j])

\* The newest version of k in C up to snap.
NewestOf(C, k, snap) == MaxOf({e[2] : e \in {x \in C : x[1] = k /\ x[2] <= snap}})

\* Where the newest version of a key is in the newest layer that has the key, the
\* first hit is the newest version.
LEMMA FirstHitNewest ==
    ASSUME ByInduction, NEW L, NEW C, NEW k, NEW snap, Layered(L, C, snap)
    PROVE  FirstHit(L, k, snap) = NewestOf(C, k, snap)
<1> DEFINE T == {e[2] : e \in {x \in C : x[1] = k /\ x[2] <= snap}}
           At(i) == {e[2] : e \in {x \in L[i] : x[1] = k /\ x[2] <= snap}}
           hits == {i \in DOMAIN L : At(i) /= {}}
<1>h. SUFFICES ASSUME L \in Seq(SUBSET Entry), C \in SUBSET Entry, snap \in Nat,
                      \A i \in 1 .. Len(L) : L[i] \subseteq C, \A c \in C : c[2] <= snap,
                      \A c \in C : \E i \in 1 .. Len(L) : \E g \in L[i] :
                          g[1] = c[1] /\ c[2] <= g[2],
                      \A i, j \in 1 .. Len(L) : i < j => Dominates(L[i], L[j])
               PROVE  FirstHit(L, k, snap) = MaxOf(T)
  BY Zenon DEF Layered, NewestOf
<1>0. Len(L) \in Nat /\ DOMAIN L = 1 .. Len(L) /\ MaxVersion \in Nat
  BY <1>h, VersionType
<1>1. FirstHit(L, k, snap) = IF hits = {} THEN 0 ELSE Max(At(Min(hits)))
  BY DEF FirstHit
<1>2. MaxOf(T) = Max(T \cup {0})
  BY DEF MaxOf
<1>3. \A i \in 1 .. Len(L) : At(i) \subseteq T /\ At(i) \subseteq 0 .. MaxVersion
  <2>1. \A e \in C : e[2] \in 0 .. MaxVersion
    BY <1>h, EntryType, <1>0
  <2> QED BY <1>h, <1>0, <2>1
<1>4. \A v \in T : \E i \in hits : \E u \in At(i) : v <= u
  <2> SUFFICES ASSUME NEW c \in C, c[1] = k
               PROVE  \E i \in hits : \E u \in At(i) : c[2] <= u
    OBVIOUS
  <2>1. PICK i \in 1 .. Len(L) : \E g \in L[i] : g[1] = c[1] /\ c[2] <= g[2]
    BY <1>h
  <2>2. PICK g \in L[i] : g[1] = c[1] /\ c[2] <= g[2]
    BY <2>1
  <2>3. g[2] \in At(i)
    BY <1>h, <2>2
  <2> QED BY <1>0, <2>2, <2>3
<1>5. \A i, j \in 1 .. Len(L) : i < j /\ At(i) /= {} =>
          \A u \in At(j) : \E v \in At(i) : u <= v
  <2> SUFFICES ASSUME NEW i \in 1 .. Len(L), NEW j \in 1 .. Len(L), i < j, At(i) /= {},
                      NEW u \in At(j)
               PROVE  \E v \in At(i) : u <= v
    BY Zenon
  <2>0. Dominates(L[i], L[j])
    BY <1>h
  <2>1. PICK a \in L[j] : a[1] = k /\ a[2] = u
    OBVIOUS
  <2>2. PICK b \in L[i] : b[1] = k
    OBVIOUS
  <2>3. PICK g \in L[i] : g[1] = a[1] /\ a[2] <= g[2]
    BY <2>0, <2>1, <2>2, Zenon DEF Dominates
  <2>4. g[2] \in At(i)
    BY <1>h, <2>1, <2>3
  <2> QED BY <2>1, <2>3, <2>4
<1>6. T \subseteq 0 .. MaxVersion
  <2>1. \A e \in C : e[2] \in 0 .. MaxVersion
    BY <1>h, EntryType, <1>0
  <2> QED BY <1>h, <1>0, <2>1
<1> HIDE DEF T, At
<1>7. CASE hits = {}
  <2>1. T = {}
    BY <1>4, <1>7
  <2>2. T \cup {0} = {0}
    BY <2>1
  <2>3. Max({0}) = 0
    <3>1. {0} \subseteq Int /\ 0 \in {0} /\ \A y \in {0} : 0 >= y
      OBVIOUS
    <3> QED BY <3>1, MaxIs, Zenon
  <2>4. FirstHit(L, k, snap) = 0
    BY <1>1, <1>7, Zenon
  <2> QED BY <1>2, <2>2, <2>3, <2>4, Zenon
<1>8. CASE hits /= {}
  <2> DEFINE m == Min(hits)
             n == Max(At(m))
  <2>1. m \in hits /\ \A y \in hits : m <= y
    <3> DEFINE H == hits
    <3>1. H \subseteq Nat /\ H /= {}
      BY <1>0, <1>8
    <3> HIDE DEF H
    <3>2. Min(H) \in H /\ \A y \in H : Min(H) <= y
      BY <3>1, MinIsMember
    <3> QED BY <3>2 DEF H
  <2> HIDE DEF m
  <2>2. m \in 1 .. Len(L) /\ At(m) /= {}
    BY <1>0, <2>1
  <2>3. n \in At(m) /\ \A y \in At(m) : n >= y
    BY <1>0, <1>3, <2>2, MaxIsMember
  <2> HIDE DEF n
  <2>4. \A v \in T : n >= v
    <3> SUFFICES ASSUME NEW v \in T PROVE n >= v
      OBVIOUS
    <3>1. PICK i \in hits : \E u \in At(i) : v <= u
      BY <1>4
    <3>2. PICK u \in At(i) : v <= u
      BY <3>1
    <3>3. i \in 1 .. Len(L) /\ m <= i
      BY <1>0, <2>1
    <3>4. \E x \in At(m) : u <= x
      <4>1. CASE i = m
        <5>1. u \in 0 .. MaxVersion
          BY <1>3, <3>3
        <5> QED BY <4>1, <5>1, <1>0
      <4>2. CASE i /= m
        BY <4>2, <1>0, <1>5, <2>2, <3>3
      <4> QED BY <4>1, <4>2
    <3>5. PICK x \in At(m) : u <= x
      BY <3>4
    <3>6. n >= x /\ x \in Nat /\ u \in Nat /\ v \in Nat /\ n \in Nat
      BY <1>0, <1>3, <1>6, <2>2, <2>3, <3>3
    <3> QED BY <3>2, <3>5, <3>6
  <2>5. n \in T /\ n \in Nat
    BY <1>0, <1>3, <2>2, <2>3
  <2>6. Max(T \cup {0}) = n
    <3>1. T \cup {0} \subseteq Int /\ n \in T \cup {0}
      BY <1>0, <1>6, <2>5
    <3>2. \A y \in T \cup {0} : n >= y
      BY <2>4, <2>5
    <3> QED BY <3>1, <3>2, MaxIs, Zenon
  <2>7. FirstHit(L, k, snap) = n
    BY <1>1, <1>8, Zenon DEF m, n
  <2> QED BY <1>2, <2>6, <2>7, Zenon
<1> QED BY <1>7, <1>8
=============================================================================
