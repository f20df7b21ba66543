----------------------------- MODULE LsmProofs ------------------------------
(***************************************************************************)
(* The theorems about Lsm: every step keeps the invariant of LsmFacts,     *)
(* so a read at the visible version finds the newest committed version of  *)
(* every key (LatestReadable), and a crash takes back no published version *)
(* (PublishedDurable).                                                     *)
(***************************************************************************)
EXTENDS LsmFacts

-----------------------------------------------------------------------------
(* What a step leaves alone.                                               *)

\* A fault stays recorded, so the state before an undamaged one is undamaged.
LEMMA UndamagedBefore ==
    ASSUME failed \subseteq failed', conf' = conf, Undamaged'
    PROVE  Undamaged
BY DEF Undamaged

\* A step that moves no file and no id keeps what holds of them.
LEMMA IdsKept ==
    ASSUME Ids, UNCHANGED <<sst_disk, next_sst_id, sst_files, flusher, merger>>
    PROVE  Ids'
BY DEF Ids

\* The next file's id is above all others.
LEMMA NextId ==
    ASSUME Types, Ids
    PROVE  /\ \A f \in sst_disk : f.id < next_sst_id + 1 /\ f.id /= next_sst_id
           /\ merger.pc = "swapped" =>
                 \A f \in Range(merger.inputs) : f.id < next_sst_id + 1 /\ f.id /= next_sst_id
<1>1. next_sst_id \in Nat /\ \A f \in sst_disk : f.id \in Nat
  BY DEF Types, File
<1>2. \A f \in Range(merger.inputs) : f.id \in Nat
  <2>1. merger.inputs \in Seq(File)
    BY DEF Types, MergerType
  <2>2. Range(merger.inputs) \subseteq File
    BY <2>1 DEF Range
  <2> QED BY <2>2 DEF File
<1> QED BY <1>1, <1>2 DEF Ids

\* A step that leaves the log, the files and the batch alone keeps the logs good.
LEMMA LogsKept ==
    ASSUME Types, Types', GoodLogs,
           UNCHANGED <<wal, disk_wal, committer, conf, committed, next_version>>,
           mode = "down" => mode' = "down",
           Covers(Ents(sst_disk'), Ents(sst_disk))
    PROVE  GoodLogs'
<1> SUFFICES ASSUME NEW w \in Survivors(Worst)
             PROVE  GoodLog(w, Ents(sst_disk'), committed, Pending, mode' = "down")
  <2>1. Survivors(Worst)' = Survivors(Worst)
    BY SurvivorsKept
  <2>2. Pending' = Pending
    BY DEF Pending
  <2> QED BY <2>1, <2>2, Zenon DEF GoodLogs
<1>2. GoodLog(w, Ents(sst_disk), committed, Pending, mode = "down")
  BY Zenon DEF GoodLogs
<1>3. Ents(sst_disk) \in SUBSET Entry /\ Ents(sst_disk') \in SUBSET Entry
      /\ committed \in SUBSET Entry
  BY EntsType DEF Types
<1> QED BY <1>2, <1>3, GoodLogKept

\* The log part of the invariant when a step leaves the log and the commits alone.
LEMMA LogKept ==
    ASSUME Types, Types', LogInv, mode /= "down", mode' /= "down",
           UNCHANGED <<wal, disk_wal, committer, conf, committed, next_version>>,
           Covers(Ents(sst_disk'), Ents(sst_disk)),
           mode' = "up" /\ flusher'.pc /= "truncated" => mode = "up" /\ flusher.pc /= "truncated",
           mode' = "converting" /\ flusher'.pc = "idle" => active' /= {}
    PROVE  LogInv'
<1>1. GoodLogs'
  BY LogsKept DEF LogInv
<1>2. Pending' = Pending
  BY DEF Pending
<1> QED BY <1>1, <1>2 DEF LogInv

\* Snapshots of readers are not part of what is promised here.
LEMMA Frame ==
    ASSUME LsmInv,
           UNCHANGED <<wal, disk_wal, sst_disk, mode, active, immutables, sst_files,
                       next_version, visible_version, next_sst_id, committer, flusher,
                       merger, conf, failed, committed>>
    PROVE  LsmInv'
<1>1. Types'
  BY DEF LsmInv, Types
<1>2. Control'
  BY DEF LsmInv, Control
<1>3. Ids'
  BY IdsKept DEF LsmInv
<1>4. ASSUME Undamaged' PROVE Sound'
  <2>1. Sound
    BY <1>4 DEF Undamaged, LsmInv
  <2>2. DiskInv'
    BY <2>1 DEF Sound, DiskInv
  <2>3. mode' /= "down" => MemInv' /\ MergeInv'
    BY <2>1 DEF Sound, MemInv, MergeInv, Registered, Flushed, Staged
  <2>4. LogInv'
    <3>1. GoodLogs'
      BY <2>1, SurvivorsKept DEF Sound, LogInv, GoodLogs, Pending
    <3> QED BY <2>1, <3>1 DEF Sound, LogInv, Pending
  <2> QED BY <2>2, <2>3, <2>4 DEF Sound
<1> QED BY <1>1, <1>2, <1>3, <1>4 DEF LsmInv

\* The files are the same.
LEMMA SameCover ==
    ASSUME Types, sst_disk' = sst_disk
    PROVE  Covers(Ents(sst_disk'), Ents(sst_disk))
BY EntsType, CoversSelf DEF Types

-----------------------------------------------------------------------------
(* Flush, and the files of a backup.                                       *)

\* A flush at rest has the flusher's type.
LEMMA IdleFlusherType ==
    /\ IdleFlusher \in FlusherType /\ NoFile \in File
    /\ IdleFlusher.pc = "idle" /\ IdleFlusher.old = {} /\ IdleFlusher.snap = FALSE
BY DEF IdleFlusher, FlusherType, NoFile, File

\* A flusher that is about to link a snapshot.
LEMMA LinkingType ==
    LET l == [IdleFlusher EXCEPT !.pc = "linking"]
    IN  l \in FlusherType /\ l.pc = "linking" /\ l.old = {}
BY IdleFlusherType DEF FlusherType

\* A step of the flusher.
LEMMA FlusherStep ==
    ASSUME NEW f \in FlusherType, NEW pc \in {"rotated", "staged", "written", "registered",
                                              "unstaged", "truncated"}
    PROVE  LET g == [f EXCEPT !.pc = pc]
           IN  g \in FlusherType /\ g.pc = pc /\ g.old = f.old /\ g.sst = f.sst
BY DEF FlusherType

\* SstWriter failing in a flush: the memtable stays staged in memory only.
LEMMA FlushWriteFailsKeeps == ASSUME LsmInv, FlushWriteFails PROVE LsmInv'
<1> USE DEF FlushWriteFails, Fails, memVars, diskVars
<1>1. Types'
  <2>1. IdleFlusher \in FlusherType
    BY DEF IdleFlusher, NoFile, File, FlusherType
  <2>2. next_sst_id' \in Nat
    BY DEF LsmInv, Types
  <2> QED BY <2>1, <2>2 DEF LsmInv, Types
<1>2. Control'
  <2>1. IdleFlusher.pc = "idle" /\ IdleFlusher.old = {}
    BY DEF IdleFlusher
  <2>2. committer.pc \in {"idle", "appending"} /\ mode \in {"down", "converting", "up"}
    BY DEF LsmInv, Types
  <2>3. committer.pc = "idle"
    BY <2>1, <2>2 DEF LsmInv, Control
  <2> QED BY <2>1, <2>2, <2>3 DEF LsmInv, Control
<1>3. Ids'
  <2>1. /\ \A f \in sst_disk : f.id < next_sst_id'
        /\ merger.pc = "swapped" => \A f \in Range(merger.inputs) : f.id < next_sst_id'
    BY NextId DEF LsmInv
  <2> QED BY <2>1 DEF LsmInv, Ids, IdleFlusher
<1>4. ~ Undamaged'
  BY DEF Undamaged
<1> QED BY <1>1, <1>2, <1>3, <1>4 DEF LsmInv

\* Taking the active memtable: it is the flusher's from here on.
LEMMA FlushRotateKeeps ==
    ASSUME LsmInv, NEW snap \in BOOLEAN, FlushRotate(snap) PROVE LsmInv'
<1> USE DEF FlushRotate, diskVars, clockVars, ghostVars
<1>0. /\ flusher'.pc = "rotated" /\ flusher'.old = active /\ flusher' \in FlusherType
      /\ flusher.old = {} /\ mode /= "down"
  <2>1. active \in SUBSET Entry
    BY DEF LsmInv, Types
  <2>2. flusher' = [pc |-> "rotated", old |-> active, sst |-> NoFile, snap |-> snap]
    BY DEF IdleFlusher
  <2> QED BY <2>1, <2>2, IdleFlusherType DEF FlusherType, LsmInv, Control
<1>1. Types'
  BY <1>0 DEF LsmInv, Types
<1>2. Control'
  BY <1>0 DEF LsmInv, Control
<1>3. Ids'
  BY <1>0 DEF LsmInv, Ids
<1>4. ASSUME Undamaged' PROVE Sound'
  <2>1. Sound
    BY <1>4 DEF Undamaged, LsmInv
  <2>2. DiskInv'
    BY <2>1 DEF Sound, DiskInv
  <2>3. MemInv'
    <3>1. MemInv
      BY <1>0, <2>1 DEF Sound
    <3>2. Suffix({}, committed)
      BY DEF Suffix
    <3>3. immutables' = <<>> /\ ~ Staged' /\ ~ Flushed'
      BY <1>0, <3>1 DEF MemInv, Staged, Flushed
    <3>4. Registered' = Registered
      BY DEF Registered
    <3>5. Covers(Registered \cup active \cup {}, committed)
      BY <1>0, <3>1 DEF MemInv
    <3> QED BY <1>0, <3>1, <3>2, <3>3, <3>4, <3>5 DEF MemInv
  <2>4. MergeInv'
    BY <1>0, <2>1 DEF Sound, MergeInv
  <2>5. LogInv'
    BY <1>0, <1>1, <2>1, LogKept, SameCover DEF LsmInv, Sound
  <2> QED BY <2>2, <2>3, <2>4, <2>5 DEF Sound
<1> QED BY <1>1, <1>2, <1>3, <1>4 DEF LsmInv

\* A flush that finds nothing to write.
LEMMA FlushEmptyKeeps ==
    ASSUME LsmInv, NEW snap \in BOOLEAN, FlushEmpty(snap) PROVE LsmInv'
<1> USE DEF FlushEmpty, diskVars, clockVars, ghostVars, memVars
<1>0. /\ flusher'.pc \in {"idle", "linking"} /\ flusher'.old = {} /\ flusher' \in FlusherType
      /\ flusher.old = {} /\ mode /= "down"
  BY LinkingType, IdleFlusherType DEF LsmInv, Control
<1>1. Types'
  BY <1>0 DEF LsmInv, Types
<1>2. Control'
  BY <1>0 DEF LsmInv, Control
<1>3. Ids'
  BY <1>0 DEF LsmInv, Ids
<1>4. ASSUME Undamaged' PROVE Sound'
  <2>1. Sound
    BY <1>4 DEF Undamaged, LsmInv
  <2>0. mode = "up"
    BY <2>1 DEF Sound, LogInv
  <2>2. DiskInv'
    BY <2>1 DEF Sound, DiskInv
  <2>3. MemInv'
    <3>1. MemInv
      BY <1>0, <2>1 DEF Sound
    <3>3. immutables' = <<>> /\ ~ Staged' /\ ~ Flushed'
      BY <1>0, <3>1 DEF MemInv, Staged, Flushed
    <3>4. Registered' = Registered
      BY DEF Registered
    <3> QED BY <1>0, <3>1, <3>3, <3>4 DEF MemInv
  <2>4. MergeInv'
    BY <1>0, <2>1 DEF Sound, MergeInv
  <2>5. LogInv'
    BY <1>0, <1>1, <2>0, <2>1, LogKept, SameCover DEF LsmInv, Sound
  <2> QED BY <2>2, <2>3, <2>4, <2>5 DEF Sound
<1> QED BY <1>1, <1>2, <1>3, <1>4 DEF LsmInv

\* Pushing the memtable on the immutables.
LEMMA FlushStageKeeps == ASSUME LsmInv, FlushStage PROVE LsmInv'
<1> USE DEF FlushStage, diskVars, clockVars, ghostVars
<1>0. /\ flusher'.pc = "staged" /\ flusher'.old = flusher.old /\ flusher' \in FlusherType
      /\ mode /= "down" /\ active = {} /\ committer.pc = "idle" /\ flusher.old \in SUBSET Entry
  <2>1. flusher \in FlusherType
    BY DEF LsmInv, Types
  <2>2. flusher.old \in SUBSET Entry
    BY <2>1 DEF FlusherType
  <2> QED BY <2>1, <2>2, FlusherStep, IdleFlusherType DEF LsmInv, Types, Control
<1>1. Types'
  BY <1>0 DEF LsmInv, Types
<1>2. Control'
  BY <1>0 DEF LsmInv, Control
<1>3. Ids'
  BY <1>0 DEF LsmInv, Ids
<1>4. ASSUME Undamaged' PROVE Sound'
  <2>1. Sound
    BY <1>4 DEF Undamaged, LsmInv
  <2>2. DiskInv'
    BY <2>1 DEF Sound, DiskInv
  <2>3. MemInv'
    <3>1. MemInv
      BY <1>0, <2>1 DEF Sound
    <3>3. immutables' = <<flusher.old>> /\ Staged' /\ ~ Flushed'
      BY <1>0, <3>1 DEF MemInv, Staged, Flushed
    <3>4. Registered' = Registered
      BY DEF Registered
    <3> QED BY <1>0, <3>1, <3>3, <3>4 DEF MemInv
  <2>4. MergeInv'
    BY <1>0, <2>1 DEF Sound, MergeInv
  <2>5. LogInv'
    BY <1>0, <1>1, <2>1, LogKept, SameCover DEF LsmInv, Sound
  <2> QED BY <2>2, <2>3, <2>4, <2>5 DEF Sound
<1> QED BY <1>1, <1>2, <1>3, <1>4 DEF LsmInv

\* While a flush runs the tree is open, no commit is in progress and the memtable
\* that was rotated in is still empty.
LEMMA Flushing ==
    ASSUME LsmInv, flusher.pc \notin {"idle", "linking"}
    PROVE  /\ flusher \in FlusherType /\ flusher.old \in SUBSET Entry /\ flusher.sst \in File
           /\ mode /= "down" /\ active = {} /\ committer.pc = "idle"
<1>1. flusher \in FlusherType /\ committer.pc \in {"idle", "appending"}
  BY DEF LsmInv, Types
<1>2. flusher.old \in SUBSET Entry /\ flusher.sst \in File
  BY <1>1 DEF FlusherType
<1> QED BY <1>1, <1>2, IdleFlusherType DEF LsmInv, Control

\* The new file on disk holds the newest of what is committed, and is in no list.
LEMMA FlushWriteKeeps == ASSUME LsmInv, FlushWrite PROVE LsmInv'
<1> DEFINE sst == [id |-> next_sst_id, entries |-> flusher.old]
<1> USE DEF FlushWrite, memVars, ghostVars
<1>0. /\ flusher \in FlusherType /\ flusher.old \in SUBSET Entry
      /\ mode /= "down" /\ active = {} /\ committer.pc = "idle"
  BY Flushing
<1>a. /\ sst \in File /\ sst.entries = flusher.old /\ sst.id = next_sst_id
  BY <1>0 DEF LsmInv, Types, File
<1> HIDE DEF sst
<1>b. /\ flusher'.pc = "written" /\ flusher'.old = flusher.old /\ flusher'.sst = sst
      /\ flusher' \in FlusherType
  BY <1>0, <1>a DEF FlusherType, sst
<1>c. sst_disk' = sst_disk \cup {sst} /\ next_sst_id' = next_sst_id + 1
  BY DEF sst
<1>1. Types'
  <2>1. IsFiniteSet(sst_disk')
    <3>1. IsFiniteSet(sst_disk)
      BY DEF LsmInv, Types
    <3>2. IsFiniteSet(sst_disk \cup {sst})
      BY <3>1, FiniteAdd
    <3> QED BY <1>c, <3>2
  <2>2. sst_disk' \subseteq File /\ next_sst_id' \in Nat
    BY <1>a, <1>c DEF LsmInv, Types
  <2> QED BY <1>b, <2>1, <2>2 DEF LsmInv, Types
<1>2. Control'
  BY <1>0, <1>b DEF LsmInv, Control
<1>3. Ids'
  <2>1. /\ \A f \in sst_disk : f.id < next_sst_id' /\ f.id /= sst.id
        /\ merger.pc = "swapped" =>
              \A f \in Range(merger.inputs) : f.id < next_sst_id' /\ f.id /= sst.id
        /\ sst.id < next_sst_id'
    <3>1. next_sst_id \in Nat
      BY DEF LsmInv, Types
    <3> QED BY <1>a, <1>c, <3>1, NextId DEF LsmInv
  <2>2. Ids
    BY DEF LsmInv
  <2>3. sst.id \notin IdsOf(Range(sst_files))
    BY <2>1, <2>2 DEF Ids, IdsOf
  <2>4. merger.pc = "written" => merger.out.id /= sst.id
    BY <2>1, <2>2 DEF Ids
  <2>5. merger.pc = "swapped" => sst.id \notin IdsOf(Range(merger.inputs))
    BY <2>1 DEF IdsOf
  <2>6. \A f, g \in sst_disk' : f.id = g.id => f = g
    BY <1>c, <2>1, <2>2 DEF Ids
  <2> QED BY <1>a, <1>b, <1>c, <2>1, <2>2, <2>3, <2>4, <2>5, <2>6 DEF Ids
<1>4. ASSUME Undamaged' PROVE Sound'
  <2>1. DiskInv /\ MemInv /\ MergeInv /\ LogInv
    BY <1>0, <1>4 DEF Undamaged, LsmInv, Sound
  <2>2. Ents(sst_disk') = Ents(sst_disk) \cup flusher.old
    BY <1>a, <1>c, EntsAdd
  <2>3. DiskInv'
    <3>1. flusher.old \subseteq committed /\ Suffix(flusher.old, committed)
      BY <2>1 DEF MemInv
    <3>2. Complete(flusher.old, committed)
      BY <1>0, <3>1, SuffixComplete DEF LsmInv, Types
    <3>3. Covers(Ents(sst_disk'), committed)
      <4>1. Covers(Registered \cup flusher.old \cup active, committed)
        BY <2>1 DEF MemInv
      <4>2. Registered \subseteq Ents(sst_disk)
        BY DEF LsmInv, Ids, Registered, Ents
      <4>3. Registered \cup flusher.old \cup active \subseteq Ents(sst_disk')
        BY <1>0, <2>2, <4>2
      <4> QED BY <4>1, <4>3, CoversMore
    <3>4. Closed(Ents(sst_disk'), committed)
      BY <3>3, ClosedAll
    <3>5. \A f \in sst_disk' : Complete(f.entries, committed)
      BY <1>a, <1>c, <2>1, <3>2 DEF DiskInv
    <3> QED BY <2>1, <2>2, <3>1, <3>4, <3>5 DEF DiskInv
  <2>4. MemInv'
    <3>1. Registered' = Registered /\ Staged /\ Staged' /\ ~ Flushed'
      BY <1>b DEF Registered, Staged, Flushed
    <3> QED BY <1>b, <2>1, <3>1 DEF MemInv
  <2>5. MergeInv'
    BY <1>b, <2>1 DEF MergeInv
  <2>6. LogInv'
    <3>1. Covers(Ents(sst_disk'), Ents(sst_disk))
      BY <1>1, <2>2, EntsType, CoversSelf DEF Types
    <3> QED BY <1>0, <1>1, <1>b, <2>1, <3>1, LogKept DEF LsmInv
  <2> QED BY <2>3, <2>4, <2>5, <2>6 DEF Sound
<1> QED BY <1>1, <1>2, <1>3, <1>4 DEF LsmInv

\* Pushing the new file behind the others, all of them older, before its memtable
\* goes: from here the files cover what is committed.
LEMMA FlushRegisterKeeps == ASSUME LsmInv, FlushRegister PROVE LsmInv'
<1> USE DEF FlushRegister, diskVars, clockVars, ghostVars
<1> DEFINE sst == flusher.sst
           n == Len(sst_files)
<1>0. /\ flusher \in FlusherType /\ flusher.old \in SUBSET Entry /\ flusher.sst \in File
      /\ mode /= "down" /\ active = {} /\ committer.pc = "idle"
  BY Flushing
<1>a. Types /\ Ids /\ sst_files \in Seq(File)
  BY DEF LsmInv, Types
<1>b. /\ flusher'.pc = "registered" /\ flusher'.old = flusher.old /\ flusher'.sst = flusher.sst
      /\ flusher' \in FlusherType
  BY <1>0, FlusherStep
<1>c. /\ sst_files' \in Seq(File) /\ n \in Nat /\ DOMAIN sst_files = 1 .. n
      /\ DOMAIN sst_files' = 1 .. n + 1 /\ Len(sst_files') = n + 1
      /\ \A i \in 1 .. n : sst_files'[i] = sst_files[i]
      /\ sst_files'[n + 1] = sst
  BY <1>0, <1>a, AppendIs, SeqIs
<1>d. Range(sst_files') = Range(sst_files) \cup {sst}
  BY <1>0, <1>a, RangeAppend
<1>e. sst \in sst_disk /\ sst.entries = flusher.old /\ sst.id \notin IdsOf(Range(sst_files))
  BY <1>a DEF Ids
<1>f. \A i \in 1 .. n + 1 : i \in 1 .. n \/ i = n + 1
  BY <1>c
<1> HIDE DEF n, sst
<1>1. Types'
  BY <1>a, <1>b, <1>c DEF Types
<1>2. Control'
  BY <1>0, <1>b DEF LsmInv, Control
<1>3. Ids'
  <2>1. \A i \in 1 .. n : sst_files[i].id /= sst.id
    BY <1>c, <1>e DEF IdsOf, Range
  <2>2. \A i, j \in DOMAIN sst_files' : i /= j => sst_files'[i].id /= sst_files'[j].id
    <3> SUFFICES ASSUME NEW i \in 1 .. n + 1, NEW j \in 1 .. n + 1, i /= j
                 PROVE  sst_files'[i].id /= sst_files'[j].id
      BY <1>c
    <3>1. CASE i \in 1 .. n /\ j \in 1 .. n
      BY <1>a, <1>c, <3>1 DEF Ids
    <3>2. CASE i = n + 1 /\ j \in 1 .. n
      BY <1>c, <2>1, <3>2
    <3>3. CASE i \in 1 .. n /\ j = n + 1
      BY <1>c, <2>1, <3>3
    <3> QED BY <1>f, <3>1, <3>2, <3>3
  <2>3. Range(sst_files') \subseteq sst_disk
    BY <1>a, <1>d, <1>e DEF Ids
  <2>4. merger.pc \in {"merging", "written"} =>
          /\ Len(merger.inputs) <= Len(sst_files')
          /\ \A i \in DOMAIN merger.inputs : sst_files'[i] = merger.inputs[i]
    <3> SUFFICES ASSUME merger.pc \in {"merging", "written"}
                 PROVE  /\ Len(merger.inputs) <= Len(sst_files')
                        /\ \A i \in DOMAIN merger.inputs : sst_files'[i] = merger.inputs[i]
      OBVIOUS
    <3>1. merger.inputs \in Seq(File)
      BY <1>a DEF Types, MergerType
    <3>2. Len(merger.inputs) <= n /\ \A i \in DOMAIN merger.inputs : sst_files[i] = merger.inputs[i]
      BY <1>a DEF Ids, n
    <3>3. Len(merger.inputs) \in Nat /\ DOMAIN merger.inputs = 1 .. Len(merger.inputs)
      BY <3>1
    <3>4. \A i \in DOMAIN merger.inputs : i \in 1 .. n
      BY <1>c, <3>2, <3>3
    <3>5. Len(merger.inputs) <= n + 1
      BY <1>c, <3>2, <3>3
    <3> QED BY <1>c, <3>2, <3>4, <3>5
  <2>5. merger.pc = "written" => merger.out.id \notin IdsOf(Range(sst_files'))
    BY <1>a, <1>d DEF Ids, IdsOf, sst
  <2>6. merger.pc = "swapped" =>
          /\ merger.out \in Range(sst_files')
          /\ IdsOf(Range(merger.inputs)) \cap IdsOf(Range(sst_files')) = {}
    <3>1. IdsOf(Range(sst_files')) = IdsOf(Range(sst_files)) \cup {sst.id}
      BY <1>d DEF IdsOf
    <3>2. merger.pc = "swapped" => sst.id \notin IdsOf(Range(merger.inputs))
      BY <1>a DEF Ids, sst
    <3>3. merger.pc = "swapped" =>
            /\ merger.out \in Range(sst_files)
            /\ IdsOf(Range(merger.inputs)) \cap IdsOf(Range(sst_files)) = {}
      BY <1>a DEF Ids
    <3> QED BY <1>d, <3>1, <3>2, <3>3
  <2> QED BY <1>a, <1>b, <2>2, <2>3, <2>4, <2>5, <2>6 DEF Ids
<1>4. ASSUME Undamaged' PROVE Sound'
  <2>1. DiskInv /\ MemInv /\ MergeInv /\ LogInv
    BY <1>0, <1>4 DEF Undamaged, LsmInv, Sound
  <2>3. DiskInv'
    BY <2>1 DEF DiskInv
  <2>4. MemInv'
    <3>1. Staged /\ Staged'
      BY <1>b DEF Staged
    <3>2. Registered' = Registered \cup flusher.old
      BY <1>d, <1>e, EntsAdd DEF Registered
    <3>3. Covers(Registered', committed)
      BY <1>0, <2>1, <3>2, CoversMore DEF MemInv
    <3>4. Closed(Registered', committed)
      BY <3>3, ClosedAll
    <3>5. Covers(Registered' \cup flusher.old \cup active, committed)
      BY <3>3, CoversMore
    <3>6. ASSUME NEW i \in DOMAIN sst_files', NEW j \in DOMAIN sst_files', i < j
          PROVE  Below(sst_files'[i].entries, sst_files'[j].entries)
      <4>1. CASE j \in 1 .. n
        <5>1. i \in 1 .. n
          BY <1>c, <3>6, <4>1
        <5> QED BY <1>c, <2>1, <3>6, <4>1, <5>1 DEF MemInv
      <4>2. CASE j = n + 1
        <5>1. i \in 1 .. n
          BY <1>c, <3>6, <4>2
        <5>2. sst_files[i] \in sst_disk
          BY <1>a, <1>c, <5>1 DEF Ids, Range
        <5>3. sst_files[i].entries \subseteq committed
          BY <2>1, <5>2 DEF DiskInv, Ents
        <5>4. Suffix(flusher.old, committed) /\ committed \in SUBSET Entry
          BY <1>a, <2>1 DEF MemInv, Types
        <5>5. Below(sst_files[i].entries, flusher.old)
          BY <1>0, <5>3, <5>4, BelowSuffix
        <5> QED BY <1>c, <1>e, <4>2, <5>1, <5>5
      <4> QED BY <1>c, <1>f, <4>1, <4>2
    <3> QED BY <1>b, <2>1, <3>1, <3>3, <3>4, <3>5, <3>6 DEF MemInv
  <2>5. MergeInv'
    BY <2>1 DEF MergeInv
  <2>6. LogInv'
    BY <1>0, <1>1, <1>a, <1>b, <2>1, SameCover, LogKept
  <2> QED BY <2>3, <2>4, <2>5, <2>6 DEF Sound
<1> QED BY <1>1, <1>2, <1>3, <1>4 DEF LsmInv

\* Linking the files of a backup changes no file.
LEMMA SnapshotLinkKeeps == ASSUME LsmInv, SnapshotLink PROVE LsmInv'
<1> USE DEF SnapshotLink, diskVars, memVars, clockVars, ghostVars
<1>a. Types /\ Ids /\ flusher.old = {} /\ mode = "up"
  BY IdleFlusherType DEF LsmInv, Control
<1>b. flusher'.pc = "idle" /\ flusher'.old = {} /\ flusher' \in FlusherType
  BY IdleFlusherType
<1>1. Types'
  BY <1>a, <1>b DEF Types
<1>2. Control'
  BY <1>a, <1>b DEF LsmInv, Control
<1>3. Ids'
  BY <1>a, <1>b DEF Ids
<1>4. ASSUME Undamaged' PROVE Sound'
  <2>1. DiskInv /\ MemInv /\ MergeInv /\ LogInv
    BY <1>a, <1>4 DEF Undamaged, LsmInv, Sound
  <2>3. DiskInv'
    BY <2>1 DEF DiskInv
  <2>4. MemInv'
    <3>1. ~ Staged /\ ~ Staged' /\ ~ Flushed' /\ Registered' = Registered
      BY <1>b DEF Staged, Flushed, Registered
    <3> QED BY <1>a, <1>b, <2>1, <3>1 DEF MemInv
  <2>5. MergeInv'
    BY <2>1 DEF MergeInv
  <2>6. LogInv'
    BY <1>a, <1>1, <1>b, <2>1, SameCover, LogKept
  <2> QED BY <2>3, <2>4, <2>5, <2>6 DEF Sound
<1> QED BY <1>1, <1>2, <1>3, <1>4 DEF LsmInv

\* Dropping the memtable from the immutables, its file being registered.
LEMMA FlushUnstageKeeps == ASSUME ByInduction, LsmInv, FlushUnstage PROVE LsmInv'
<1> USE DEF FlushUnstage, diskVars, clockVars, ghostVars
<1> DEFINE I == {i \in DOMAIN immutables : immutables[i] /= flusher.old}
<1>0. /\ flusher \in FlusherType /\ flusher.old \in SUBSET Entry
      /\ mode /= "down" /\ active = {} /\ committer.pc = "idle"
  BY Flushing
<1>a. Types /\ Ids /\ immutables \in Seq(SUBSET Entry)
  BY DEF LsmInv, Types
<1>b. /\ flusher'.pc = "unstaged" /\ flusher'.old = flusher.old /\ flusher'.sst = flusher.sst
      /\ flusher' \in FlusherType
  BY <1>0, FlusherStep
<1>c. I \subseteq DOMAIN immutables /\ immutables' \in Retained(immutables, I)
  OBVIOUS
<1> HIDE DEF I
<1>d. immutables' \in Seq(SUBSET Entry) /\ KeptPlaces(immutables', immutables, I)
  BY <1>a, <1>c, RetainedProps
<1>1. Types'
  BY <1>a, <1>b, <1>d DEF Types
<1>2. Control'
  BY <1>0, <1>b DEF LsmInv, Control
<1>3. Ids'
  BY <1>a, <1>b DEF Ids
<1>4. ASSUME Undamaged' PROVE Sound'
  <2>1. DiskInv /\ MemInv /\ MergeInv /\ LogInv
    BY <1>0, <1>4 DEF Undamaged, LsmInv, Sound
  <2>3. DiskInv'
    BY <2>1 DEF DiskInv
  <2>4. MemInv'
    <3>1. Staged /\ ~ Staged' /\ Flushed /\ Registered' = Registered
      BY <1>b DEF Staged, Flushed, Registered
    <3>2. immutables = <<flusher.old>>
      BY <2>1, <3>1 DEF MemInv
    <3>3. I = {}
      BY <3>2 DEF I
    <3>4. Len(immutables') = 0
      <4>1. PICK p : p \in [1 .. Len(immutables') -> I]
        BY <1>d DEF KeptPlaces
      <4>2. p \in [1 .. Len(immutables') -> {}]
        BY <3>3, <4>1
      <4>3. Len(immutables') \in Nat
        BY <1>d, SeqIs
      <4> QED BY <4>2, <4>3, NoPlaces
    <3>5. immutables' = <<>>
      BY <1>d, <3>4
    <3> QED BY <1>b, <2>1, <3>1, <3>5 DEF MemInv
  <2>5. MergeInv'
    BY <2>1 DEF MergeInv
  <2>6. LogInv'
    BY <1>0, <1>1, <1>a, <1>b, <2>1, SameCover, LogKept
  <2> QED BY <2>3, <2>4, <2>5, <2>6 DEF Sound
<1> QED BY <1>1, <1>2, <1>3, <1>4 DEF LsmInv

-----------------------------------------------------------------------------
(* Compaction.                                                             *)

\* A compaction at rest has the merger's type.
LEMMA IdleMergerType == IdleMerger \in MergerType /\ IdleMerger.pc = "idle"
BY DEF IdleMerger, MergerType, NoFile, File

\* The inputs of a merge are registered files.
LEMMA InputsRegistered ==
    ASSUME Types, Ids, merger.pc \in {"merging", "written"}
    PROVE  /\ merger.inputs \in Seq(File) /\ merger.out \in File
           /\ Len(merger.inputs) \in Nat /\ DOMAIN merger.inputs = 1 .. Len(merger.inputs)
           /\ \A i \in 1 .. Len(merger.inputs) :
                 i \in 1 .. Len(sst_files) /\ sst_files[i] = merger.inputs[i]
           /\ Range(merger.inputs) \subseteq Range(sst_files)
<1>1. merger.inputs \in Seq(File) /\ merger.out \in File /\ sst_files \in Seq(File)
  BY DEF Types, MergerType
<1>2. /\ Len(merger.inputs) \in Nat /\ DOMAIN merger.inputs = 1 .. Len(merger.inputs)
      /\ Len(sst_files) \in Nat /\ DOMAIN sst_files = 1 .. Len(sst_files)
  BY <1>1
<1>3. /\ Len(merger.inputs) <= Len(sst_files)
      /\ \A i \in DOMAIN merger.inputs : sst_files[i] = merger.inputs[i]
  BY DEF Ids
<1>4. \A i \in 1 .. Len(merger.inputs) :
          i \in 1 .. Len(sst_files) /\ sst_files[i] = merger.inputs[i]
  BY <1>2, <1>3
<1>5. Range(merger.inputs) \subseteq Range(sst_files)
  BY <1>2, <1>4 DEF Range
<1> QED BY <1>1, <1>2, <1>4, <1>5

\* What a merge step that changes neither the memtables nor the list leaves alone.
LEMMA MergeFrame ==
    ASSUME MemInv,
           UNCHANGED <<active, immutables, sst_files, next_version, visible_version,
                       committer, flusher, committed>>
    PROVE  MemInv'
BY DEF MemInv, Registered, Staged, Flushed

\* The merged file on disk, not yet listed, says nothing the inputs do not say.
LEMMA CompactWriteKeeps == ASSUME LsmInv, CompactWrite PROVE LsmInv'
<1> USE DEF CompactWrite, memVars, ghostVars
<1> DEFINE out == [merger.out EXCEPT !.id = next_sst_id]
<1>a. Types /\ Ids /\ Control /\ next_sst_id \in Nat /\ mode = "up"
  BY DEF LsmInv, Types, Control
<1>b. Range(merger.inputs) \subseteq Range(sst_files) /\ merger.out \in File
      /\ merger.inputs \in Seq(File)
  BY <1>a, InputsRegistered
<1>c. out \in File /\ out.entries = merger.out.entries /\ out.id = next_sst_id
  BY <1>a, <1>b DEF File
<1> HIDE DEF out
<1>d. /\ merger' \in MergerType /\ merger'.pc = "written" /\ merger'.out = out
      /\ merger'.inputs = merger.inputs
  BY <1>a, <1>c DEF MergerType, Types, out
<1>e. sst_disk' = sst_disk \cup {out} /\ next_sst_id' = next_sst_id + 1
  BY DEF out
<1>1. Types'
  <2>1. IsFiniteSet(sst_disk \cup {out})
    <3>1. IsFiniteSet(sst_disk)
      BY <1>a DEF Types
    <3> QED BY <3>1, FiniteAdd
  <2>2. sst_disk' \subseteq File /\ next_sst_id' \in Nat
    BY <1>a, <1>c, <1>e DEF Types
  <2> QED BY <1>a, <1>d, <1>e, <2>1, <2>2 DEF Types
<1>2. Control'
  BY <1>a DEF Control
<1>3. Ids'
  <2>1. /\ \A f \in sst_disk : f.id < next_sst_id' /\ f.id /= out.id
        /\ out.id < next_sst_id'
    BY <1>a, <1>c, <1>e, NextId
  <2>3. out.id \notin IdsOf(Range(sst_files))
    BY <1>a, <2>1 DEF Ids, IdsOf
  <2>4. flusher.pc = "written" => out.id /= flusher.sst.id
    BY <1>a, <2>1 DEF Ids
  <2>6. \A f, g \in sst_disk' : f.id = g.id => f = g
    BY <1>a, <1>e, <2>1 DEF Ids
  <2> QED BY <1>a, <1>d, <1>e, <2>1, <2>3, <2>4, <2>6 DEF Ids
<1>4. ASSUME Undamaged' PROVE Sound'
  <2>1. DiskInv /\ MemInv /\ MergeInv /\ LogInv
    BY <1>4, <1>a DEF Undamaged, LsmInv, Sound
  <2>2. Ents(sst_disk') = Ents(sst_disk)
    <3>1. Ents(sst_disk') = Ents(sst_disk) \cup out.entries
      BY <1>e, EntsAdd
    <3>2. out.entries \subseteq Ents(Range(merger.inputs))
      BY <1>c, <2>1 DEF MergeInv
    <3>3. Range(merger.inputs) \subseteq sst_disk
      BY <1>a, <1>b DEF Ids
    <3>4. Ents(Range(merger.inputs)) \subseteq Ents(sst_disk)
      BY <3>3 DEF Ents
    <3> QED BY <3>1, <3>2, <3>4
  <2>3. DiskInv'
    <3>1. \A f \in sst_disk' : Complete(f.entries, committed)
      BY <1>c, <1>e, <2>1 DEF DiskInv, MergeInv
    <3> QED BY <2>1, <2>2, <3>1 DEF DiskInv
  <2>4. MemInv'
    BY <2>1, MergeFrame
  <2>5. MergeInv'
    BY <1>c, <1>d, <2>1 DEF MergeInv
  <2>6. LogInv'
    <3>1. Covers(Ents(sst_disk'), Ents(sst_disk))
      BY <1>a, <2>2, EntsType, CoversSelf DEF Types
    <3> QED BY <1>1, <1>a, <2>1, <3>1, LogKept
  <2> QED BY <2>3, <2>4, <2>5, <2>6 DEF Sound
<1> QED BY <1>1, <1>2, <1>3, <1>4 DEF LsmInv

\* SstWriter failing in a compaction leaves the inputs in place.
LEMMA CompactWriteFailsKeeps == ASSUME LsmInv, CompactWriteFails PROVE LsmInv'
<1> USE DEF CompactWriteFails, Fails, diskVars, memVars
<1>a. Types /\ Ids /\ Control /\ next_sst_id \in Nat /\ mode = "up" /\ merger'.pc = "idle"
  BY IdleMergerType DEF LsmInv, Types, Control
<1>b. merger' \in MergerType /\ next_sst_id' \in Nat
  BY <1>a, IdleMergerType
<1>c. UNCHANGED <<conf, wal, disk_wal, sst_disk, mode, active, immutables, sst_files,
                  next_version, visible_version, committer, flusher, committed>>
  OBVIOUS
<1>1. Types'
  BY <1>a, <1>b, <1>c DEF Types
<1>2. Control'
  BY <1>a DEF Control
<1>3. Ids'
  BY <1>a, NextId DEF Ids
<1>4. ASSUME Undamaged' PROVE Sound'
  <2>1. DiskInv /\ MemInv /\ MergeInv /\ LogInv
    BY <1>4, <1>a, UndamagedBefore DEF LsmInv, Sound
  <2>3. DiskInv'
    BY <2>1 DEF DiskInv
  <2>4. MemInv'
    BY <2>1, MergeFrame
  <2>5. MergeInv'
    BY <1>a DEF MergeInv
  <2>6. LogInv'
    BY <1>1, <1>a, <2>1, SameCover, LogKept
  <2> QED BY <2>3, <2>4, <2>5, <2>6 DEF Sound
<1> QED BY <1>1, <1>2, <1>3, <1>4 DEF LsmInv

\* The output of the merge, then the files that it leaves.
SwappedIn(kept) ==
    /\ kept \in Seq(File) /\ KeptPlaces(kept, sst_files, Unmerged)
    /\ sst_files' = <<merger.out>> \o kept

\* The merged file takes the place of its inputs, before the files flushed since.
LEMMA SwapKeeps ==
    ASSUME LsmInv, CompactSwap, NEW kept, SwappedIn(kept)
    PROVE  LsmInv'
<1> DEFINE out == merger.out
           I == {i \in DOMAIN sst_files : sst_files[i] \notin Range(merger.inputs)}
           m == Len(merger.inputs)
<1> /\ merger.pc = "written" /\ merger' = [merger EXCEPT !.pc = "swapped"]
    /\ UNCHANGED <<wal, disk_wal, sst_disk, mode, active, immutables, next_version,
                   visible_version, next_sst_id, committer, flusher, conf, failed, committed>>
  BY DEF CompactSwap, diskVars, clockVars, ghostVars
<1>a. /\ Types /\ Ids /\ Control /\ mode = "up" /\ sst_files \in Seq(File)
      /\ Len(sst_files) \in Nat /\ DOMAIN sst_files = 1 .. Len(sst_files)
  BY DEF LsmInv, Types, Control
<1>b. /\ merger.inputs \in Seq(File) /\ out \in File
      /\ m \in Nat /\ DOMAIN merger.inputs = 1 .. m
      /\ \A i \in 1 .. m : i \in 1 .. Len(sst_files) /\ sst_files[i] = merger.inputs[i]
      /\ Range(merger.inputs) \subseteq Range(sst_files)
  BY <1>a, InputsRegistered
<1>c. /\ merger' \in MergerType /\ merger'.pc = "swapped" /\ merger'.out = out
      /\ merger'.inputs = merger.inputs
  BY <1>a, <1>b DEF MergerType, Types
<1> DEFINE n == Len(kept)
<1>d. sst_files' = <<out>> \o kept
  BY DEF SwappedIn
<1>e. I \subseteq DOMAIN sst_files
  OBVIOUS
<1>f. \A i \in I : m < i /\ i \in 1 .. Len(sst_files)
  BY <1>a, <1>b DEF Range
<1>g. Range(sst_files) \subseteq Range(merger.inputs) \cup {sst_files[i] : i \in I}
  BY DEF Range
<1>h. \A i \in I : sst_files[i] \in Range(sst_files) /\ sst_files[i] \notin Range(merger.inputs)
  BY DEF Range
<1>i. kept \in Seq(File) /\ n \in Nat /\ KeptPlaces(kept, sst_files, I)
  <2>1. Unmerged = I
    BY DEF Unmerged
  <2>2. kept \in Seq(File) /\ KeptPlaces(kept, sst_files, Unmerged)
    BY DEF SwappedIn
  <2> QED BY <2>1, <2>2
<1> HIDE DEF I, m, out
<1>j. PICK p \in [1 .. n -> I] :
          /\ Range(p) = I
          /\ \A i, j \in 1 .. n : i < j => p[i] < p[j]
          /\ \A i \in 1 .. n : kept[i] = sst_files[p[i]]
  BY <1>i DEF KeptPlaces
<1> HIDE DEF n
<1>k. /\ sst_files' \in Seq(File) /\ Len(sst_files') = n + 1 /\ DOMAIN sst_files' = 1 .. n + 1
      /\ sst_files'[1] = out /\ \A i \in 1 .. n : sst_files'[i + 1] = kept[i]
  BY <1>b, <1>d, <1>i, ConsList DEF n
<1>m. \A i \in 2 .. n + 1 : i - 1 \in 1 .. n /\ p[i - 1] \in I /\ sst_files'[i] = sst_files[p[i - 1]]
  <2> TAKE i \in 2 .. n + 1
  <2> DEFINE q == i - 1
  <2>1. q \in 1 .. n /\ q + 1 = i
    BY <1>i
  <2> HIDE DEF q
  <2>2. sst_files'[q + 1] = sst_files[p[q]] /\ p[q] \in I
    BY <1>j, <1>k, <2>1
  <2> QED BY <2>1, <2>2 DEF q
<1>n. \A i \in I : \E j \in 2 .. n + 1 : sst_files'[j] = sst_files[i]
  <2> TAKE i \in I
  <2>1. PICK q \in 1 .. n : p[q] = i
    BY <1>j DEF Range
  <2>2. q + 1 \in 2 .. n + 1 /\ sst_files'[q + 1] = sst_files[i]
    BY <1>i, <1>j, <1>k, <2>1
  <2> QED BY <2>2
<1>o. Range(sst_files') = {out} \cup {sst_files[i] : i \in I}
  <2>1. 1 \in 1 .. n + 1 /\ \A i \in 2 .. n + 1 : i \in 1 .. n + 1
    BY <1>i
  <2>2. \A i \in 1 .. n + 1 : i = 1 \/ i \in 2 .. n + 1
    BY <1>i
  <2>3. Range(sst_files') \subseteq {out} \cup {sst_files[i] : i \in I}
    BY <1>k, <1>m, <2>2 DEF Range
  <2>4. {out} \cup {sst_files[i] : i \in I} \subseteq Range(sst_files')
    BY <1>k, <1>n, <2>1 DEF Range
  <2> QED BY <2>3, <2>4
<1>p. out \in sst_disk /\ out.id \notin IdsOf(Range(sst_files))
      /\ (flusher.pc = "written" => out.id /= flusher.sst.id)
  BY <1>a DEF Ids, out
<1>1. Types'
  BY <1>a, <1>c, <1>k DEF Types
<1>2. Control'
  BY <1>a DEF Control
<1>3. Ids'
  <2>1. \A i \in I : sst_files[i].id /= out.id
    BY <1>h, <1>p DEF IdsOf
  <2>2. \A i, j \in DOMAIN sst_files' : i /= j => sst_files'[i].id /= sst_files'[j].id
    <3> SUFFICES ASSUME NEW i \in 1 .. n + 1, NEW j \in 1 .. n + 1, i < j
                 PROVE  sst_files'[i].id /= sst_files'[j].id
      <4>1. \A i, j \in 1 .. n + 1 : i /= j => i < j \/ j < i
        BY <1>i
      <4> QED BY <1>k, <4>1
    <3>1. j \in 2 .. n + 1
      BY <1>i
    <3>2. CASE i = 1
      BY <1>k, <1>m, <2>1, <3>1, <3>2
    <3>3. CASE i \in 2 .. n + 1
      <4>1. i - 1 < j - 1
        BY <1>i
      <4>2. p[i - 1] < p[j - 1] /\ p[i - 1] \in I /\ p[j - 1] \in I
        BY <1>j, <1>m, <3>1, <3>3, <4>1
      <4>3. p[i - 1] \in 1 .. Len(sst_files) /\ p[j - 1] \in 1 .. Len(sst_files)
            /\ p[i - 1] /= p[j - 1]
        BY <1>a, <1>f, <4>2
      <4>4. sst_files[p[i - 1]].id /= sst_files[p[j - 1]].id
        BY <1>a, <4>3 DEF Ids
      <4> QED BY <1>m, <3>1, <3>3, <4>4
    <3>4. i = 1 \/ i \in 2 .. n + 1
      BY <1>i
    <3> QED BY <3>2, <3>3, <3>4
  <2>3. Range(sst_files') \subseteq sst_disk
    BY <1>a, <1>h, <1>o, <1>p DEF Ids
  <2>4. merger.inputs /= <<>> /\ \A f \in Range(merger.inputs) : f.id < next_sst_id
    BY <1>a, <1>b DEF Ids
  <2>5. IdsOf(Range(merger.inputs)) \cap IdsOf(Range(sst_files')) = {}
    <3> SUFFICES ASSUME NEW f \in Range(merger.inputs), NEW g \in Range(sst_files'), f.id = g.id
                 PROVE  FALSE
      BY DEF IdsOf
    <3>1. CASE g = out
      BY <1>b, <1>p, <3>1 DEF IdsOf
    <3>2. CASE \E i \in I : g = sst_files[i]
      BY <1>a, <1>b, <1>h, <3>2 DEF Ids
    <3> QED BY <1>o, <3>1, <3>2
  <2>6. flusher.pc = "written" =>
          /\ flusher.sst.id \notin IdsOf(Range(sst_files'))
          /\ flusher.sst.id \notin IdsOf(Range(merger.inputs))
    <3> SUFFICES ASSUME flusher.pc = "written"
                 PROVE  /\ flusher.sst.id \notin IdsOf(Range(sst_files'))
                        /\ flusher.sst.id \notin IdsOf(Range(merger.inputs))
      OBVIOUS
    <3>1. flusher.sst.id \notin IdsOf(Range(sst_files))
      BY <1>a DEF Ids
    <3> QED BY <1>b, <1>h, <1>o, <1>p, <3>1 DEF IdsOf
  <2>7. merger.out \in Range(sst_files')
    BY <1>o DEF out
  <2> QED BY <1>a, <1>c, <2>2, <2>3, <2>4, <2>5, <2>6, <2>7 DEF Ids, out
<1>4. ASSUME Undamaged' PROVE Sound'
  <2>1. DiskInv /\ MemInv /\ MergeInv /\ LogInv
    BY <1>4, <1>a DEF Undamaged, LsmInv, Sound
  <2>2. /\ out.entries \subseteq Ents(Range(merger.inputs))
        /\ Covers(out.entries, Ents(Range(merger.inputs)))
    BY <2>1 DEF MergeInv, out
  <2>3. DiskInv'
    BY <2>1 DEF DiskInv
  <2>4. MemInv'
    <3>1. Registered \in SUBSET Entry /\ Registered' \in SUBSET Entry /\ committed \in SUBSET Entry
          /\ active \in SUBSET Entry /\ flusher.old \in SUBSET Entry
      <4>1. Range(sst_files) \subseteq File /\ Range(sst_files') \subseteq File
        BY <1>a, <1>k DEF Range
      <4> QED BY <1>a, <4>1, EntsType DEF Registered, Types, FlusherType
    <3>2. Registered' \subseteq Registered
      <4>1. Ents(Range(merger.inputs)) \subseteq Registered
        BY <1>b DEF Registered, Ents
      <4> QED BY <1>h, <1>o, <2>2, <4>1 DEF Registered, Ents
    <3>3. Covers(Registered', Registered)
      <4>1. out.entries \subseteq Registered'
        BY <1>o DEF Registered, Ents
      <4>2. Covers(Registered', Ents(Range(merger.inputs)))
        BY <2>2, <4>1, CoversMore
      <4>3. Ents({sst_files[i] : i \in I}) \subseteq Registered'
        BY <1>o DEF Registered, Ents
      <4>4. Covers(Registered', Ents({sst_files[i] : i \in I}))
        BY <3>1, <4>3, CoversSelf
      <4>5. Covers(Registered', Ents(Range(merger.inputs)) \cup Ents({sst_files[i] : i \in I}))
        BY <4>2, <4>4, CoversUnion
      <4>6. Registered \subseteq Ents(Range(merger.inputs)) \cup Ents({sst_files[i] : i \in I})
        BY <1>g DEF Registered, Ents
      <4> QED BY <4>5, <4>6 DEF Covers
    <3>4. Closed(Registered', committed)
      BY <2>1, <3>1, <3>2, <3>3, ClosedCovered DEF MemInv
    <3>5. Covers(Registered' \cup flusher.old \cup active, committed)
      <4> DEFINE O == flusher.old \cup active
                 E == Registered' \cup O
                 F == Registered \cup O
      <4>1. E \in SUBSET Entry /\ F \in SUBSET Entry /\ O \subseteq E
        BY <3>1
      <4>2. Covers(E, Registered)
        BY <3>3, CoversMore
      <4>3. Covers(E, O)
        BY <4>1, CoversSelf
      <4>4. Covers(E, F)
        BY <4>2, <4>3, CoversUnion
      <4>5. Covers(F, committed)
        <5>1. F = Registered \cup flusher.old \cup active
          OBVIOUS
        <5> QED BY <2>1, <5>1 DEF MemInv
      <4> HIDE DEF E, F
      <4>6. Covers(E, committed)
        BY <3>1, <4>1, <4>4, <4>5, CoversTrans
      <4>7. E = Registered' \cup flusher.old \cup active
        BY DEF E
      <4> QED BY <4>6, <4>7
    <3>6. Flushed => Covers(Registered', committed)
      BY <2>1, <3>1, <3>3, CoversTrans DEF MemInv
    <3>7. ASSUME NEW i \in DOMAIN sst_files', NEW j \in DOMAIN sst_files', i < j
          PROVE  Below(sst_files'[i].entries, sst_files'[j].entries)
      <4>0. /\ i \in 1 .. n + 1 /\ j \in 2 .. n + 1 /\ p[j - 1] \in I /\ j - 1 \in 1 .. n
            /\ sst_files'[j] = sst_files[p[j - 1]]
            /\ p[j - 1] \in 1 .. Len(sst_files) /\ m < p[j - 1]
        <5>1. i \in 1 .. n + 1 /\ j \in 2 .. n + 1
          BY <1>i, <1>k, <3>7
        <5> QED BY <1>f, <1>m, <5>1
      <4>1. CASE i = 1
        <5> SUFFICES ASSUME NEW x \in out.entries, NEW b \in sst_files[p[j - 1]].entries
                     PROVE  \E f \in sst_files[p[j - 1]].entries : x[2] <= f[2]
          BY <1>k, <4>0, <4>1 DEF Below
        <5>1. PICK q \in 1 .. m : x \in merger.inputs[q].entries
          BY <1>b, <2>2 DEF Ents, Range
        <5>2. q \in 1 .. Len(sst_files) /\ x \in sst_files[q].entries /\ q < p[j - 1]
          BY <1>b, <4>0, <5>1
        <5>3. Below(sst_files[q].entries, sst_files[p[j - 1]].entries)
          BY <1>a, <2>1, <4>0, <5>2 DEF MemInv
        <5> QED BY <5>2, <5>3 DEF Below
      <4>2. CASE i \in 2 .. n + 1
        <5>1. i - 1 < j - 1
          BY <1>i, <3>7, <4>0
        <5>2. i - 1 \in 1 .. n /\ p[i - 1] \in I /\ sst_files'[i] = sst_files[p[i - 1]]
          BY <1>m, <4>2
        <5>3. p[i - 1] < p[j - 1] /\ p[i - 1] \in 1 .. Len(sst_files)
          BY <1>f, <1>j, <4>0, <5>1, <5>2
        <5>4. Below(sst_files[p[i - 1]].entries, sst_files[p[j - 1]].entries)
          BY <1>a, <2>1, <4>0, <5>3 DEF MemInv
        <5> QED BY <4>0, <5>2, <5>4
      <4> QED BY <1>i, <4>0, <4>1, <4>2
    <3>8. (Staged <=> Staged') /\ (Flushed <=> Flushed')
      BY DEF Staged, Flushed
    <3> QED BY <2>1, <3>4, <3>5, <3>6, <3>7, <3>8 DEF MemInv
  <2>5. MergeInv'
    BY <1>c, <2>2 DEF MergeInv, out
  <2>6. LogInv'
    BY <1>1, <1>a, <2>1, SameCover, LogKept
  <2> QED BY <2>3, <2>4, <2>5, <2>6 DEF Sound
<1> QED BY <1>1, <1>2, <1>3, <1>4 DEF LsmInv

\* Deleting the inputs: their merge, which is on disk, covers them.
LEMMA CompactUnlinkKeeps == ASSUME LsmInv, CompactUnlink PROVE LsmInv'
<1> USE DEF CompactUnlink, memVars, clockVars, ghostVars
<1> DEFINE h == Head(merger.inputs)
<1>a. Types /\ Ids /\ Control /\ mode = "up" /\ merger.inputs \in Seq(File)
      /\ merger.inputs /= <<>> /\ merger.out \in File
  BY DEF LsmInv, Types, Control, Ids, MergerType
<1>b. /\ h \in Range(merger.inputs) /\ Tail(merger.inputs) \in Seq(File)
      /\ Range(Tail(merger.inputs)) \subseteq Range(merger.inputs)
  <2>1. /\ Len(merger.inputs) \in Nat \ {0} /\ h = merger.inputs[1]
        /\ DOMAIN merger.inputs = 1 .. Len(merger.inputs)
        /\ Tail(merger.inputs) \in Seq(File)
        /\ Len(Tail(merger.inputs)) = Len(merger.inputs) - 1
        /\ \A i \in 1 .. Len(Tail(merger.inputs)) : Tail(merger.inputs)[i] = merger.inputs[i + 1]
    BY <1>a, TailIs, SeqIs
  <2>2. DOMAIN Tail(merger.inputs) = 1 .. Len(Tail(merger.inputs))
    BY <2>1, SeqIs
  <2>3. 1 \in 1 .. Len(merger.inputs) /\ \A i \in 1 .. Len(merger.inputs) - 1 : i + 1 \in 1 .. Len(merger.inputs)
    BY <2>1
  <2> QED BY <2>1, <2>2, <2>3 DEF Range
<1>c. /\ merger' \in MergerType /\ merger'.pc \in {"idle", "swapped"}
      /\ merger'.pc = "swapped" => /\ merger'.inputs = Tail(merger.inputs)
                                   /\ merger'.out = merger.out /\ merger'.inputs /= <<>>
  <2>1. CASE Len(merger.inputs) = 1
    BY <2>1, IdleMergerType
  <2>2. CASE Len(merger.inputs) /= 1
    <3>1. merger' = [merger EXCEPT !.inputs = Tail(merger.inputs)]
      BY <2>2
    <3>2. merger' \in MergerType /\ merger'.pc = "swapped" /\ merger'.inputs = Tail(merger.inputs)
          /\ merger'.out = merger.out
      BY <1>a, <1>b, <3>1 DEF MergerType, Types
    <3>3. Len(Tail(merger.inputs)) /= 0
      BY <1>a, <2>2, TailIs
    <3>4. Len(<<>>) = 0
      OBVIOUS
    <3>5. merger'.inputs /= <<>>
      BY <3>2, <3>3, <3>4, Zenon
    <3> QED BY <3>2, <3>5
  <2> QED BY <2>1, <2>2
<1>d. sst_disk' = sst_disk \ {h} /\ h.id \notin IdsOf(Range(sst_files))
      /\ merger.out \in Range(sst_files)
      /\ (flusher.pc = "written" => flusher.sst.id /= h.id)
  BY <1>a, <1>b DEF Ids, IdsOf
<1> HIDE DEF h
<1>e. Range(sst_files) \subseteq sst_disk'
  BY <1>a, <1>d DEF Ids, IdsOf
<1>1. Types'
  <2>1. IsFiniteSet(sst_disk') /\ sst_disk' \subseteq File
    BY <1>a, <1>d, FiniteSubset DEF Types
  <2> QED BY <1>a, <1>c, <2>1 DEF Types
<1>2. Control'
  BY <1>a DEF Control
<1>3. Ids'
  <2>1. flusher.pc = "written" => flusher.sst \in sst_disk'
    BY <1>a, <1>d DEF Ids
  <2>2. merger'.pc = "swapped" =>
          /\ \A f \in Range(merger'.inputs) : f.id < next_sst_id
          /\ IdsOf(Range(merger'.inputs)) \cap IdsOf(Range(sst_files)) = {}
          /\ flusher.pc = "written" => flusher.sst.id \notin IdsOf(Range(merger'.inputs))
    <3>1. merger'.pc = "swapped" => Range(merger'.inputs) \subseteq Range(merger.inputs)
      BY <1>b, <1>c
    <3>2. merger'.pc = "swapped" => IdsOf(Range(merger'.inputs)) \subseteq IdsOf(Range(merger.inputs))
      BY <3>1 DEF IdsOf
    <3> QED BY <1>a, <3>1, <3>2 DEF Ids
  <2>3. \A f \in sst_disk' : f \in sst_disk
    BY <1>d
  <2> QED BY <1>a, <1>c, <1>d, <1>e, <2>1, <2>2, <2>3 DEF Ids
<1>4. ASSUME Undamaged' PROVE Sound'
  <2>1. DiskInv /\ MemInv /\ MergeInv /\ LogInv
    BY <1>4, <1>a DEF Undamaged, LsmInv, Sound
  <2>2. Covers(merger.out.entries, Ents(Range(merger.inputs)))
    BY <2>1 DEF MergeInv
  <2>a. /\ Ents(sst_disk') \in SUBSET Entry /\ Ents(sst_disk) \in SUBSET Entry
        /\ committed \in SUBSET Entry
    BY <1>1, <1>a, EntsType DEF Types
  <2>3. Covers(Ents(sst_disk'), Ents(sst_disk))
    <3>1. merger.out.entries \subseteq Ents(sst_disk')
      BY <1>d, <1>e DEF Ents
    <3>2. Covers(Ents(sst_disk'), h.entries)
      BY <1>b, <2>2, <3>1 DEF Covers, Ents, h
    <3>3. Covers(Ents(sst_disk'), Ents(sst_disk'))
      BY <2>a, CoversSelf
    <3>4. Ents(sst_disk) \subseteq Ents(sst_disk') \cup h.entries
      BY <1>d DEF Ents
    <3> QED BY <3>2, <3>3, <3>4 DEF Covers
  <2>4. DiskInv'
    <3>1. Ents(sst_disk') \subseteq Ents(sst_disk)
      BY <1>d DEF Ents
    <3>2. Closed(Ents(sst_disk'), committed)
      BY <2>1, <2>3, <2>a, <3>1, ClosedCovered DEF DiskInv
    <3>3. \A f \in sst_disk' : Complete(f.entries, committed)
      BY <1>d, <2>1 DEF DiskInv
    <3> QED BY <2>1, <3>1, <3>2, <3>3 DEF DiskInv
  <2>5. MemInv'
    BY <2>1, MergeFrame
  <2>6. MergeInv'
    <3>1. merger'.pc = "swapped" =>
            Ents(Range(merger'.inputs)) \subseteq Ents(Range(merger.inputs))
      BY <1>b, <1>c DEF Ents
    <3> QED BY <1>c, <2>2, <3>1 DEF MergeInv, Covers
  <2>7. LogInv'
    BY <1>1, <1>a, <2>1, <2>3, LogKept
  <2> QED BY <2>4, <2>5, <2>6, <2>7 DEF Sound
<1> QED BY <1>1, <1>2, <1>3, <1>4 DEF LsmInv

\* The merge swaps its output in.
LEMMA CompactSwapKeeps == ASSUME ByInduction, LsmInv, CompactSwap PROVE LsmInv'
<1>1. PICK kept \in Retained(sst_files, Unmerged) : sst_files' = <<merger.out>> \o kept
  BY Zenon DEF CompactSwap, Unmerged
<1>2. sst_files \in Seq(File) /\ Unmerged \subseteq DOMAIN sst_files
  BY DEF LsmInv, Types, Unmerged
<1>3. kept \in Seq(File) /\ KeptPlaces(kept, sst_files, Unmerged)
  BY <1>1, <1>2, RetainedProps
<1>4. SwappedIn(kept)
  BY <1>1, <1>3 DEF SwappedIn
<1> QED BY <1>4, SwapKeeps

\* A merge takes all registered files and keeps the newest version of each key.
LEMMA CompactStartKeeps == ASSUME ByInduction, LsmInv, CompactStart PROVE LsmInv'
<1> USE DEF CompactStart, diskVars, memVars, clockVars, ghostVars
<1> DEFINE out == [NoFile EXCEPT !.entries = MergeEntries(Registered)]
<1>a. Types /\ Ids /\ Control /\ sst_files \in Seq(File) /\ committed \in SUBSET Entry
  BY DEF LsmInv, Types
<1>b. Registered \in SUBSET Entry
  <2>1. Range(sst_files) \subseteq File
    BY <1>a DEF Range
  <2> QED BY <2>1, EntsType DEF Registered
<1>c. MergeEntries(Registered) \subseteq Registered /\ Covers(MergeEntries(Registered), Registered)
  BY <1>b, MergeKeepsNewest
<1>d. out.entries = MergeEntries(Registered) /\ out \in File
  BY <1>b, <1>c DEF NoFile, File
<1>e. merger' = [pc |-> "merging", inputs |-> sst_files, out |-> out]
  BY Zenon DEF Registered, Ents
<1> HIDE DEF out
<1>f. /\ merger' \in MergerType /\ merger'.pc = "merging" /\ merger'.inputs = sst_files
      /\ merger'.out = out
  BY <1>a, <1>d, <1>e DEF MergerType
<1>1. Types'
  BY <1>a, <1>f DEF Types
<1>2. Control'
  BY <1>a DEF Control
<1>3. Ids'
  <2>1. Len(sst_files) <= Len(sst_files) /\ sst_files /= <<>>
    BY <1>a
  <2> QED BY <1>a, <1>f, <2>1 DEF Ids
<1>4. ASSUME Undamaged' PROVE Sound'
  <2>1. DiskInv /\ MemInv /\ MergeInv /\ LogInv
    BY <1>4 DEF Undamaged, LsmInv, Sound
  <2>2. DiskInv'
    BY <2>1 DEF DiskInv
  <2>3. MemInv'
    BY <2>1, MergeFrame
  <2>4. MergeInv'
    <3>1. Complete(out.entries, committed)
      <4>1. MergeEntries(Registered) \in SUBSET Entry /\ Closed(Registered, committed)
        BY <1>b, <1>c, <2>1 DEF MemInv
      <4> QED BY <1>a, <1>b, <1>c, <1>d, <4>1, ClosedCovered
    <3> QED BY <1>c, <1>d, <1>f, <3>1 DEF MergeInv, Registered
  <2>5. LogInv'
    BY <1>1, <1>a, <2>1, SameCover, LogKept
  <2> QED BY <2>2, <2>3, <2>4, <2>5 DEF Sound
<1> QED BY <1>1, <1>2, <1>3, <1>4 DEF LsmInv

-----------------------------------------------------------------------------
(* Commit, and crashes.                                                    *)

\* The sync failing after the append: the version is spent, nothing published.
LEMMA CommitSyncFailsKeeps == ASSUME LsmInv, CommitSyncFails PROVE LsmInv'
<1> USE DEF CommitSyncFails, Fails, memVars, clockVars, diskVars
<1>1. Types'
  BY DEF LsmInv, Types, IdleCommitter
<1>2. Control'
  BY DEF LsmInv, Control, IdleCommitter
<1>3. Ids'
  BY IdsKept DEF LsmInv
<1>4. ~ Undamaged'
  BY DEF Undamaged
<1> QED BY <1>1, <1>2, <1>3, <1>4 DEF LsmInv

\* WriteAheadLog::append failing in LsmTree::commit damages the log and says so.
LEMMA CommitAppendFailsKeeps == ASSUME LsmInv, CommitAppendFails PROVE LsmInv'
<1> USE DEF CommitAppendFails, Fails, memVars, clockVars
<1>1. Types'
  <2>1. wal' \in Log
    <3>1. wal \in Log /\ committer.base \in Nat
      BY DEF LsmInv, Types
    <3> QED BY <3>1, TornLog
  <2> QED BY <2>1 DEF LsmInv, Types, IdleCommitter
<1>2. Control'
  BY DEF LsmInv, Control, IdleCommitter
<1>3. Ids'
  BY IdsKept DEF LsmInv
<1>4. ~ Undamaged'
  BY DEF Undamaged
<1> QED BY <1>1, <1>2, <1>3, <1>4 DEF LsmInv

\* A batch and its footer at the end of the log: a crash that tears them recovers
\* the log before, one that does not recovers both.
LEMMA CommitAppendKeeps ==
    ASSUME ByInduction, LsmInv, NEW W \in (SUBSET conf.keys) \ {{}}, CommitAppend(W) PROVE LsmInv'
<1> DEFINE v == next_version
<1> USE DEF memVars
<1>u. /\ mode = "up" /\ committer.pc = "idle" /\ flusher.pc = "idle" /\ v <= MaxVersion
      /\ committer' = [pc |-> "appending", writes |-> W, base |-> Len(wal.recs)]
      /\ next_version' = v + 1
      /\ UNCHANGED <<disk_wal, sst_disk, mode, active, immutables, sst_files,
                     visible_version, next_sst_id, flusher, merger, conf, failed, committed>>
  BY DEF CommitAppend
<1>w. PICK writes \in Orders(W) : wal' = AppendTo(wal, writes, v)
  BY DEF CommitAppend, AppendTo
<1>a. Types /\ Ids /\ Control /\ v \in Nat \ {0} /\ wal \in Log /\ disk_wal \in Log
  BY DEF LsmInv, Types
<1>b. W \in SUBSET Key /\ W /= {}
  BY <1>a, ConfigAssumption DEF Types
<1>c. v \in Version
  BY <1>a, <1>u, VersionType
<1> HIDE DEF v
<1>d. wal' \in Log /\ wal'.framed = wal.framed /\ Appended(wal', wal, W, writes, v)
  BY <1>a, <1>b, <1>c, <1>w, AppendedIs
<1>e. /\ committer'.pc = "appending" /\ committer'.writes = W
      /\ committer'.base = Len(wal.recs) /\ next_version' - 1 = v
  <2>1. next_version' - 1 = v
    BY <1>a, <1>u
  <2> QED BY <1>u, <2>1
<1>f. Len(wal.recs) \in Nat /\ Len(disk_wal.recs) \in Nat /\ disk_wal.recs \in Seq(Record)
  BY <1>a, LogFields
<1>g. Pending' = W \X {v} /\ Pending = {}
  BY <1>e, <1>u DEF Pending
<1>1. Types'
  <2>1. next_version' \in Nat \ {0}
    BY <1>a, <1>u
  <2>2. committer' \in [pc : {"idle", "appending"}, writes : SUBSET Key, base : Nat]
    BY <1>b, <1>f, <1>u
  <2> QED BY <1>a, <1>d, <1>u, <2>1, <2>2 DEF Types
<1>2. Control'
  BY <1>a, <1>b, <1>c, <1>e, <1>u DEF Control
<1>3. Ids'
  BY <1>a, <1>u, IdsKept
<1>4. ASSUME Undamaged' PROVE Sound'
  <2>1. DiskInv /\ MemInv /\ MergeInv /\ LogInv
    BY <1>4, <1>u DEF Undamaged, LsmInv, Sound
  <2>2. DiskInv'
    BY <1>u, <2>1 DEF DiskInv
  <2>3. MemInv'
    <3>1. next_version' = visible_version + 2
      <4>1. next_version = visible_version + (IF committer.pc = "appending" THEN 2 ELSE 1)
        BY <2>1, Zenon DEF MemInv
      <4>2. visible_version \in Nat
        BY <1>a, Zenon DEF Types
      <4> QED BY <1>u, <4>1, <4>2 DEF v
    <3>2. Registered' = Registered /\ (Staged <=> Staged') /\ (Flushed <=> Flushed')
      BY <1>u DEF Registered, Staged, Flushed
    <3> QED BY <1>e, <1>u, <2>1, <3>1, <3>2 DEF MemInv
  <2>4. MergeInv'
    BY <1>u, <2>1 DEF MergeInv
  <2>5. wal.framed = TRUE /\ Whole(wal.recs)
    BY <1>a, <1>u, <2>1, LogFields DEF LogInv
  <2>6. Whole(wal'.recs) /\ Recovered(wal') = Recovered(wal) \cup (W \X {v})
    <3>1. BatchAdded(Record, wal', wal, W, writes, Cardinality(W), v)
      BY <1>a, <1>d, <2>5, BatchRecovered
    <3> QED BY <3>1, RecoveredBatch
  <2>7. LogInv'
    <3> DEFINE D == Ents(sst_disk)
    <3>0. committed \in SUBSET Entry /\ Recovered(wal) \in SUBSET Entry
      BY <1>a, RecoveredType DEF Types
    <3>1. \A x \in Survivors(Worst) : GoodLog(x, D, committed, {}, FALSE)
      BY <1>g, <1>u, <2>1 DEF LogInv, GoodLogs
    <3>2. GoodLog(wal, D, committed, {}, FALSE)
      BY <3>1 DEF Survivors
    <3>3. \A c \in committed : c[2] < v
      <4>1. v = visible_version + 1 /\ visible_version \in Nat
        BY <1>a, <1>u, <2>1 DEF MemInv, Types, v
      <4>2. \A c \in committed : c[2] <= visible_version
        BY <2>1, Zenon DEF MemInv
      <4>3. \A c \in committed : c[2] \in Nat
        BY <3>0, EntryType, VersionType
      <4> QED BY <4>1, <4>2, <4>3
    <3>4. GoodLog(wal', D, committed, W \X {v}, FALSE)
      <4>1. Covers(D \cup Recovered(wal'), committed)
        BY <2>6, <3>2, CoversMore DEF GoodLog
      <4>2. Suffix(Recovered(wal'), committed)
        <5> SUFFICES ASSUME NEW e \in Recovered(wal'), NEW c \in committed, e[2] <= c[2]
                     PROVE  c \in Recovered(wal')
          BY DEF Suffix
        <5>1. CASE e \in Recovered(wal)
          BY <2>6, <3>2, <5>1 DEF GoodLog, Suffix
        <5>2. CASE e \in W \X {v}
          <6>1. e[2] = v /\ c[2] < v /\ c[2] \in Nat /\ v \in Nat
            BY <1>a, <3>0, <3>3, <5>2, EntryType, VersionType
          <6> QED BY <6>1
        <5> QED BY <2>6, <5>1, <5>2
      <4>3. \A r \in Recovered(wal') : r \in committed \cup (W \X {v})
        BY <2>6, <3>2 DEF GoodLog
      <4>4. ~ FileIsLegacy(wal')
        BY <1>d, <2>5 DEF FileIsLegacy
      <4>5. Recovered(wal') \in SUBSET Entry
        BY <1>d, RecoveredType
      <4> QED BY <4>1, <4>2, <4>3, <4>4, <4>5 DEF GoodLog
    <3>5. ASSUME NEW y \in TornFrom(wal', Len(wal.recs))
          PROVE  GoodLog(y, D, committed, W \X {v}, FALSE)
      <4>1. Recovered(y) = Recovered(wal) /\ ~ FileIsLegacy(y)
        BY <1>a, <1>d, <2>5, <3>5, TornBatch
      <4> QED BY <3>2, <4>1 DEF GoodLog
    <3>6. ASSUME NEW y \in Survivors(Worst)'
          PROVE  GoodLog(y, D, committed, W \X {v}, FALSE)
      <4> DEFINE b == IF Continues(wal.recs, disk_wal.recs) THEN Len(disk_wal.recs) ELSE 0
                 bb == IF Continues(wal'.recs, disk_wal.recs) THEN Len(disk_wal.recs) ELSE 0
      <4>0. /\ Len(wal.recs) =< Len(wal'.recs) /\ Len(wal'.recs) \in Nat
            /\ \A i \in 1 .. Len(wal.recs) : wal'.recs[i] = wal.recs[i]
        BY <1>d, <1>f DEF Appended
      <4>1. CASE y = wal'
        BY <3>4, <4>1
      <4>2. CASE y \in TornFrom(wal', Len(wal.recs))
        BY <3>5, <4>2
      <4>3. CASE y \in Survivors(Worst)
        BY <3>1, <4>3, GoodLogPending
      <4>4. CASE y \in TornFrom(wal', bb) /\ Worst = "power"
        <5>1. bb \in Nat
          BY <1>f
        <5>2. CASE bb = b
          <6> HIDE DEF bb
          <6>1. y \in TornFrom(wal', Len(wal.recs)) \/ y \in TornFrom(wal, bb)
            BY <1>a, <1>d, <4>0, <4>4, <5>1, TornExtended
          <6>2. y \in TornFrom(wal, b) => y \in Survivors(Worst)
            BY <4>4 DEF Survivors
          <6> QED BY <4>2, <4>3, <5>2, <6>1, <6>2
        <5>3. CASE bb /= b
          <6>1. Continues(wal'.recs, disk_wal.recs) /\ ~ Continues(wal.recs, disk_wal.recs)
            <7>1. Continues(wal.recs, disk_wal.recs) => Continues(wal'.recs, disk_wal.recs)
              <8>1. DOMAIN disk_wal.recs = 1 .. Len(disk_wal.recs)
                BY <1>f
              <8> QED BY <1>f, <4>0, <8>1 DEF Continues
            <7> QED BY <5>3, <7>1
          <6>2. bb = Len(disk_wal.recs) /\ Len(wal.recs) < Len(disk_wal.recs)
            <7>1. DOMAIN disk_wal.recs = 1 .. Len(disk_wal.recs)
              BY <1>f
            <7>2. Len(disk_wal.recs) <= Len(wal.recs) => Continues(wal.recs, disk_wal.recs)
              BY <1>f, <4>0, <6>1, <7>1 DEF Continues
            <7> QED BY <1>f, <6>1, <7>2
          <6>3. bb .. Len(wal'.recs) - 1 \subseteq Len(wal.recs) .. Len(wal'.recs) - 1
            BY <1>f, <4>0, <6>2
          <6> HIDE DEF bb
          <6>4. y \in TornFrom(wal', Len(wal.recs))
            BY <4>4, <6>3, Zenon DEF TornFrom
          <6> QED BY <4>2, <6>4
        <5> QED BY <5>2, <5>3
      <4>5. CASE y = disk_wal /\ Worst = "power"
        BY <4>3, <4>5 DEF Survivors
      <4>6. Worst' = Worst
        BY <1>u DEF Worst
      <4> HIDE DEF bb
      <4>7. \/ y = wal' \/ y \in TornFrom(wal', Len(wal.recs))
            \/ Worst = "power" /\ (y = disk_wal \/ y \in TornFrom(wal', bb))
        BY <1>e, <1>u, <3>6, <4>6, Zenon DEF Survivors, bb
      <4> QED BY <4>1, <4>2, <4>4, <4>5, <4>7
    <3>7. GoodLogs'
      BY <1>g, <1>u, <3>6 DEF GoodLogs
    <3> QED BY <1>d, <1>g, <1>u, <2>5, <2>6, <3>7 DEF LogInv
  <2> QED BY <2>2, <2>3, <2>4, <2>7 DEF Sound
<1> QED BY <1>1, <1>2, <1>3, <1>4 DEF LsmInv

\* The synced batch in the memtable, and its version visible.
LEMMA CommitPublishKeeps == ASSUME LsmInv, CommitPublish PROVE LsmInv'
<1> DEFINE v == next_version - 1
           new == committer.writes \X {v}
<1>u. /\ committer.pc = "appending" /\ disk_wal' = Synced /\ active' = active \cup new
      /\ visible_version' = v /\ committed' = committed \cup new /\ committer' = IdleCommitter
      /\ UNCHANGED <<wal, sst_disk, mode, immutables, sst_files, next_version,
                     next_sst_id, flusher, merger, conf, failed>>
  BY DEF CommitPublish
<1>a. /\ Types /\ Ids /\ Control /\ mode = "up" /\ flusher.pc = "idle" /\ flusher.old = {}
      /\ committer.writes /= {} /\ v \in Version /\ next_version \in Nat
      /\ committer.writes \subseteq Key /\ wal \in Log /\ disk_wal \in Log
      /\ committed \in SUBSET Entry /\ active \in SUBSET Entry
  BY <1>u DEF LsmInv, Types, Control
<1>b. v \in Nat /\ next_version = v + 1
  BY <1>a, VersionType
<1>c. new \in SUBSET Entry /\ new /= {} /\ \A e \in new : e[2] = v
  <2> HIDE DEF v
  <2>1. new \in SUBSET Entry /\ \A e \in new : e[2] = v
    BY <1>a DEF Entry, v
  <2>2. PICK k : k \in committer.writes
    BY <1>a
  <2>3. <<k, v>> \in new
    BY <2>2
  <2> QED BY <2>1, <2>3
<1>d. Pending = new
  BY <1>u DEF Pending
<1>e. committer'.pc = "idle" /\ Pending' = {}
  BY <1>u DEF IdleCommitter, Pending
<1> HIDE DEF v, new
<1>1. Types'
  <2>1. disk_wal' \in Log
    BY <1>a, <1>u DEF Synced
  <2>2. committer' \in [pc : {"idle", "appending"}, writes : SUBSET Key, base : Nat]
    BY <1>u DEF IdleCommitter
  <2> QED BY <1>a, <1>b, <1>c, <1>u, <2>1, <2>2 DEF Types
<1>2. Control'
  BY <1>a, <1>e, <1>u DEF Control
<1>3. Ids'
  BY <1>a, <1>u, IdsKept
<1>4. ASSUME Undamaged' PROVE Sound'
  <2>1. DiskInv /\ MemInv /\ MergeInv /\ LogInv
    BY <1>4, <1>a, <1>u DEF Undamaged, LsmInv, Sound
  <2>2. \A c \in committed : c[2] \in Nat /\ c[2] < v
    <3>1. v = visible_version + 1 /\ visible_version \in Nat
      BY <1>a, <1>b, <1>u, <2>1 DEF MemInv, Types
    <3>2. \A c \in committed : c[2] \in Nat /\ c[2] <= visible_version
      BY <1>a, <2>1, EntryType, VersionType DEF MemInv
    <3> QED BY <3>1, <3>2
  <2>3. \A n \in new : n \in committed \/ \A c \in committed : c[2] < n[2]
    BY <1>c, <2>2
  <2>4. /\ \A f \in sst_disk : f.entries \subseteq committed
        /\ Ents(sst_disk) \subseteq committed
    BY <2>1 DEF DiskInv, Ents
  <2>5. DiskInv'
    <3>1. \A f \in sst_disk : Complete(f.entries, committed')
      BY <1>a, <1>c, <1>u, <2>1, <2>3, <2>4, CompleteKept DEF DiskInv
    <3>2. Closed(Ents(sst_disk), committed')
      BY <1>a, <1>c, <1>u, <2>1, <2>3, <2>4, ClosedKept DEF DiskInv
    <3>3. \E c \in committed' : c[2] = visible_version'
      BY <1>c, <1>u
    <3> QED BY <1>u, <2>4, <3>1, <3>2, <3>3 DEF DiskInv
  <2>6. Range(sst_files) \subseteq sst_disk
    BY <1>a DEF Ids
  <2>7. MemInv'
    <3>1. Registered' = Registered /\ (Staged <=> Staged') /\ ~ Flushed'
      BY <1>a, <1>u DEF Registered, Staged, Flushed
    <3>2. Registered \subseteq committed
      BY <2>4, <2>6 DEF Registered, Ents
    <3>3. Closed(Registered, committed')
      BY <1>a, <1>c, <1>u, <2>1, <2>3, <3>2, ClosedKept DEF MemInv
    <3>4. Suffix(active', committed')
      <4> SUFFICES ASSUME NEW e \in active', NEW c \in committed', e[2] <= c[2]
                   PROVE  c \in active'
        BY DEF Suffix
      <4>1. CASE c \in new
        BY <1>u, <4>1
      <4>2. CASE c \in committed /\ e \in active
        BY <1>u, <2>1, <4>2 DEF MemInv, Suffix
      <4>3. CASE c \in committed /\ e \in new
        <5>1. e[2] = v /\ c[2] < v /\ c[2] \in Nat
          BY <1>c, <2>2, <4>3
        <5> QED BY <1>b, <5>1
      <4> QED BY <1>u, <4>1, <4>2, <4>3
    <3>5. Covers(Registered \cup flusher.old \cup active', committed')
      <4> DEFINE E == Registered \cup flusher.old \cup active'
      <4>1. Covers(E, committed)
        BY <1>u, <2>1, CoversMore DEF MemInv
      <4>2. E \in SUBSET Entry /\ new \subseteq E
        BY <1>1, <1>a, <1>u, <3>2 DEF Types
      <4>3. Covers(E, new)
        BY <4>2, CoversSelf
      <4> QED BY <1>u, <4>1, <4>3, CoversUnion
    <3>6. \A c \in committed' : c[2] <= visible_version'
      BY <1>b, <1>c, <1>u, <2>2
    <3>7. active' \subseteq committed' /\ Suffix({}, committed')
      BY <1>u, <2>1 DEF MemInv, Suffix
    <3>8. next_version' = visible_version' + 1
      BY <1>b, <1>u
    <3> QED BY <1>a, <1>e, <1>u, <2>1, <3>1, <3>3, <3>4, <3>5, <3>6, <3>7, <3>8 DEF MemInv
  <2>8. MergeInv'
    <3>1. ASSUME merger.pc \in {"merging", "written"}
          PROVE  Complete(merger.out.entries, committed')
      <4>1. Range(merger.inputs) \subseteq sst_disk
        BY <1>a, <2>6, <3>1, InputsRegistered
      <4>2. merger.out.entries \subseteq committed
        BY <2>1, <2>4, <3>1, <4>1 DEF MergeInv, Ents
      <4> QED BY <1>a, <1>c, <1>u, <2>1, <2>3, <3>1, <4>2, CompleteKept DEF MergeInv
    <3> QED BY <1>u, <2>1, <3>1 DEF MergeInv
  <2>9. LogInv'
    <3>1. \A x \in Survivors(Worst)' : x = wal
      <4>1. wal.recs \in Seq(Record) /\ Len(wal.recs) \in Nat
        BY <1>a, LogFields
      <4>2. Continues(wal.recs, wal.recs)
        BY <4>1 DEF Continues
      <4>3. Len(wal.recs) .. Len(wal.recs) - 1 = {}
        BY <4>1
      <4>4. TornFrom(wal, Len(wal.recs)) = {}
        BY <4>3, Zenon DEF TornFrom
      <4>5. CASE conf.sync_on_commit
        <5>1. disk_wal' = wal
          BY <1>u, <4>5 DEF Synced
        <5>2. Survivors(Worst)' \subseteq {wal', disk_wal'} \cup
                  TornFrom(wal', IF Continues(wal'.recs, disk_wal'.recs)
                                 THEN Len(disk_wal'.recs) ELSE 0)
          BY <1>e DEF Survivors
        <5> QED BY <1>u, <4>2, <4>4, <5>1, <5>2
      <4>6. CASE ~ conf.sync_on_commit
        <5>1. Worst' = "kill"
          BY <1>u, <4>6 DEF Worst
        <5> QED BY <1>e, <1>u, <5>1 DEF Survivors
      <4> QED BY <4>5, <4>6
    <3>2. GoodLog(wal, Ents(sst_disk), committed, new, FALSE)
      <4>1. wal \in Survivors(Worst)
        BY DEF Survivors
      <4> QED BY <1>a, <1>d, <2>1, <4>1 DEF LogInv, GoodLogs
    <3>3. GoodLog(wal, Ents(sst_disk), committed \cup new, {}, FALSE)
      <4> DEFINE R == Recovered(wal)
                 D == Ents(sst_disk)
      <4>1. R \in SUBSET Entry /\ D \in SUBSET Entry /\ new \subseteq R
        BY <1>a, <1>d, <2>1, <3>2, EntsType DEF GoodLog, LogInv, Types
      <4>2. Covers(D \cup R, committed) /\ Suffix(R, committed)
            /\ (\A r \in R : r \in committed \cup new) /\ (FileIsLegacy(wal) => R /= {})
        BY <3>2 DEF GoodLog
      <4>3. Covers(D \cup R, new)
        BY <4>1, CoversSelf
      <4>4. Covers(D \cup R, committed \cup new)
        BY <4>2, <4>3, CoversUnion
      <4>5. Suffix(R, committed \cup new)
        BY <4>1, <4>2 DEF Suffix
      <4> QED BY <4>1, <4>2, <4>4, <4>5, Zenon DEF GoodLog
    <3>4. GoodLogs'
      BY <1>a, <1>e, <1>u, <3>1, <3>3 DEF GoodLogs
    <3> QED BY <1>a, <1>e, <1>u, <2>1, <3>4 DEF LogInv
  <2> QED BY <2>5, <2>7, <2>8, <2>9 DEF Sound
<1> QED BY <1>1, <1>2, <1>3, <1>4 DEF LsmInv

\* A crash: what stays on disk covers what is committed, whatever the log lost.
LEMMA CrashKeeps ==
    ASSUME LsmInv, NEW cause \in {"kill", "power"}, Crash(cause) PROVE LsmInv'
<1> USE DEF Crash, clockVars
<1>a. Types /\ Ids /\ Control
  BY DEF LsmInv
<1>b. PICK w \in Survivors(cause) : wal' = w /\ disk_wal' = w
  OBVIOUS
<1>c. w \in Log
  BY <1>a, SurvivorsLog
<1>1. Types'
  BY <1>a, <1>b, <1>c, IdleFlusherType, IdleMergerType DEF Types, IdleCommitter
<1>2. Control'
  BY IdleFlusherType, IdleMergerType DEF Control, IdleCommitter
<1>3. Ids'
  <2>1. Range(<<>>) = {} /\ DOMAIN <<>> = {}
    BY DEF Range
  <2> QED BY <1>a, <2>1, IdleFlusherType, IdleMergerType DEF Ids
<1>4. ASSUME Undamaged' PROVE Sound'
  <2>1. Undamaged
    BY <1>4, UndamagedBefore
  <2>2. DiskInv /\ LogInv
    BY <2>1 DEF LsmInv, Sound
  <2>3. w \in Survivors(Worst)
    <3>1. CASE conf.sync_on_commit
      BY <1>b, <3>1 DEF Survivors, Worst
    <3>2. CASE ~ conf.sync_on_commit
      <4>1. "power" \notin failed'
        BY <1>4, <3>2 DEF Undamaged
      <4>2. cause = "kill"
        BY <4>1 DEF Faults
      <4> QED BY <1>b, <3>2, <4>2 DEF Worst
    <3> QED BY <3>1, <3>2
  <2>4. DiskInv'
    BY <2>2 DEF DiskInv
  <2>5. Pending' = {} /\ committer'.pc = "idle"
    BY DEF Pending, IdleCommitter
  <2>6. GoodLogs'
    <3>1. \A x \in Survivors(Worst)' : x = w
      <4>1. w.recs \in Seq(Record) /\ Len(w.recs) \in Nat
        BY <1>c, LogFields
      <4>2. Continues(w.recs, w.recs)
        BY <4>1 DEF Continues
      <4>3. Len(w.recs) .. Len(w.recs) - 1 = {}
        BY <4>1
      <4>4. TornFrom(w, Len(w.recs)) = {}
        BY <4>3, Zenon DEF TornFrom
      <4>5. Survivors(Worst)' \subseteq {wal', disk_wal'} \cup
                TornFrom(wal', IF Continues(wal'.recs, disk_wal'.recs)
                               THEN Len(disk_wal'.recs) ELSE 0)
        BY <2>5 DEF Survivors
      <4> QED BY <1>b, <4>2, <4>4, <4>5
    <3>2. GoodLog(w, Ents(sst_disk), committed, Pending, mode = "down")
      BY <2>2, <2>3, Zenon DEF LogInv, GoodLogs
    <3>3. GoodLog(w, Ents(sst_disk), committed, {}, TRUE)
      <4>1. \A r \in Recovered(w) :
                r \in committed \cup Pending => r \in committed \/ \A c \in committed : c[2] < r[2]
        <5> SUFFICES ASSUME NEW r \in Recovered(w), r \in Pending, NEW c \in committed
                     PROVE  c[2] < r[2]
          OBVIOUS
        <5>0. MemInv
          BY <2>1 DEF LsmInv, Sound
        <5>1. committer.pc = "appending" /\ r[2] = next_version - 1
          BY DEF Pending
        <5>2. /\ c[2] <= visible_version /\ next_version = visible_version + 2
              /\ visible_version \in Nat
          BY <1>a, <5>0, <5>1 DEF MemInv, Types
        <5>3. c[2] \in Nat
          BY <1>a, EntryType, VersionType DEF Types
        <5> QED BY <5>1, <5>2, <5>3
      <4>2. \A r \in Recovered(w) : r \in committed \/ \A c \in committed : c[2] < r[2]
        BY <3>2, <4>1 DEF GoodLog
      <4> QED BY <3>2, <4>2, Zenon DEF GoodLog
    <3>4. Worst' = Worst
      BY DEF Worst
    <3> QED BY <2>5, <3>1, <3>3 DEF GoodLogs
  <2>7. LogInv'
    BY <1>b, <2>5, <2>6 DEF LogInv
  <2> QED BY <2>4, <2>7 DEF Sound
<1> QED BY <1>1, <1>2, <1>3, <1>4 DEF LsmInv

-----------------------------------------------------------------------------
(* Emptying the log.                                                       *)

\* Once the files cover what is committed, an empty log is as good.
LEMMA EmptiedLogs ==
    ASSUME ByInduction, Types, GoodLogs, wal'.recs = <<>>, mode /= "down", mode' /= "down",
           UNCHANGED <<disk_wal, sst_disk, committer, conf, committed>>,
           committer.pc = "idle", Covers(Ents(sst_disk), committed)
    PROVE  GoodLogs' /\ Pending' = {}
<1>1. Pending = {} /\ Pending' = {}
  BY DEF Pending
<1>2. \A w \in Survivors(Worst)' : w = wal' \/ (w = disk_wal /\ w \in Survivors(Worst))
  <2>0. Len(wal'.recs) = 0 /\ disk_wal \in Log
    BY DEF Types
  <2>1. Len(disk_wal.recs) \in Nat
    BY <2>0, LogFields
  <2>2. \A b \in Nat : b .. Len(wal'.recs) - 1 = {}
    BY <2>0
  <2>3. \A b \in Nat : TornFrom(wal', b) = {}
    BY <2>2, Zenon DEF TornFrom
  <2>4. TornFrom(wal', IF Continues(wal'.recs, disk_wal.recs) THEN Len(disk_wal.recs) ELSE 0) = {}
    BY <2>1, <2>3
  <2> QED BY <2>4 DEF Survivors, Worst
<1>3. Recovered(wal') = {} /\ ~ FileIsLegacy(wal')
  BY RecoveredEmpty DEF FileIsLegacy
<1>4. GoodLog(wal', Ents(sst_disk), committed, {}, FALSE)
  BY <1>3 DEF GoodLog, Suffix
<1>5. \A w \in Survivors(Worst) : GoodLog(w, Ents(sst_disk), committed, {}, FALSE)
  BY <1>1 DEF GoodLogs
<1>6. \A w \in Survivors(Worst)' : GoodLog(w, Ents(sst_disk), committed, {}, FALSE)
  BY <1>2, <1>4, <1>5
<1> QED BY <1>1, <1>6 DEF GoodLogs

\* Emptying the log: the files on disk cover what it had.
LEMMA FlushTruncateWalKeeps == ASSUME ByInduction, LsmInv, FlushTruncateWal PROVE LsmInv'
<1> USE DEF FlushTruncateWal, memVars, clockVars, ghostVars
<1>0. /\ flusher \in FlusherType /\ flusher.old \in SUBSET Entry
      /\ mode /= "down" /\ active = {} /\ committer.pc = "idle"
  BY Flushing
<1>a. Types /\ Ids
  BY DEF LsmInv
<1>b. /\ flusher'.pc = "truncated" /\ flusher'.old = flusher.old /\ flusher'.sst = flusher.sst
      /\ flusher' \in FlusherType
  BY <1>0, FlusherStep
<1>1. Types'
  BY <1>a, <1>b, EmptyLog DEF Types
<1>2. Control'
  BY <1>0, <1>b DEF LsmInv, Control
<1>3. Ids'
  BY <1>a, <1>b DEF Ids
<1>4. ASSUME Undamaged' PROVE Sound'
  <2>1. DiskInv /\ MemInv /\ MergeInv /\ LogInv
    BY <1>0, <1>4 DEF Undamaged, LsmInv, Sound
  <2>3. DiskInv'
    BY <2>1 DEF DiskInv
  <2>4. MemInv'
    <3>1. ~ Staged /\ ~ Staged' /\ Flushed /\ Registered' = Registered
      BY <1>b DEF Staged, Flushed, Registered
    <3> QED BY <1>b, <2>1, <3>1 DEF MemInv
  <2>5. MergeInv'
    BY <2>1 DEF MergeInv
  <2>6. LogInv'
    <3>1. Covers(Ents(sst_disk), committed)
      <4>1. Covers(Registered, committed)
        BY <2>1 DEF MemInv, Flushed
      <4>2. Registered \subseteq Ents(sst_disk)
        BY <1>a DEF Ids, Registered, Ents
      <4> QED BY <4>1, <4>2, CoversMore
    <3>2. wal'.recs = <<>>
      BY DEF Legacy
    <3>3. GoodLogs' /\ Pending' = {}
      BY <1>0, <1>a, <2>1, <3>1, <3>2, EmptiedLogs DEF LogInv
    <3> QED BY <1>0, <1>b, <3>3 DEF LogInv
  <2> QED BY <2>3, <2>4, <2>5, <2>6 DEF Sound
<1> QED BY <1>1, <1>2, <1>3, <1>4 DEF LsmInv

\* The new header; a converting open is up from here.
LEMMA FlushFinishKeeps == ASSUME ByInduction, LsmInv, FlushFinish PROVE LsmInv'
<1> USE DEF FlushFinish, FlushDone, memVars, clockVars, ghostVars
<1>0. /\ flusher \in FlusherType /\ flusher.old \in SUBSET Entry
      /\ mode /= "down" /\ active = {} /\ committer.pc = "idle"
  BY Flushing
<1>a. Types /\ Ids
  BY DEF LsmInv
<1>b. flusher'.pc \in {"idle", "linking"} /\ flusher'.old = {} /\ flusher' \in FlusherType
  BY LinkingType, IdleFlusherType
<1>1. Types'
  BY <1>a, <1>b, EmptyLog DEF Types
<1>2. Control'
  BY <1>0, <1>b DEF LsmInv, Control
<1>3. Ids'
  BY <1>a, <1>b DEF Ids
<1>4. ASSUME Undamaged' PROVE Sound'
  <2>1. DiskInv /\ MemInv /\ MergeInv /\ LogInv
    BY <1>0, <1>4 DEF Undamaged, LsmInv, Sound
  <2>2. Covers(Registered, committed)
    BY <2>1 DEF MemInv, Flushed
  <2>3. DiskInv'
    BY <2>1 DEF DiskInv
  <2>4. MemInv'
    <3>1. ~ Staged /\ ~ Staged' /\ ~ Flushed' /\ Registered' = Registered
      BY <1>b DEF Staged, Flushed, Registered
    <3>2. Suffix({}, committed)
      BY DEF Suffix
    <3>3. Covers(Registered \cup {} \cup active, committed)
      BY <2>2, CoversMore
    <3> QED BY <1>b, <2>1, <3>1, <3>2, <3>3 DEF MemInv
  <2>5. MergeInv'
    BY <2>1 DEF MergeInv
  <2>6. LogInv'
    <3>1. Covers(Ents(sst_disk), committed)
      <4>1. Registered \subseteq Ents(sst_disk)
        BY <1>a DEF Ids, Registered, Ents
      <4> QED BY <2>2, <4>1, CoversMore
    <3>2. wal'.recs = <<>> /\ wal'.framed
      BY DEF FreshWal, Framed
    <3>3. GoodLogs' /\ Pending' = {}
      BY <1>0, <1>a, <2>1, <3>1, <3>2, EmptiedLogs DEF LogInv
    <3>4. Whole(wal'.recs)
      BY <3>2, WholeEmpty
    <3> QED BY <1>0, <1>b, <3>2, <3>3, <3>4 DEF LogInv
  <2> QED BY <2>3, <2>4, <2>5, <2>6 DEF Sound
<1> QED BY <1>1, <1>2, <1>3, <1>4 DEF LsmInv

-----------------------------------------------------------------------------
(* Opening the store.                                                      *)

\* When the log is where the disk has it, a crash finds one of the two.
LEMMA NoTear ==
    ASSUME NEW x \in Log, wal' = x, disk_wal'.recs = x.recs, committer'.pc = "idle"
    PROVE  Survivors(Worst)' \subseteq {wal', disk_wal'}
<1>1. x.recs \in Seq(Record) /\ Len(x.recs) \in Nat
  BY LogFields
<1>2. Continues(x.recs, x.recs)
  BY <1>1 DEF Continues
<1>3. Len(x.recs) .. Len(x.recs) - 1 = {}
  BY <1>1
<1>4. TornFrom(x, Len(x.recs)) = {}
  BY <1>3, Zenon DEF TornFrom
<1>5. Survivors(Worst)' \subseteq {wal', disk_wal'} \cup
          TornFrom(wal', IF Continues(wal'.recs, disk_wal'.recs)
                         THEN Len(disk_wal'.recs) ELSE 0)
  BY DEF Survivors
<1> QED BY <1>2, <1>4, <1>5

\* What open reads off an undamaged disk: all that is committed, and perhaps the
\* transaction a crash interrupted.
LEMMA OpenFinds ==
    ASSUME ByInduction, LsmInv, Undamaged, Open
    PROVE  LET R == Recovered(wal)
               D == Ents(sst_disk)
           IN  /\ GoodLog(wal, D, committed, {}, TRUE) /\ disk_wal = wal
               /\ committed' = committed \cup R
               /\ visible_version' \in Nat /\ visible_version' >= visible_version
               /\ \A c \in committed' : c[2] <= visible_version'
               /\ visible_version' = 0 \/ \E c \in D \cup R : c[2] = visible_version'
<1> DEFINE R == Recovered(wal)
           D == Ents(sst_disk)
           m == MaxEntryVersion(D \cup R)
<1>0. mode = "down" /\ visible_version' = m
      /\ committed' = {e \in committed : e[2] <= m} \cup R
  <2>1. MaxRecovered(sst_disk, wal) = m
    BY DEF MaxRecovered, Ents
  <2> HIDE DEF m
  <2> QED BY <2>1, Zenon DEF Open
<1>1. Types /\ Control /\ DiskInv /\ LogInv
  BY DEF LsmInv, Sound
<1>2. /\ R \in SUBSET Entry /\ D \in SUBSET Entry /\ committed \in SUBSET Entry
      /\ visible_version \in Nat
  BY <1>1, RecoveredType, EntsType DEF Types
<1>3. GoodLog(wal, D, committed, {}, TRUE) /\ disk_wal = wal
  <2>1. Pending = {}
    BY <1>0, <1>1 DEF Control, Pending
  <2>2. wal \in Survivors(Worst)
    BY DEF Survivors
  <2> QED BY <1>0, <1>1, <2>1, <2>2 DEF LogInv, GoodLogs
<1>4. /\ m \in Nat /\ \A e \in D \cup R : e[2] \in Nat /\ e[2] <= m
      /\ m = 0 \/ \E e \in D \cup R : e[2] = m
  BY <1>2, MaxVersionOf
<1> HIDE DEF m, R, D
<1>5. \A c \in committed : c[2] \in Nat /\ c[2] <= m
  <2> TAKE c \in committed
  <2>1. PICK g \in D \cup R : g[1] = c[1] /\ c[2] <= g[2]
    BY <1>3 DEF GoodLog, Covers, R
  <2>2. c[2] \in Nat
    BY <1>2, EntryType, VersionType
  <2> QED BY <1>4, <2>1, <2>2
<1>6. committed' = committed \cup R
  BY <1>0, <1>5
<1>7. m >= visible_version
  BY <1>1, <1>2, <1>4, <1>5 DEF DiskInv
<1>8. \A c \in committed' : c[2] <= m
  BY <1>4, <1>5, <1>6
<1> QED BY <1>0, <1>3, <1>4, <1>6, <1>7, <1>8 DEF R, D

\* LsmTree::open: the files in the order of their ids and the replayed log are what
\* is committed.
LEMMA OpenKeeps == ASSUME ByInduction, LsmInv, Open PROVE LsmInv'
<1> DEFINE R == Recovered(wal)
           D == Ents(sst_disk)
           cut == TruncateTo(wal, ValidLen(wal))
<1>u. /\ mode = "down" /\ mode' = (IF FileIsLegacy(wal) THEN "converting" ELSE "up")
      /\ sst_files' \in SortSsts(sst_disk) /\ active' = R /\ immutables' = <<>>
      /\ next_sst_id' = MaxOf({f.id : f \in sst_disk}) + 1
      /\ next_version' = visible_version' + 1
      /\ visible_version' = MaxEntryVersion(D \cup R)
      /\ wal' = (IF FileIsLegacy(wal) THEN wal ELSE Framed(cut.recs))
      /\ disk_wal' = (IF cut = wal \/ FileIsLegacy(wal) THEN disk_wal ELSE cut)
      /\ committed' \subseteq committed \cup R
      /\ UNCHANGED <<sst_disk, committer, flusher, merger, conf, failed>>
  <2>1. MaxRecovered(sst_disk, wal) = MaxEntryVersion(D \cup R)
    BY DEF MaxRecovered, Ents
  <2> HIDE DEF D
  <2>2. /\ mode = "down" /\ mode' = (IF FileIsLegacy(wal) THEN "converting" ELSE "up")
        /\ sst_files' \in SortSsts(sst_disk) /\ active' = R /\ immutables' = <<>>
        /\ next_sst_id' = MaxOf({f.id : f \in sst_disk}) + 1
        /\ next_version' = MaxEntryVersion(D \cup R) + 1
        /\ visible_version' = MaxEntryVersion(D \cup R)
    BY <2>1, Zenon DEF Open
  <2>3. /\ wal' = (IF FileIsLegacy(wal) THEN wal ELSE Framed(cut.recs))
        /\ disk_wal' = (IF cut = wal \/ FileIsLegacy(wal) THEN disk_wal ELSE cut)
    BY Zenon DEF Open
  <2>4. committed' \subseteq committed \cup R
    BY DEF Open
  <2>5. UNCHANGED <<sst_disk, committer, flusher, merger, conf, failed>>
    BY DEF Open, procVars
  <2> QED BY <2>2, <2>3, <2>4, <2>5
<1>a. /\ Types /\ Ids /\ Control /\ committer.pc = "idle" /\ flusher = IdleFlusher
      /\ merger.pc = "idle" /\ flusher.pc = "idle" /\ flusher.old = {}
  BY <1>u, IdleFlusherType DEF LsmInv, Control
<1>b. /\ wal \in Log /\ disk_wal \in Log /\ R \in SUBSET Entry /\ D \in SUBSET Entry
      /\ committed \in SUBSET Entry
  BY <1>a, RecoveredType, EntsType DEF Types
<1>c. /\ sst_files' \in Seq(File) /\ Range(sst_files') = sst_disk
      /\ \A i, j \in DOMAIN sst_files' : i /= j => sst_files'[i].id /= sst_files'[j].id
      /\ \A i, j \in DOMAIN sst_files' : i < j => Below(sst_files'[i].entries, sst_files'[j].entries)
  <2>1. sst_disk \in SUBSET File /\ IsFiniteSet(sst_disk) /\ \A f, g \in sst_disk : f.id = g.id => f = g
    BY <1>a DEF Types, Ids
  <2> QED BY <1>u, <2>1, Sorted
<1>d. visible_version' \in Nat
  BY <1>b, <1>u, MaxVersionOf
<1>e. next_sst_id' \in Nat /\ \A f \in sst_disk : f.id < next_sst_id'
  <2> DEFINE S == {f.id : f \in sst_disk} \cup {0}
  <2>1. next_sst_id \in Nat /\ \A f \in sst_disk : f.id \in Nat /\ f.id < next_sst_id
    BY <1>a DEF Types, Ids, File
  <2>2. S \subseteq 0 .. next_sst_id /\ S /= {} /\ \A f \in sst_disk : f.id \in S
    BY <2>1
  <2> HIDE DEF S
  <2>3. Max(S) \in S /\ \A y \in S : Max(S) >= y
    BY <2>1, <2>2, MaxIsMember
  <2>4. next_sst_id' = Max(S) + 1
    BY <1>u DEF MaxOf, S
  <2> DEFINE x == Max(S)
  <2> HIDE DEF x
  <2>5. x \in S /\ next_sst_id' = x + 1 /\ \A y \in S : x >= y
    BY <2>3, <2>4 DEF x
  <2>6. x \in Nat /\ \A f \in sst_disk : x >= f.id
    BY <2>1, <2>2, <2>5
  <2> QED BY <2>1, <2>5, <2>6
<1>f. ~ FileIsLegacy(wal) =>
        /\ wal' \in Log /\ cut \in Log /\ cut.recs = wal'.recs /\ wal'.framed = TRUE
        /\ Whole(wal'.recs) /\ Recovered(wal') = R /\ Recovered(cut) = R
        /\ ~ FileIsLegacy(cut)
  BY <1>b, <1>u, CutLog
<1> HIDE DEF R, D, cut
<1>1. Types'
  <2>1. wal' \in Log /\ disk_wal' \in Log
    BY <1>b, <1>f, <1>u
  <2>2. mode' \in {"down", "converting", "up"}
    BY <1>u
  <2>3. committed' \in SUBSET Entry /\ next_version' \in Nat \ {0}
    BY <1>b, <1>d, <1>u
  <2>4. active' \in SUBSET Entry /\ immutables' \in Seq(SUBSET Entry)
    BY <1>b, <1>u
  <2>5. /\ conf' \in Configs /\ sst_disk' \subseteq File /\ IsFiniteSet(sst_disk')
        /\ committer' \in [pc : {"idle", "appending"}, writes : SUBSET Key, base : Nat]
        /\ flusher' \in FlusherType /\ merger' \in MergerType
    BY <1>a, <1>u DEF Types
  <2> QED BY <1>c, <1>d, <1>e, <2>1, <2>2, <2>3, <2>4, <2>5 DEF Types
<1>2. Control'
  BY <1>a, <1>u DEF Control
<1>3. Ids'
  BY <1>a, <1>c, <1>e, <1>u DEF Ids
<1>4. ASSUME Undamaged' PROVE Sound'
  <2>1. Undamaged /\ DiskInv
    BY <1>4, <1>u DEF Undamaged, LsmInv, Sound
  <2>2. /\ GoodLog(wal, D, committed, {}, TRUE) /\ disk_wal = wal
        /\ committed' = committed \cup R
        /\ \A c \in committed' : c[2] <= visible_version'
        /\ visible_version' = 0 \/ \E c \in D \cup R : c[2] = visible_version'
    BY <2>1, OpenFinds DEF R, D
  <2>3. \A n \in R : n \in committed \/ \A c \in committed : c[2] < n[2]
    BY <2>2 DEF GoodLog, R
  <2>4. D \subseteq committed /\ \A f \in sst_disk : f.entries \subseteq committed
    BY <2>1 DEF DiskInv, D, Ents
  <2>5. DiskInv'
    <3>1. \A f \in sst_disk : Complete(f.entries, committed')
      BY <1>b, <2>1, <2>2, <2>3, <2>4, CompleteKept DEF DiskInv
    <3>2. Closed(D, committed')
      BY <1>b, <2>1, <2>2, <2>3, <2>4, ClosedKept DEF DiskInv, D
    <3>3. visible_version' = 0 \/ \E c \in committed' : c[2] = visible_version'
      BY <2>2, <2>4
    <3> QED BY <1>u, <2>2, <2>4, <3>1, <3>2, <3>3 DEF DiskInv, D
  <2>6. Covers(D \cup R, committed') /\ Suffix(R, committed')
    <3>1. Covers(D \cup R, committed) /\ Suffix(R, committed)
      BY <2>2 DEF GoodLog, R
    <3>2. Covers(D \cup R, R)
      BY <1>b, CoversSelf
    <3>3. Covers(D \cup R, committed \cup R)
      BY <3>1, <3>2, CoversUnion
    <3>4. Suffix(R, committed \cup R)
      BY <3>1 DEF Suffix
    <3> QED BY <2>2, <3>3, <3>4
  <2>7. MemInv'
    <3>1. Registered' = D /\ ~ Staged' /\ ~ Flushed'
      BY <1>a, <1>c, <1>u DEF Registered, Staged, Flushed, D
    <3>2. Closed(D, committed')
      BY <1>u, <2>5 DEF DiskInv, D
    <3>3. Suffix({}, committed') /\ {} \subseteq committed' /\ R \subseteq committed'
      BY <2>2 DEF Suffix
    <3>4. Covers(D \cup {} \cup R, committed')
      <4>1. D \cup {} \cup R = D \cup R
        OBVIOUS
      <4> QED BY <2>6, <4>1
    <3> QED BY <1>a, <1>c, <1>u, <2>2, <2>6, <3>1, <3>2, <3>3, <3>4 DEF MemInv
  <2>8. MergeInv'
    BY <1>a, <1>u DEF MergeInv
  <2>9. LogInv'
    <3>1. Pending' = {} /\ mode' /= "down"
      BY <1>a, <1>u DEF Pending
    <3>2. \A w : Recovered(w) = R /\ (FileIsLegacy(w) => R /= {})
              => GoodLog(w, D, committed', {}, FALSE)
      <4>1. \A r \in R : r \in committed'
        BY <2>2
      <4> QED BY <1>b, <2>6, <4>1 DEF GoodLog
    <3>3. FileIsLegacy(wal) => R /= {}
      BY <2>2 DEF GoodLog, R
    <3>4. disk_wal'.recs = wal'.recs
      BY <1>f, <1>u, <2>2
    <3>5. Survivors(Worst)' \subseteq {wal', disk_wal'}
      BY <1>1, <1>a, <1>u, <3>4, NoTear DEF Types
    <3>6. GoodLog(wal', D, committed', {}, FALSE)
      <4>1. CASE FileIsLegacy(wal)
        BY <1>u, <3>2, <3>3, <4>1 DEF R
      <4>2. CASE ~ FileIsLegacy(wal)
        BY <1>f, <3>2, <4>2 DEF FileIsLegacy
      <4> QED BY <4>1, <4>2
    <3>7. GoodLog(disk_wal', D, committed', {}, FALSE)
      <4>1. CASE disk_wal' = wal
        BY <3>2, <3>3, <4>1 DEF R
      <4>2. CASE disk_wal' = cut /\ ~ FileIsLegacy(wal)
        BY <1>f, <3>2, <4>2
      <4> QED BY <1>u, <2>2, <4>1, <4>2
    <3>8. GoodLogs'
      BY <1>u, <3>1, <3>5, <3>6, <3>7 DEF GoodLogs, D
    <3> QED BY <1>a, <1>f, <1>u, <3>1, <3>3, <3>8 DEF LogInv
  <2> QED BY <2>5, <2>7, <2>8, <2>9 DEF Sound
<1> QED BY <1>1, <1>2, <1>3, <1>4 DEF LsmInv

\* A new directory, and one an older binary left with a log without framing.
LEMMA InitLsmInv == ASSUME ByInduction, Init PROVE LsmInv
<1>u. /\ conf \in Configs /\ wal \in InitialWal(conf.wal) /\ disk_wal = wal /\ sst_disk = {}
      /\ mode = "down" /\ active = {} /\ immutables = <<>> /\ sst_files = <<>>
      /\ next_version = 1 /\ visible_version = 0 /\ next_sst_id = 1
      /\ committer = IdleCommitter /\ flusher = IdleFlusher /\ merger = IdleMerger
      /\ committed = Recovered(wal)
  BY DEF Init
<1>a. wal \in Log /\ (FileIsLegacy(wal) => Recovered(wal) /= {})
  <2>1. CASE conf.wal = "new"
    <3>1. wal \in {Legacy(<<>>), FreshWal}
      BY <1>u, <2>1 DEF InitialWal
    <3>2. wal.recs = <<>>
      BY <3>1 DEF Legacy, FreshWal, Framed
    <3> QED BY <3>1, <3>2, EmptyLog DEF FileIsLegacy
  <2>2. CASE conf.wal /= "new"
    <3>1. 2 <= MaxVersion /\ conf.keys \subseteq Key
      <4>1. /\ conf.wal \in {"new"} \cup (IF MaxVersion < 2 THEN {} ELSE {"legacy"})
            /\ conf.keys \subseteq Key
        BY <1>u, ConfigAssumption, Zenon
      <4> QED BY <2>2, <4>1, VersionType
    <3>2. 2 \in Version
      BY <3>1, VersionType
    <3>3. CASE \E k \in conf.keys : wal = Legacy(<<Data(k, 1)>> \o <<>>)
      <4>1. PICK k \in conf.keys : wal = Legacy(<<Data(k, 1)>> \o <<>>)
        BY <3>3
      <4>2. <<Data(k, 1)>> \o <<>> = <<Data(k, 1)>>
        OBVIOUS
      <4> QED BY <3>1, <3>2, <4>1, <4>2, LegacyLog, TornRecord
    <3>4. CASE \E k \in conf.keys : wal = Legacy(<<Data(k, 1)>> \o <<Torn>>)
      <4>1. PICK k \in conf.keys : wal = Legacy(<<Data(k, 1)>> \o <<Torn>>)
        BY <3>4
      <4>2. <<Data(k, 1)>> \o <<Torn>> = <<Data(k, 1), Torn>>
        BY PairIs, Zenon
      <4> QED BY <3>1, <3>2, <4>1, <4>2, LegacyLog, TornRecord
    <3>5. CASE \E k \in conf.keys, l \in conf.keys : wal = Legacy(<<Data(k, 1), Data(l, 2)>>)
      <4>1. PICK k \in conf.keys, l \in conf.keys : wal = Legacy(<<Data(k, 1), Data(l, 2)>>)
        BY <3>5
      <4>2. Data(l, 2) \in Record /\ ~ IsFooter(Data(l, 2))
            /\ <<Data(l, 2).key, Data(l, 2).version>> \in Entry
        BY <3>1, <3>2 DEF Data, Record, IsFooter, Entry
      <4> QED BY <3>1, <3>2, <4>1, <4>2, LegacyLog
    <3> QED BY <1>u, <2>2, <3>3, <3>4, <3>5 DEF InitialWal
  <2> QED BY <2>1, <2>2
<1>b. committed \in SUBSET Entry
  BY <1>a, <1>u, RecoveredType
<1>c. committer.pc = "idle" /\ Pending = {}
  BY <1>u DEF IdleCommitter, Pending
<1>1. Types
  <2>1. IsFiniteSet({})
    BY FiniteEmpty
  <2>2. IdleCommitter \in [pc : {"idle", "appending"}, writes : SUBSET Key, base : Nat]
    BY DEF IdleCommitter
  <2> QED BY <1>a, <1>b, <1>u, <2>1, <2>2, IdleFlusherType, IdleMergerType DEF Types
<1>2. Control
  BY <1>c, <1>u, IdleFlusherType, IdleMergerType DEF Control
<1>3. Ids
  <2>1. Range(<<>>) = {} /\ DOMAIN <<>> = {}
    BY DEF Range
  <2> QED BY <1>u, <2>1, IdleFlusherType, IdleMergerType DEF Ids
<1>4. Sound
  <2>1. Ents(sst_disk) = {}
    BY <1>u DEF Ents
  <2>2. DiskInv
    BY <1>u, <2>1 DEF DiskInv, Closed
  <2>3. \A x \in Survivors(Worst) : x = wal
    <3>1. wal.recs \in Seq(Record) /\ Len(wal.recs) \in Nat
      BY <1>a, LogFields
    <3>2. Continues(wal.recs, wal.recs)
      BY <3>1 DEF Continues
    <3>3. Len(wal.recs) .. Len(wal.recs) - 1 = {}
      BY <3>1
    <3>4. TornFrom(wal, Len(wal.recs)) = {}
      BY <3>3, Zenon DEF TornFrom
    <3> QED BY <1>c, <1>u, <3>2, <3>4 DEF Survivors
  <2>4. GoodLog(wal, {}, committed, {}, TRUE)
    <3>1. Covers({} \cup Recovered(wal), committed)
      BY <1>b, <1>u, CoversSelf
    <3> QED BY <1>a, <1>b, <1>u, <3>1 DEF GoodLog, Suffix
  <2>5. GoodLogs
    BY <1>c, <1>u, <2>1, <2>3, <2>4 DEF GoodLogs
  <2> QED BY <1>c, <1>u, <2>2, <2>5 DEF Sound, LogInv
<1> QED BY <1>1, <1>2, <1>3, <1>4 DEF LsmInv

-----------------------------------------------------------------------------
(* Reading, and the whole of Next.                                         *)

\* In a tree that is up and undamaged every read at the visible version finds the
\* newest committed version: LatestReadable follows from the invariant.
LEMMA Readable == ASSUME ByInduction, LsmInv PROVE LatestReadable
<1> SUFFICES ASSUME mode = "up", flusher.pc /= "rotated", Undamaged, NEW k \in Key
             PROVE  GetAt(k, visible_version) = Newest(k, visible_version)
  BY DEF LatestReadable
<1> DEFINE L == Layers(active, immutables, sst_files)
           a == Len(immutables)
           b == Len(sst_files)
<1>1. Types /\ Ids /\ Control /\ DiskInv /\ MemInv
  BY DEF LsmInv, Sound
<1>2. /\ active \in SUBSET Entry /\ immutables \in Seq(SUBSET Entry) /\ sst_files \in Seq(File)
      /\ committed \in SUBSET Entry /\ visible_version \in Nat /\ flusher.old \in SUBSET Entry
  BY <1>1 DEF Types, FlusherType
<1>3. /\ L \in Seq(SUBSET Entry)
      /\ Len(L) = 1 + a + b
      /\ L[1] = active
      /\ \A i \in 1 .. a : L[1 + i] = immutables[a + 1 - i]
      /\ \A i \in 1 .. b : L[1 + a + i] = sst_files[b + 1 - i].entries
  BY <1>2, LayerAt
<1>4. a \in Nat /\ b \in Nat /\ DOMAIN sst_files = 1 .. b
  BY <1>2
<1> HIDE DEF L
<1>5. /\ Staged => a = 1 /\ immutables[1] = flusher.old
      /\ ~ Staged => a = 0
  BY <1>1 DEF MemInv
<1> HIDE DEF a, b
<1>6. \A i \in 1 .. Len(L) :
          \/ i = 1
          \/ Staged /\ a = 1 /\ i = 2 /\ L[i] = flusher.old
          \/ \E p \in 1 .. b : i = 1 + a + p /\ b + 1 - p \in 1 .. b
                               /\ L[i] = sst_files[b + 1 - p].entries
  <2> TAKE i \in 1 .. Len(L)
  <2>1. i = 1 \/ i \in 2 .. 1 + a \/ i \in 2 + a .. 1 + a + b
    BY <1>3, <1>4
  <2>2. CASE i \in 2 .. 1 + a
    <3>1. Staged /\ a = 1 /\ i = 2
      BY <1>4, <1>5, <2>2
    <3>2. L[1 + 1] = immutables[a + 1 - 1]
      BY <1>3, <3>1
    <3> QED BY <3>1, <3>2, <1>5
  <2>3. CASE i \in 2 + a .. 1 + a + b
    <3> DEFINE p == i - 1 - a
    <3>1. p \in 1 .. b /\ i = 1 + a + p /\ b + 1 - p \in 1 .. b
      BY <1>4, <2>3
    <3> HIDE DEF p
    <3> QED BY <1>3, <3>1
  <2> QED BY <2>1, <2>2, <2>3
<1>7. \A p \in 1 .. b : sst_files[p] \in sst_disk /\ sst_files[p].entries \in SUBSET Entry
          /\ sst_files[p].entries \subseteq committed
          /\ Complete(sst_files[p].entries, committed)
  <2> TAKE p \in 1 .. b
  <2>1. sst_files[p] \in sst_disk
    BY <1>1, <1>4 DEF Ids, Range
  <2>2. sst_files[p] \in File
    BY <2>1, <1>1 DEF Types
  <2> QED BY <1>1, <2>1, <2>2 DEF DiskInv, Ents, File
<1>8. \A i \in 1 .. Len(L) : L[i] \subseteq committed
  <2>1. active \subseteq committed /\ flusher.old \subseteq committed
    BY <1>1 DEF MemInv
  <2> QED BY <1>3, <1>6, <1>7, <2>1
<1>9. \A c \in committed : c[2] <= visible_version
  BY <1>1 DEF MemInv
<1>10. \A c \in committed : \E i \in 1 .. Len(L) : \E g \in L[i] : g[1] = c[1] /\ c[2] <= g[2]
  <2> TAKE c \in committed
  <2>1. Covers(Registered \cup (IF Staged THEN flusher.old ELSE {}) \cup active, committed)
    <3>1. CASE Staged
      BY <1>1, <3>1 DEF MemInv
    <3>2. CASE Flushed
      <4>1. Covers(Registered, committed)
        BY <1>1, <3>2 DEF MemInv
      <4> QED BY <4>1 DEF Covers
    <3>3. CASE ~ Staged /\ ~ Flushed
      <4>1. flusher.pc \in {"idle", "linking"}
        BY <1>1, <3>3 DEF Types, FlusherType, Staged, Flushed
      <4>2. flusher.old = {}
        BY <1>1, <4>1 DEF Control
      <4> QED BY <1>1, <3>3, <4>2 DEF MemInv
    <3> QED BY <3>1, <3>2, <3>3
  <2>2. PICK g \in Registered \cup (IF Staged THEN flusher.old ELSE {}) \cup active :
            g[1] = c[1] /\ c[2] <= g[2]
    BY <2>1 DEF Covers
  <2>3. CASE g \in active
    BY <1>3, <1>4, <2>2, <2>3
  <2>4. CASE Staged /\ g \in flusher.old
    <3>1. 2 \in 1 .. Len(L) /\ L[2] = flusher.old
      <4>1. a = 1 /\ immutables[1] = flusher.old
        BY <1>5, <2>4
      <4>2. L[1 + 1] = immutables[a + 1 - 1]
        BY <1>3, <4>1
      <4> QED BY <1>3, <1>4, <4>1, <4>2
    <3> QED BY <2>2, <2>4, <3>1
  <2>5. CASE g \in Registered
    <3>1. PICK p \in 1 .. b : g \in sst_files[p].entries
      BY <2>5, <1>4 DEF Registered, Ents, Range
    <3> DEFINE q == b + 1 - p
    <3>2. q \in 1 .. b /\ b + 1 - q = p /\ 1 + a + q \in 1 .. Len(L)
      BY <1>3, <1>4
    <3> HIDE DEF q
    <3>3. L[1 + a + q] = sst_files[p].entries
      <4>1. L[1 + a + q] = sst_files[b + 1 - q].entries
        BY <1>3, <3>2
      <4> QED BY <3>2, <4>1
    <3> QED BY <2>2, <3>1, <3>2, <3>3
  <2> QED BY <2>2, <2>3, <2>4, <2>5
<1>11. \A i, j \in 1 .. Len(L) : i < j => Dominates(L[i], L[j])
  <2> SUFFICES ASSUME NEW i \in 1 .. Len(L), NEW j \in 1 .. Len(L), i < j
               PROVE  Dominates(L[i], L[j])
    OBVIOUS
  <2>0. \A A, B \in SUBSET Entry : A \subseteq committed /\ Complete(B, committed) /\ Below(A, B)
                                   => Dominates(B, A)
    BY Zenon DEF Complete, Below, Dominates
  <2>1. L[j] \in SUBSET Entry /\ L[j] \subseteq committed
    BY <1>2, <1>8
  <2>2. \A B \in SUBSET Entry : Suffix(B, committed) => Dominates(B, L[j])
    BY <1>2, <2>0, <2>1, SuffixComplete, BelowSuffix
  <2>3. Suffix(active, committed) /\ Suffix(flusher.old, committed)
    BY <1>1 DEF MemInv
  <2>4. CASE i = 1
    BY <1>2, <1>3, <2>2, <2>3, <2>4
  <2>5. CASE L[i] = flusher.old
    BY <1>2, <2>2, <2>3, <2>5
  <2>6. ASSUME NEW p \in 1 .. b, i = 1 + a + p, b + 1 - p \in 1 .. b,
               L[i] = sst_files[b + 1 - p].entries
        PROVE  Dominates(L[i], L[j])
    <3>1. PICK q \in 1 .. b : j = 1 + a + q /\ b + 1 - q \in 1 .. b
                              /\ L[j] = sst_files[b + 1 - q].entries
      <4>1. j /= 1 /\ ~ (a = 1 /\ j = 2)
        BY <1>4, <2>6
      <4> QED BY <1>6, <4>1
    <3>2. b + 1 - q < b + 1 - p
      BY <1>4, <2>6, <3>1
    <3>3. Below(L[j], L[i])
      <4>1. Below(sst_files[b + 1 - q].entries, sst_files[b + 1 - p].entries)
        BY <1>1, <1>4, <2>6, <3>1, <3>2 DEF MemInv
      <4> QED BY <2>6, <3>1, <4>1
    <3>4. Complete(L[i], committed) /\ L[i] \in SUBSET Entry
      BY <1>7, <2>6
    <3> QED BY <2>0, <2>1, <3>3, <3>4
  <2> QED BY <1>6, <2>4, <2>5, <2>6
<1>12. FirstHit(L, k, visible_version) = NewestOf(committed, k, visible_version)
  <2>1. L \in Seq(SUBSET Entry)
    BY <1>3
  <2>2. committed \in SUBSET Entry
    BY <1>2
  <2>3. visible_version \in Nat
    BY <1>2
  <2>4. Layered(L, committed, visible_version)
    BY <2>1, <2>2, <2>3, <1>8, <1>9, <1>10, <1>11, Zenon DEF Layered
  <2> QED BY <2>4, FirstHitNewest
<1> QED BY <1>12 DEF GetAt, Newest, NewestOf, L

\* Every step keeps the invariant.
LEMMA NextLsmInv == ASSUME ByInduction, LsmInv, [Next]_vars PROVE LsmInv'
<1>0. conf.snapshots \in BOOLEAN
  BY ConfigAssumption DEF LsmInv, Types
<1>1. CASE \E W \in (SUBSET conf.keys) \ {{}} : CommitAppend(W)
  BY <1>1, CommitAppendKeeps
<1>2. CASE CommitPublish
  BY <1>2, CommitPublishKeeps
<1>3. CASE CommitAppendFails \/ CommitSyncFails \/ FlushWriteFails
  BY <1>3, CommitAppendFailsKeeps, CommitSyncFailsKeeps, FlushWriteFailsKeeps
<1>4. CASE \E snap \in {FALSE, conf.snapshots} : FlushRotate(snap) \/ FlushEmpty(snap)
  BY <1>0, <1>4, FlushRotateKeeps, FlushEmptyKeeps
<1>5. CASE FlushStage \/ FlushWrite \/ FlushRegister \/ FlushUnstage
  BY <1>5, FlushStageKeeps, FlushWriteKeeps, FlushRegisterKeeps, FlushUnstageKeeps
<1>6. CASE FlushTruncateWal \/ FlushFinish \/ SnapshotLink
  BY <1>6, FlushTruncateWalKeeps, FlushFinishKeeps, SnapshotLinkKeeps
<1>7. CASE CompactStart \/ CompactWrite \/ CompactWriteFails \/ CompactSwap \/ CompactUnlink
  BY <1>7, CompactStartKeeps, CompactWriteKeeps, CompactWriteFailsKeeps, CompactSwapKeeps,
     CompactUnlinkKeeps
<1>8. CASE \E r \in conf.readers : SnapshotLoad(r) \/ SnapshotRegister(r) \/ SnapshotRelease(r)
  BY <1>8, Frame DEF SnapshotLoad, SnapshotRegister, SnapshotRelease, diskVars, memVars,
     clockVars, procVars, ghostVars
<1>9. CASE \E cause \in {"kill"} \cup (conf.faults \cap {"power"}) : Crash(cause)
  BY <1>9, CrashKeeps
<1>10. CASE Open
  BY <1>10, OpenKeeps
<1>11. CASE UNCHANGED vars
  BY <1>11, Frame DEF vars, diskVars, memVars, clockVars, procVars, ghostVars
<1> QED BY <1>1, <1>2, <1>3, <1>4, <1>5, <1>6, <1>7, <1>8, <1>9, <1>10, <1>11 DEF Next

\* No step takes a published version back.
LEMMA PublishedStep ==
    ASSUME ByInduction, LsmInv, [Next]_vars, Undamaged'
    PROVE  visible_version' >= visible_version
<1>0. visible_version \in Nat
  BY DEF LsmInv, Types
<1>1. CASE CommitPublish
  <2>1. UNCHANGED <<conf, failed>> /\ visible_version' = next_version - 1
        /\ committer.pc = "appending"
    BY <1>1 DEF CommitPublish
  <2>2. mode /= "down"
    BY <2>1 DEF LsmInv, Control
  <2>3. MemInv
    BY <2>1, <2>2 DEF LsmInv, Sound, Undamaged
  <2>4. next_version = visible_version + 2
    BY <2>1, <2>3 DEF MemInv
  <2> QED BY <1>0, <2>1, <2>4
<1>2. CASE Open
  <2>1. Undamaged
    BY <1>2 DEF Open, Undamaged
  <2> QED BY <1>2, <2>1, OpenFinds
<1>3. CASE UNCHANGED visible_version
  BY <1>0, <1>3
<1>4. \/ CommitPublish \/ Open \/ UNCHANGED visible_version
  BY DEF Next, vars, clockVars, CommitAppend, CommitAppendFails, CommitSyncFails,
     FlushRotate, FlushEmpty, FlushStage, FlushWrite, FlushWriteFails, FlushRegister,
     FlushUnstage, FlushTruncateWal, FlushFinish, SnapshotLink, CompactStart, CompactWrite,
     CompactWriteFails, CompactSwap, CompactUnlink, SnapshotLoad, SnapshotRegister,
     SnapshotRelease, Crash
<1> QED BY <1>1, <1>2, <1>3, <1>4

-----------------------------------------------------------------------------
(* The theorems.                                                           *)

\* The library, from here on: the steps do without its theorems.
Fin == INSTANCE FiniteSetTheorems

\* Cardinalities are numbers, and sets of numbers have a least element.
LEMMA Counting == ByInduction
<1>1. ASSUME NEW S, IsFiniteSet(S) PROVE Cardinality(S) \in Nat
  BY <1>1, Fin!FS_CardinalityType DEF Cardinality, IsFiniteSet, Fin!Cardinality, Fin!IsFiniteSet
<1>2. ASSUME NEW S \in SUBSET Nat, S /= {} PROVE \E x \in S : \A y \in S : x =< y
  <2> DEFINE R == {p \in Nat \X Nat : p[1] < p[2]}
  <2>1. Fin!IsWellFoundedOn(R, Nat)
    BY Fin!NatLessThanWellFounded DEF Fin!OpToRel
  <2>2. \A x, y \in S : y < x => <<y, x>> \in R
    OBVIOUS
  <2> HIDE DEF R
  <2>3. PICK x \in S : \A y \in S : ~ (<<y, x>> \in R)
    BY <1>2, <2>1, Fin!WFMin, Zenon
  <2>4. ASSUME NEW y \in S PROVE x =< y
    <3>1. ~ (y < x)
      BY <2>2, <2>3, Zenon
    <3>2. x \in Nat /\ y \in Nat
      OBVIOUS
    <3> QED BY <3>1, <3>2
  <2> QED BY <2>4
<1> QED BY <1>1, <1>2, Zenon DEF ByInduction

\* In every reachable state the files, the ids and the tasks are well formed and,
\* while Undamaged, the files on disk, the memtables and the log hold between them
\* what is committed, in the order reads and recovery rely on.
THEOREM LsmInvariant == Spec => []LsmInv
<1>1. Init => LsmInv
  BY Counting, InitLsmInv
<1>2. LsmInv /\ [Next]_vars => LsmInv'
  BY Counting, NextLsmInv
<1> QED BY <1>1, <1>2, PTL DEF Spec

\* Whatever interleaving of commits, flushes, compactions, snapshots, crashes,
\* torn writes and reopens, LsmTree::get_at at the visible version answers with
\* the newest committed version of every key, while Undamaged and but for the two
\* steps of a rotation.
THEOREM ReadsFindNewest == Spec => []LatestReadable
<1>1. LsmInv => LatestReadable
  BY Counting, Readable
<1> QED BY <1>1, LsmInvariant, PTL

\* While Undamaged, no crash and no LsmTree::open takes back a version that
\* LsmTree::commit has published.
THEOREM PublishedStaysDurable == Spec => PublishedDurable
<1> DEFINE Kept == Undamaged' => visible_version' >= visible_version
<1>1. LsmInv /\ [Next]_vars => [Kept]_vars
  BY Counting, PublishedStep
<1> QED BY <1>1, LsmInvariant, PTL DEF Spec, PublishedDurable
=============================================================================
