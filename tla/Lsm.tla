--------------------------------- MODULE Lsm ---------------------------------
(***************************************************************************)
(* The LSM tree (crates/rhypedb-storage/src/lsm.rs): commit, flush,        *)
(* compaction, online snapshot, crash and reopen.                          *)
(*                                                                         *)
(* An entry is <<key, version>>: the value a transaction wrote is named by *)
(* its version, and a tombstone is copied by every path here like a value. *)
(* A memtable is a set of entries; an SST is an id and a set of entries.   *)
(* Commits are serialised by commit_mu, so there is one committer; whether *)
(* a transaction conflicts is the subject of Mvcc and any write set may    *)
(* commit here.  flush_lock excludes commits from flushes, compaction_mutex*)
(* excludes merges from each other; a merge runs beside commits and        *)
(* flushes.  Whether the memtable is large enough to flush is left open.   *)
(***************************************************************************)
EXTENDS Wal

CONSTANTS
    Key,            \* user keys
    Reader,         \* read transactions
    MaxVersion,     \* bound on commit versions
    MaxSstId,       \* bound on SST files written
    Configs         \* the deployments to explore, see ConfigAssumption

Faults == {"wal_append", "wal_sync", "sst_write", "merge_write", "power"}

Version == 1 .. MaxVersion

ASSUME BoundAssumption ==
    IsFiniteSet(Key) /\ {MaxVersion, MaxSstId} \subseteq Nat

\* A deployment: LsmConfig::sync_on_commit, what the first open finds in
\* wal.log, whether snapshot_to is called, which I/O faults and how many crashes
\* happen, and what its transactions write and read.
ASSUME ConfigAssumption ==
    \A c \in Configs :
        /\ {c.sync_on_commit, c.snapshots} \subseteq BOOLEAN
        /\ c.wal \in {"new"} \cup (IF MaxVersion < 2 THEN {} ELSE {"legacy"})
        /\ c.faults \subseteq Faults
        /\ c.crashes \in Nat
        /\ c.ssts \in 1 .. MaxSstId
        /\ c.keys \subseteq Key
        /\ c.readers \subseteq Reader

NoFile == [id |-> 0, entries |-> {}]

VARIABLES
    wal, disk_wal,      \* wal.log in the page cache, and as last fsynced
    sst_disk,           \* the SST files in data_dir/sst
    mode,               \* "down", "converting" (open's legacy flush) or "up"
    active, immutables, \* memtables
    sst_files,          \* registered SSTs, oldest first
    next_version, visible_version, next_sst_id,
    committer,          \* [pc, writes, base]
    flusher,            \* [pc, old, sst, snap]: holds flush_lock.write unless idle
    merger,             \* [pc, inputs, out]: holds compaction_mutex unless idle
    reader,             \* Reader -> [pc, snap, prompt]
    backup,             \* what snapshot_to last captured
    conf,               \* the deployment, one of Configs
    crashes,
    failed,             \* history: the faults that have happened
    committed,          \* history: entries published or recovered
    attempt             \* history: the write set last tried at each version

diskVars == <<wal, disk_wal, sst_disk>>
memVars == <<active, immutables, sst_files>>
clockVars == <<next_version, visible_version, next_sst_id>>
procVars == <<committer, flusher, merger>>
ghostVars == <<conf, failed, committed, attempt>>
vars == <<diskVars, mode, memVars, clockVars, procVars, reader, backup, crashes,
          ghostVars>>

IdleCommitter == [pc |-> "idle", writes |-> {}, base |-> 0]
IdleFlusher == [pc |-> "idle", old |-> {}, sst |-> NoFile, snap |-> FALSE]
IdleMerger == [pc |-> "idle", inputs |-> <<>>, out |-> NoFile]
IdleReader == [pc |-> "idle", snap |-> 0, prompt |-> FALSE]
NoBackup == [version |-> 0, ssts |-> {}, wal |-> FreshWal]

\* The sequences that list S without repetition, and those of numbers in order.
Orders(S) == {s \in [1 .. Cardinality(S) -> S] : Range(s) = S}
Ascending(S) ==
    {s \in Orders(S) : \A i, j \in DOMAIN s : i < j => s[i] < s[j]}

\* Vec::retain: what is left of s when only the places I stay.
Retained(s, I) == {[i \in DOMAIN p |-> s[p[i]]] : p \in Ascending(I)}

MaxOf(S) == Max(S \cup {0})
MaxEntryVersion(E) == MaxOf({e[2] : e \in E})

-----------------------------------------------------------------------------
(* Reads.  get_at looks in the active memtable, the immutable ones newest  *)
(* first, then the SSTs newest first; the first layer with a version at or *)
(* below the snapshot answers.  0 stands for "no value".                   *)

NewestFirst(s) == [i \in DOMAIN s |-> s[Len(s) + 1 - i]]

EntriesOf(ssts) == [i \in DOMAIN ssts |-> ssts[i].entries]

Layers(mem, imms, ssts) ==
    <<mem>> \o NewestFirst(imms) \o NewestFirst(EntriesOf(ssts))

FirstHit(layers, k, snap) ==
    LET At(i) == {e[2] : e \in {x \in layers[i] : x[1] = k /\ x[2] <= snap}}
        hits == {i \in DOMAIN layers : At(i) /= {}}
    IN  IF hits = {} THEN 0 ELSE Max(At(Min(hits)))

GetAt(k, snap) == FirstHit(Layers(active, immutables, sst_files), k, snap)

\* Mutant: the SSTs are ordered by file id.
OlderById(a, b) == a.id < b.id

\* The order open gives the SSTs: by the highest version each holds, then id.
Older(a, b) ==
    \/ MaxEntryVersion(a.entries) < MaxEntryVersion(b.entries)
    \/ /\ MaxEntryVersion(a.entries) = MaxEntryVersion(b.entries)
       /\ a.id < b.id

SortSsts(files) ==
    {s \in Orders(files) : \A i, j \in DOMAIN s : i < j => Older(s[i], s[j])}

-----------------------------------------------------------------------------
(* Commit.  append_txn and the fsync are one call chain: the batch is in   *)
(* the page cache at "appending" and durable when the version is           *)
(* published.                                                              *)

CommitAppend(W) ==
    /\ mode = "up"
    /\ committer.pc = "idle"
    /\ flusher.pc = "idle"
    /\ next_version <= MaxVersion
    /\ committer' = [pc |-> "appending", writes |-> W, base |-> Len(wal.recs)]
    /\ \E writes \in Orders(W) :
          wal' = [wal EXCEPT !.recs = @ \o Batch(writes, next_version)]
    /\ attempt' = [attempt EXCEPT ![next_version] = W]
    /\ next_version' = next_version + 1
    /\ UNCHANGED <<disk_wal, sst_disk, mode, memVars, visible_version,
                   next_sst_id, flusher, merger, reader, backup, crashes,
                   conf, failed, committed>>

\* Mutant: the log is not fsynced before the version is published.
NotSynced == disk_wal

\* Wal::sync, when the configuration asks for it.
Synced == IF conf.sync_on_commit THEN wal ELSE disk_wal

CommitPublish ==
    LET v == next_version - 1
        new == committer.writes \X {v}
    IN  /\ committer.pc = "appending"
        /\ disk_wal' = Synced
        /\ active' = active \cup new
        /\ visible_version' = v
        /\ committed' = committed \cup new
        /\ committer' = IdleCommitter
        /\ UNCHANGED <<wal, sst_disk, mode, immutables, sst_files, next_version,
                       next_sst_id, flusher, merger, reader, backup, crashes,
                       conf, failed, attempt>>

Fails(fault) ==
    /\ fault \in conf.faults
    /\ failed' = failed \cup {fault}

\* What a write of the records after base leaves when it stops half-way.
TornFrom(file, base) ==
    {[file EXCEPT !.recs = r] :
        r \in UNION {{SubSeq(file.recs, 1, i), SubSeq(file.recs, 1, i) \o <<Torn>>} :
                        i \in base .. Len(file.recs) - 1}}

\* A batch that bypasses the write buffer fails half-way (a full disk): the
\* bytes written stay in the file, the version is burned.
CommitAppendFails ==
    /\ Fails("wal_append")
    /\ committer.pc = "appending"
    /\ wal' \in TornFrom(wal, committer.base)
    /\ committer' = IdleCommitter
    /\ UNCHANGED <<disk_wal, sst_disk, mode, memVars, clockVars, flusher, merger,
                   reader, backup, crashes, conf, committed, attempt>>

\* The append succeeds and the fsync fails: the batch stays in the page cache.
CommitSyncFails ==
    /\ Fails("wal_sync")
    /\ conf.sync_on_commit
    /\ committer.pc = "appending"
    /\ committer' = IdleCommitter
    /\ UNCHANGED <<diskVars, mode, memVars, clockVars, flusher, merger, reader,
                   backup, crashes, conf, committed, attempt>>

-----------------------------------------------------------------------------
(* Flush, under flush_lock.write.  snap is set when snapshot_to called it. *)

FlushDone ==
    /\ flusher' = IF flusher.snap THEN [IdleFlusher EXCEPT !.pc = "linking"]
                                  ELSE IdleFlusher
    /\ mode' = "up"

FlushRotate(snap) ==
    /\ mode \in (IF snap THEN {"up"} ELSE {"up", "converting"})
    /\ committer.pc = "idle"
    /\ flusher.pc = "idle"
    /\ next_sst_id <= conf.ssts
    /\ active /= {}
    /\ flusher' = [IdleFlusher EXCEPT !.pc = "rotated", !.old = active,
                                      !.snap = snap]
    /\ active' = {}
    /\ UNCHANGED <<diskVars, mode, immutables, sst_files, clockVars, committer,
                   merger, reader, backup, crashes, ghostVars>>

\* An empty memtable is not flushed: the pass returns before it touches
\* anything else, wal.log included.
FlushEmpty(snap) ==
    /\ mode \in (IF snap THEN {"up"} ELSE {"converting"})
    /\ committer.pc = "idle"
    /\ flusher.pc = "idle"
    /\ active = {}
    /\ flusher' = IF snap THEN [IdleFlusher EXCEPT !.pc = "linking"]
                          ELSE IdleFlusher
    /\ mode' = "up"
    /\ UNCHANGED <<diskVars, memVars, clockVars, committer, merger, reader,
                   backup, crashes, ghostVars>>

FlushStage ==
    /\ flusher.pc = "rotated"
    /\ immutables' = Append(immutables, flusher.old)
    /\ flusher' = [flusher EXCEPT !.pc = "staged"]
    /\ UNCHANGED <<diskVars, mode, active, sst_files, clockVars, committer,
                   merger, reader, backup, crashes, ghostVars>>

\* SstWriter publishes the file by an fsync and a rename: whole or not at all.
FlushWrite ==
    LET sst == [id |-> next_sst_id, entries |-> flusher.old]
    IN  /\ flusher.pc = "staged"
        /\ next_sst_id' = next_sst_id + 1
        /\ sst_disk' = sst_disk \cup {sst}
        /\ flusher' = [flusher EXCEPT !.pc = "written", !.sst = sst]
        /\ UNCHANGED <<wal, disk_wal, mode, memVars, next_version,
                       visible_version, committer, merger, reader, backup,
                       crashes, ghostVars>>

\* The write fails: the temporary file is unlinked and the flush returns; the
\* rotated memtable stays in the immutable list.  A failed legacy conversion
\* fails the open.
FlushWriteFails ==
    /\ Fails("sst_write")
    /\ flusher.pc = "staged"
    /\ next_sst_id' = next_sst_id + 1
    /\ flusher' = IdleFlusher
    /\ mode' = IF mode = "converting" THEN "down" ELSE mode
    /\ UNCHANGED <<diskVars, memVars, next_version, visible_version, committer,
                   merger, reader, backup, crashes, conf, committed, attempt>>

FlushRegister ==
    /\ flusher.pc = "written"
    /\ sst_files' = Append(sst_files, flusher.sst)
    /\ flusher' = [flusher EXCEPT !.pc = "registered"]
    /\ UNCHANGED <<diskVars, mode, active, immutables, clockVars, committer,
                   merger, reader, backup, crashes, ghostVars>>

FlushUnstage ==
    /\ flusher.pc = "registered"
    /\ immutables' \in Retained(immutables, {i \in DOMAIN immutables :
                                               immutables[i] /= flusher.old})
    /\ flusher' = [flusher EXCEPT !.pc = "unstaged"]
    /\ UNCHANGED <<diskVars, mode, active, sst_files, clockVars, committer,
                   merger, reader, backup, crashes, ghostVars>>

\* create_fresh truncates the file, then writes the magic.
FlushTruncateWal ==
    /\ flusher.pc = "unstaged"
    /\ wal' = Legacy(<<>>)
    /\ flusher' = [flusher EXCEPT !.pc = "truncated"]
    /\ UNCHANGED <<disk_wal, sst_disk, mode, memVars, clockVars, committer,
                   merger, reader, backup, crashes, ghostVars>>

FlushFinish ==
    /\ flusher.pc = "truncated"
    /\ wal' = FreshWal
    /\ FlushDone
    /\ UNCHANGED <<disk_wal, sst_disk, memVars, clockVars, committer, merger,
                   reader, backup, crashes, ghostVars>>

\* snapshot_to, still under flush_lock.write, takes compaction_mutex and links
\* every registered SST and copies wal.log.
SnapshotLink ==
    /\ flusher.pc = "linking"
    /\ merger.pc = "idle"
    /\ backup' = [version |-> visible_version, ssts |-> Range(sst_files),
                  wal |-> wal]
    /\ flusher' = IdleFlusher
    /\ UNCHANGED <<diskVars, mode, memVars, clockVars, committer, merger, reader,
                   crashes, ghostVars>>

-----------------------------------------------------------------------------
(* Compaction, under compaction_mutex.                                     *)

\* min_active_snapshot; no active snapshot reads as u64::MAX.
ActiveSnapshots == {reader[r].snap : r \in {x \in Reader :
                                              reader[x].pc = "registered"}}

\* Every version of a key down to and including the newest at or below the
\* smallest active snapshot is kept, tombstones too.
MergeEntries(E) ==
    {e \in E : \A g \in E :
        g[1] = e[1] /\ g[2] > e[2] =>
            \E s \in ActiveSnapshots : s < g[2]}

CompactStart ==
    /\ mode = "up"
    /\ merger.pc = "idle"
    /\ Len(sst_files) >= 2
    /\ next_sst_id <= conf.ssts
    /\ merger' = [pc |-> "merging", inputs |-> sst_files,
                  out |-> [NoFile EXCEPT !.entries = MergeEntries(
                               UNION {f.entries : f \in Range(sst_files)})]]
    /\ UNCHANGED <<diskVars, mode, memVars, clockVars, committer, flusher, reader,
                   backup, crashes, ghostVars>>

\* The id is taken after the inputs' lock is released: a flush may have taken
\* one since.
CompactWrite ==
    LET out == [merger.out EXCEPT !.id = next_sst_id]
    IN  /\ merger.pc = "merging"
        /\ next_sst_id' = next_sst_id + 1
        /\ sst_disk' = sst_disk \cup {out}
        /\ merger' = [merger EXCEPT !.pc = "written", !.out = out]
        /\ UNCHANGED <<wal, disk_wal, mode, memVars, next_version,
                       visible_version, committer, flusher, reader, backup,
                       crashes, ghostVars>>

CompactWriteFails ==
    /\ Fails("merge_write")
    /\ merger.pc = "merging"
    /\ next_sst_id' = next_sst_id + 1
    /\ merger' = IdleMerger
    /\ UNCHANGED <<diskVars, mode, memVars, next_version, visible_version,
                   committer, flusher, reader, backup, crashes, conf, committed, attempt>>

\* The merged file goes first; files flushed during the merge follow it.
CompactSwap ==
    /\ merger.pc = "written"
    /\ \E kept \in Retained(sst_files, {i \in DOMAIN sst_files :
                                            sst_files[i] \notin Range(merger.inputs)}) :
          sst_files' = <<merger.out>> \o kept
    /\ merger' = [merger EXCEPT !.pc = "swapped"]
    /\ UNCHANGED <<diskVars, mode, active, immutables, clockVars, committer,
                   flusher, reader, backup, crashes, ghostVars>>

CompactUnlink ==
    /\ merger.pc = "swapped"
    /\ sst_disk' = sst_disk \ {Head(merger.inputs)}
    /\ merger' = IF Len(merger.inputs) = 1
                 THEN IdleMerger
                 ELSE [merger EXCEPT !.inputs = Tail(@)]
    /\ UNCHANGED <<wal, disk_wal, mode, memVars, clockVars, committer, flusher,
                   reader, backup, crashes, ghostVars>>

-----------------------------------------------------------------------------
(* Snapshots.  begin loads the visible version and then registers it;      *)
(* read_snapshot only loads it.                                            *)

SnapshotLoad(r) ==
    /\ mode = "up"
    /\ reader[r].pc = "idle"
    /\ reader' = [reader EXCEPT ![r] = [pc |-> "loaded", snap |-> visible_version,
                                        prompt |-> FALSE]]
    /\ UNCHANGED <<diskVars, mode, memVars, clockVars, procVars, backup, crashes,
                   ghostVars>>

SnapshotRegister(r) ==
    /\ reader[r].pc = "loaded"
    /\ reader' = [reader EXCEPT ![r].pc = "registered",
                                ![r].prompt = (visible_version = reader[r].snap)]
    /\ UNCHANGED <<diskVars, mode, memVars, clockVars, procVars, backup, crashes,
                   ghostVars>>

SnapshotRelease(r) ==
    /\ reader[r].pc \in {"loaded", "registered"}
    /\ reader' = [reader EXCEPT ![r] = IdleReader]
    /\ UNCHANGED <<diskVars, mode, memVars, clockVars, procVars, backup, crashes,
                   ghostVars>>

-----------------------------------------------------------------------------
(* Crash and reopen.  A kill keeps what the page cache holds, cutting only *)
(* a write in progress; a power loss may lose what was not fsynced.        *)

Continues(recs, prefix) ==
    Len(prefix) <= Len(recs) /\ \A i \in DOMAIN prefix : recs[i] = prefix[i]

Survivors(cause) ==
    {wal}
        \cup (IF committer.pc = "appending" THEN TornFrom(wal, committer.base)
                                            ELSE {})
        \cup (IF cause = "power"
              THEN {disk_wal} \cup
                   TornFrom(wal, IF Continues(wal.recs, disk_wal.recs)
                                 THEN Len(disk_wal.recs) ELSE 0)
              ELSE {})

Crash(cause) ==
    /\ mode /= "down"
    /\ crashes < conf.crashes
    /\ crashes' = crashes + 1
    /\ mode' = "down"
    /\ \E w \in Survivors(cause) : wal' = w /\ disk_wal' = w
    /\ failed' = failed \cup ({cause} \cap Faults)
    /\ active' = {}
    /\ immutables' = <<>>
    /\ sst_files' = <<>>
    /\ committer' = IdleCommitter
    /\ flusher' = IdleFlusher
    /\ merger' = IdleMerger
    /\ reader' = [r \in Reader |-> IdleReader]
    /\ UNCHANGED <<sst_disk, clockVars, backup, conf, committed, attempt>>

\* The highest version recovery finds, in the SSTs or in the log.
MaxRecovered(files, file) ==
    MaxEntryVersion((UNION {f.entries : f \in files}) \cup Recovered(file))

\* A torn tail is cut off a framed log; an empty log gets its magic; a legacy
\* log is flushed to an SST before the tree is handed out.
Open ==
    LET maxv == MaxRecovered(sst_disk, wal)
        recovered == Recovered(wal)
        cut == TruncateTo(wal, ValidLen(wal))
    IN  /\ mode = "down"
        /\ mode' = IF FileIsLegacy(wal) THEN "converting" ELSE "up"
        /\ sst_files' \in SortSsts(sst_disk)
        /\ active' = recovered
        /\ immutables' = <<>>
        /\ visible_version' = maxv
        /\ next_version' = maxv + 1
        /\ next_sst_id' = MaxOf({f.id : f \in sst_disk}) + 1
        /\ wal' = IF FileIsLegacy(wal) THEN wal ELSE Framed(cut.recs)
        /\ disk_wal' = IF cut = wal \/ FileIsLegacy(wal) THEN disk_wal ELSE cut
        /\ committed' = {e \in committed : e[2] <= maxv} \cup recovered
        /\ UNCHANGED <<sst_disk, procVars, reader, backup, crashes, conf, failed,
                       attempt>>

-----------------------------------------------------------------------------

\* wal.log at the first open: absent or freshly created, or the whole records
\* an older, pre-framing binary left, the last one possibly torn.
InitialWal(kind) ==
    IF kind = "new" THEN {Legacy(<<>>), FreshWal}
    ELSE {Legacy(<<Data(k, 1)>> \o t) : k \in conf.keys, t \in {<<>>, <<Torn>>}}
             \cup {Legacy(<<Data(k, 1), Data(l, 2)>>) : k, l \in conf.keys}

Init ==
    /\ conf \in Configs
    /\ wal \in InitialWal(conf.wal)
    /\ disk_wal = wal
    /\ sst_disk = {}
    /\ mode = "down"
    /\ active = {}
    /\ immutables = <<>>
    /\ sst_files = <<>>
    /\ next_version = 1
    /\ visible_version = 0
    /\ next_sst_id = 1
    /\ committer = IdleCommitter
    /\ flusher = IdleFlusher
    /\ merger = IdleMerger
    /\ reader = [r \in Reader |-> IdleReader]
    /\ backup = NoBackup
    /\ crashes = 0
    /\ failed = {}
    /\ committed = Recovered(wal)
    /\ attempt = [v \in Version |->
                    {e[1] : e \in {x \in committed : x[2] = v}}]

Next ==
    \/ \E W \in (SUBSET conf.keys) \ {{}} : CommitAppend(W)
    \/ CommitPublish
    \/ CommitAppendFails
    \/ CommitSyncFails
    \/ \E snap \in {FALSE, conf.snapshots} : FlushRotate(snap)
    \/ \E snap \in {FALSE, conf.snapshots} : FlushEmpty(snap)
    \/ FlushStage
    \/ FlushWrite
    \/ FlushWriteFails
    \/ FlushRegister
    \/ FlushUnstage
    \/ FlushTruncateWal
    \/ FlushFinish
    \/ SnapshotLink
    \/ CompactStart
    \/ CompactWrite
    \/ CompactWriteFails
    \/ CompactSwap
    \/ CompactUnlink
    \/ \E r \in conf.readers : SnapshotLoad(r) \/ SnapshotRegister(r)
                                         \/ SnapshotRelease(r)
    \/ \E cause \in {"kill"} \cup (conf.faults \cap {"power"}) : Crash(cause)
    \/ Open

Spec == Init /\ [][Next]_vars

-----------------------------------------------------------------------------
(* Correctness                                                             *)

TypeOK ==
    /\ {wal.framed, disk_wal.framed} \subseteq BOOLEAN
    /\ \A f \in sst_disk \cup Range(sst_files) :
          f.id \in 1 .. MaxSstId + 1 /\ f.entries \subseteq Key \X Version
    /\ mode \in {"down", "converting", "up"}
    /\ active \subseteq Key \X Version
    /\ \A mt \in Range(immutables) : mt \subseteq Key \X Version
    /\ next_version \in 1 .. MaxVersion + 1
    /\ visible_version \in 0 .. MaxVersion
    /\ next_sst_id \in 1 .. MaxSstId + 2
    /\ crashes \in 0 .. conf.crashes
    /\ committed \subseteq Key \X Version

\* The version of k that a reader at snap must see.
Newest(k, snap) ==
    MaxOf({e[2] : e \in {x \in committed : x[1] = k /\ x[2] <= snap}})

\* No commit left bytes in the log without being acknowledged, no flush left
\* its memtable behind, and no power was lost with unsynced commits: the three
\* ways, besides corruption, in which the promises below are lost (README).
Undamaged ==
    /\ failed \cap {"wal_append", "wal_sync", "sst_write"} = {}
    /\ conf.sync_on_commit \/ "power" \notin failed

\* Whatever interleaving of commits, flushes, compactions, crashes, torn
\* writes and reopens, a read at the visible version finds the newest
\* committed version of every key.  (Between the two steps of a rotation the
\* memtable is in no list; LsmRead says what that costs a read.)
LatestReadable ==
    mode = "up" /\ flusher.pc /= "rotated" /\ Undamaged =>
        \A k \in Key : GetAt(k, visible_version) = Newest(k, visible_version)

\* Compaction never takes from a registered transaction a version it sees,
\* provided no commit was published between the two steps of its begin.
RegisteredSnapshotStable ==
    mode = "up" /\ flusher.pc /= "rotated" =>
        \A r \in Reader :
            reader[r].pc = "registered" /\ reader[r].prompt =>
                \A k \in Key :
                    GetAt(k, reader[r].snap) = Newest(k, reader[r].snap)

\* All or nothing: after any crash and any fault a transaction's writes are
\* recovered together or not at all.
RecoveryAtomic ==
    \A e \in committed : attempt[e[2]] \X {e[2]} \subseteq committed

\* A crash never takes back a version a commit has published.
PublishedDurable ==
    [][Undamaged' => visible_version' >= visible_version]_vars

\* Opening the directory snapshot_to wrote yields exactly what was visible
\* when it was taken.
BackupExact ==
    backup /= NoBackup /\ Undamaged =>
        /\ MaxRecovered(backup.ssts, backup.wal) = backup.version
        /\ \A ssts \in SortSsts(backup.ssts), k \in Key :
              FirstHit(Layers(Recovered(backup.wal), <<>>, ssts), k, backup.version)
                  = Newest(k, backup.version)
=============================================================================
