------------------------------- MODULE LsmRead -------------------------------
(***************************************************************************)
(* The layered reads of the LSM tree (lsm.rs get_at, multi_get_at,         *)
(* multi_scan_prefix_at and the scan_* family) interleaved with commits,   *)
(* flushes and compactions.                                                *)
(*                                                                         *)
(* A read captures the three layers one lock at a time.  Point reads take  *)
(* the active memtable, then the immutable list, then the SST list; scans  *)
(* go the other way.  A multi-scan keeps the SST lock until it has         *)
(* captured the memtables, which keeps flush and compaction from changing  *)
(* the SST list meanwhile.                                                 *)
(***************************************************************************)
EXTENDS Lsm

VARIABLE op     \* [kind, pc, by, key, mem, imms, ssts, gap, flush, result]

Kinds == {"get", "scan", "multi_scan"}

NoOp == [kind |-> "none", pc |-> 0, by |-> 0, key |-> "", mem |-> {},
         imms |-> <<>>, ssts |-> <<>>, gap |-> FALSE, flush |-> FALSE,
         result |-> 0]

\* The layer captured by each of the three steps.
Order(kind) ==
    IF kind = "get" THEN <<"mem", "imms", "ssts">> ELSE <<"ssts", "imms", "mem">>

ReadInit == Init /\ op = NoOp

\* A read at the snapshot of r: registered by begin, or only loaded by
\* read_snapshot.
ReadStart(r, kind, k) ==
    /\ op.pc = 0
    /\ reader[r].pc /= "idle"
    /\ op' = [NoOp EXCEPT !.kind = kind, !.pc = 1, !.by = r, !.key = k,
                          !.flush = (flusher.pc /= "idle")]
    /\ UNCHANGED vars

ReadLayer ==
    LET layer == Order(op.kind)[op.pc]
        next == CASE layer = "mem" -> [op EXCEPT !.mem = active]
                  [] layer = "imms" -> [op EXCEPT !.imms = immutables]
                  [] layer = "ssts" -> [op EXCEPT !.ssts = sst_files]
    IN  /\ op.pc \in 1 .. 3
        /\ op' = [next EXCEPT !.pc = @ + 1,
                              !.gap = @ \/ flusher.pc = "rotated"]
        /\ UNCHANGED vars

\* Mutant: a scan lets the older layers overwrite the newer ones.
ScanMergeReversed(mem, imms, ssts, k, snap) ==
    LET layers == Layers(mem, imms, ssts)
        At(i) == {e[2] : e \in {x \in layers[i] : x[1] = k /\ x[2] <= snap}}
        hits == {i \in DOMAIN layers : At(i) /= {}}
    IN  IF hits = {} THEN 0 ELSE Max(At(Max(hits)))

\* A scan fills one map oldest layer first; the last layer that holds the key
\* decides.
ScanMerge(mem, imms, ssts, k, snap) ==
    LET layers == EntriesOf(ssts) \o imms \o <<mem>>
        At(i) == {e[2] : e \in {x \in layers[i] : x[1] = k /\ x[2] <= snap}}
        hits == {i \in DOMAIN layers : At(i) /= {}}
    IN  IF hits = {} THEN 0 ELSE Max(At(Max(hits)))

ReadMerge ==
    LET snap == reader[op.by].snap
        answer == IF op.kind = "get"
                  THEN FirstHit(Layers(op.mem, op.imms, op.ssts), op.key, snap)
                  ELSE ScanMerge(op.mem, op.imms, op.ssts, op.key, snap)
    IN  /\ op.pc = 4
        /\ op' = [op EXCEPT !.pc = 5, !.result = answer]
        /\ UNCHANGED vars

ReadReturn ==
    /\ op.pc = 5
    /\ op' = NoOp
    /\ UNCHANGED vars

Reading(r) == op.pc /= 0 /\ op.by = r

\* The rest of the tree moves while a read is under way.  The snapshot of a
\* read in progress is not released, and a multi-scan holds the SST lock.
TreeStep ==
    /\ Next
    /\ \A r \in Reader : Reading(r) => reader'[r] = reader[r]
    /\ op.kind = "multi_scan" /\ op.pc \in 2 .. 4 => sst_files' = sst_files
    /\ op' = IF op.pc = 0 THEN op
             ELSE [op EXCEPT !.flush = @ \/ flusher'.pc /= "idle"]

ReadNext ==
    \/ TreeStep
    \/ \E r \in conf.readers, kind \in Kinds, k \in conf.keys : ReadStart(r, kind, k)
    \/ ReadLayer
    \/ ReadMerge
    \/ ReadReturn

ReadSpec == ReadInit /\ [][ReadNext]_<<vars, op>>

-----------------------------------------------------------------------------

Exact == op.result = Newest(op.key, reader[op.by].snap)
AtPromptSnapshot == reader[op.by].pc = "registered" /\ reader[op.by].prompt

\* A point read that no rotation was half-way through returns the newest
\* version of its key at its snapshot, whatever flushes and compactions ran
\* between the layers it looked at: a row never moves out of a layer before
\* it can be found in one that is read later.
GetSeesSnapshot ==
    op.pc = 5 /\ op.kind = "get" /\ AtPromptSnapshot /\ ~ op.gap => Exact

\* A scan that no flush overlapped does too, whatever compactions ran.
ScanSeesSnapshot ==
    op.pc = 5 /\ op.kind /= "get" /\ AtPromptSnapshot /\ ~ op.flush => Exact

\* Whatever compactions and flushes run, every version that a registered
\* transaction sees stays readable, a point read returns it, and so does a scan
\* that no flush overlapped (get_at, scan_prefix_at, compact).
ReadsSeeSnapshot == RegisteredSnapshotStable /\ GetSeesSnapshot /\ ScanSeesSnapshot

\* Every scan of a transaction sees its snapshot, flushes or not, if no
\* half-done rotation touched it.
ScanAlwaysSeesSnapshot ==
    op.pc = 5 /\ op.kind /= "get" /\ AtPromptSnapshot /\ ~ op.gap => Exact
=============================================================================
