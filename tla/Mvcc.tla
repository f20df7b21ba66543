-------------------------------- MODULE Mvcc --------------------------------
(***************************************************************************)
(* The MVCC transaction manager of the storage engine                      *)
(* (crates/rhypedb-storage/src/mvcc.rs).                                   *)
(*                                                                         *)
(* A transaction handle takes a snapshot in two steps (load the visible    *)
(* version, then register it in the refcounted active set), buffers        *)
(* writes, and commits inside the commit_mu critical section: conflict     *)
(* check, version reservation, apply, record and trim the committed log,   *)
(* publish.  Every step another thread can interleave with is an action    *)
(* of its own; the ones that only touch state guarded by commit_mu are     *)
(* merged.  A handle that is finished goes back to "new" and stands for    *)
(* the next transaction of the same thread.                                *)
(*                                                                         *)
(* Values play no part here, so a write buffer is the set of its keys and  *)
(* the storage the apply callback writes is a set of <<key, version>>.     *)
(***************************************************************************)
EXTENDS Integers, FiniteSets

CONSTANTS
    Txn,                    \* transaction handles (threads)
    Key,                    \* keys a transaction may write
    MaxCommittedLogSize,    \* max_committed_log_size (1024 in the code)
    MaxVersion,             \* bound on the versions explored
    None                    \* "nobody holds commit_mu"

ASSUME TxnFinite == IsFiniteSet(Txn)
ASSUME LogSizeNat == MaxCommittedLogSize \in Nat
ASSUME MaxVersionNat == MaxVersion \in Nat
ASSUME NoneNotTxn == None \notin Txn
ASSUME NoneNotVersion == None \notin 0 .. MaxVersion

Version == 0 .. MaxVersion

VARIABLES
    visible_version,    \* latest published commit version
    next_version,       \* CommitState.next_version
    committed_log,      \* CommitState.committed_log, as the set of its entries
    commit_mu,          \* the holder of the commit mutex, or None
    active_snapshots,   \* snapshot version -> number of holds
    phase,              \* where each handle is in its life
    snapshot,           \* Transaction.snapshot
    writes,             \* keys of Transaction.writes
    hold,               \* Transaction.hold is Some
    reserved,           \* commit_version reserved by a committing handle
    applied,            \* what apply has written: <<key, version>>
    late,               \* history: the handle registered two or more versions late
    history,            \* history: every commit ever recorded in the log
    evicted             \* history: versions dropped by the size cap

txnVars == <<phase, snapshot, writes, hold, reserved, late>>
commitVars == <<next_version, committed_log, commit_mu, history, evicted>>
vars == <<visible_version, active_snapshots, applied, txnVars, commitVars>>

Phases == {"new", "loaded", "open", "reserved", "applied", "recorded",
           "published", "failed", "finished"}

LogEntry == [commit_version : Version, write_set : SUBSET Key]
Commit == [snapshot : Version, version : Version, writes : SUBSET Key,
           late : BOOLEAN]

Init ==
    /\ visible_version = 0
    /\ next_version = 1
    /\ committed_log = {}
    /\ commit_mu = None
    /\ active_snapshots = [v \in Version |-> 0]
    /\ phase = [t \in Txn |-> "new"]
    /\ snapshot = [t \in Txn |-> 0]
    /\ writes = [t \in Txn |-> {}]
    /\ hold = [t \in Txn |-> FALSE]
    /\ reserved = [t \in Txn |-> 0]
    /\ applied = {}
    /\ late = [t \in Txn |-> FALSE]
    /\ history = {}
    /\ evicted = {}

-----------------------------------------------------------------------------
(* begin: the load of visible_version and the registration of the snapshot *)
(* are two steps, with no lock held across them.                           *)

BeginLoad(t) ==
    /\ phase[t] = "new"
    /\ snapshot' = [snapshot EXCEPT ![t] = visible_version]
    /\ phase' = [phase EXCEPT ![t] = "loaded"]
    /\ UNCHANGED <<visible_version, active_snapshots, applied, writes, hold,
                   reserved, late, commitVars>>

BeginRegister(t) ==
    /\ phase[t] = "loaded"
    /\ active_snapshots' = [active_snapshots EXCEPT ![snapshot[t]] = @ + 1]
    /\ hold' = [hold EXCEPT ![t] = TRUE]
    /\ phase' = [phase EXCEPT ![t] = "open"]
    /\ late' = [late EXCEPT ![t] = visible_version > snapshot[t] + 1]
    /\ UNCHANGED <<visible_version, applied, snapshot, writes, reserved,
                   commitVars>>

\* record_put and record_delete: the last write of a key wins.
Upsert(t, k) ==
    /\ phase[t] = "open"
    /\ writes' = [writes EXCEPT ![t] = @ \cup {k}]
    /\ UNCHANGED <<visible_version, active_snapshots, applied, phase, snapshot,
                   hold, reserved, late, commitVars>>

\* Transaction::release: exactly once, whichever of commit, abort and drop
\* comes first.
Release(t) ==
    /\ active_snapshots' = IF hold[t]
                           THEN [active_snapshots EXCEPT ![snapshot[t]] = @ - 1]
                           ELSE active_snapshots
    /\ hold' = [hold EXCEPT ![t] = FALSE]

-----------------------------------------------------------------------------
(* commit                                                                  *)

\* A transaction with an empty buffer consumes no version.
CommitEmpty(t) ==
    /\ phase[t] = "open"
    /\ writes[t] = {}
    /\ Release(t)
    /\ phase' = [phase EXCEPT ![t] = "finished"]
    /\ UNCHANGED <<visible_version, applied, snapshot, writes, reserved, late,
                   commitVars>>

Conflicts(t) ==
    \E e \in committed_log :
        e.commit_version > snapshot[t] /\ e.write_set \cap writes[t] /= {}

\* The conflict loser returns with nothing applied and no version consumed.
\* Its hold stays until the caller aborts or drops it.
CommitConflict(t) ==
    /\ phase[t] = "open"
    /\ writes[t] /= {}
    /\ commit_mu = None
    /\ Conflicts(t)
    /\ phase' = [phase EXCEPT ![t] = "failed"]
    /\ UNCHANGED <<visible_version, active_snapshots, applied, snapshot, writes,
                   hold, reserved, late, commitVars>>

\* Mutant: the version is published when it is reserved.
CommitReservePublishes(t) ==
    /\ phase[t] = "open"
    /\ writes[t] /= {}
    /\ commit_mu = None
    /\ ~ Conflicts(t)
    /\ next_version <= MaxVersion
    /\ commit_mu' = t
    /\ reserved' = [reserved EXCEPT ![t] = next_version]
    /\ next_version' = next_version + 1
    /\ visible_version' = next_version
    /\ phase' = [phase EXCEPT ![t] = "reserved"]
    /\ UNCHANGED <<active_snapshots, applied, snapshot, writes, hold, late,
                   committed_log, history, evicted>>

CommitReserve(t) ==
    /\ phase[t] = "open"
    /\ writes[t] /= {}
    /\ commit_mu = None
    /\ ~ Conflicts(t)
    /\ next_version <= MaxVersion
    /\ commit_mu' = t
    /\ reserved' = [reserved EXCEPT ![t] = next_version]
    /\ next_version' = next_version + 1
    /\ phase' = [phase EXCEPT ![t] = "reserved"]
    /\ UNCHANGED <<visible_version, active_snapshots, applied, snapshot, writes,
                   hold, late, committed_log, history, evicted>>

CommitApply(t) ==
    /\ phase[t] = "reserved"
    /\ applied' = applied \cup (writes[t] \X {reserved[t]})
    /\ phase' = [phase EXCEPT ![t] = "applied"]
    /\ UNCHANGED <<visible_version, active_snapshots, snapshot, writes, hold,
                   reserved, late, commitVars>>

\* Mutant: a failed apply gives its version back.
CommitApplyFailsReuses(t) ==
    /\ phase[t] = "reserved"
    /\ commit_mu' = None
    /\ next_version' = reserved[t] - 1
    /\ phase' = [phase EXCEPT ![t] = "failed"]
    /\ UNCHANGED <<visible_version, active_snapshots, applied, snapshot, writes,
                   hold, reserved, late, committed_log, history, evicted>>

\* A failed apply burns the reserved version; nothing reached the memtable.
CommitApplyFails(t) ==
    /\ phase[t] = "reserved"
    /\ commit_mu' = None
    /\ phase' = [phase EXCEPT ![t] = "failed"]
    /\ UNCHANGED <<visible_version, active_snapshots, applied, snapshot, writes,
                   hold, reserved, late, next_version, committed_log, history,
                   evicted>>

\* Mutant: entries are trimmed without looking at the active snapshots.
TrimAllButNewest(log) ==
    {e \in log : \A f \in log : f.commit_version <= e.commit_version}

\* Entries below the smallest active snapshot are popped from the front; the
\* log is ordered by version, so that is every such entry.
Trim(log) ==
    {e \in log : \E v \in Version :
                     active_snapshots[v] > 0 /\ v <= e.commit_version}

\* The entries the size cap pops: all but the newest MaxCommittedLogSize.
Overflow(log) ==
    {e \in log : Cardinality({f \in log : f.commit_version > e.commit_version})
                     >= MaxCommittedLogSize}

CommitRecord(t) ==
    /\ phase[t] = "applied"
    /\ LET log == Trim(committed_log
                       \cup {[commit_version |-> reserved[t],
                              write_set |-> writes[t]]})
       IN  /\ committed_log' = log \ Overflow(log)
           /\ evicted' = evicted \cup {e.commit_version : e \in Overflow(log)}
    /\ history' = history \cup {[snapshot |-> snapshot[t],
                                 version |-> reserved[t],
                                 writes |-> writes[t],
                                 late |-> late[t]]}
    /\ phase' = [phase EXCEPT ![t] = "recorded"]
    /\ UNCHANGED <<visible_version, active_snapshots, applied, snapshot, writes,
                   hold, reserved, late, next_version, commit_mu>>

CommitPublish(t) ==
    /\ phase[t] = "recorded"
    /\ visible_version' = reserved[t]
    /\ commit_mu' = None
    /\ phase' = [phase EXCEPT ![t] = "published"]
    /\ UNCHANGED <<active_snapshots, applied, snapshot, writes, hold, reserved,
                   late, next_version, committed_log, history, evicted>>

CommitReturn(t) ==
    /\ phase[t] = "published"
    /\ Release(t)
    /\ phase' = [phase EXCEPT ![t] = "finished"]
    /\ UNCHANGED <<visible_version, applied, snapshot, writes, reserved, late,
                   commitVars>>

Abort(t) ==
    /\ phase[t] \in {"open", "failed"}
    /\ Release(t)
    /\ phase' = [phase EXCEPT ![t] = "finished"]
    /\ UNCHANGED <<visible_version, applied, snapshot, writes, reserved, late,
                   commitVars>>

\* Drop releases too: it is the only release of a handle that was neither
\* committed nor aborted, and a no-op after either.
Drop(t) ==
    /\ phase[t] \in {"open", "failed", "finished"}
    /\ Release(t)
    /\ phase' = [phase EXCEPT ![t] = "new"]
    /\ snapshot' = [snapshot EXCEPT ![t] = 0]
    /\ writes' = [writes EXCEPT ![t] = {}]
    /\ reserved' = [reserved EXCEPT ![t] = 0]
    /\ late' = [late EXCEPT ![t] = FALSE]
    /\ UNCHANGED <<visible_version, applied, commitVars>>

-----------------------------------------------------------------------------

Step(t) ==
    \/ BeginLoad(t)
    \/ BeginRegister(t)
    \/ \E k \in Key : Upsert(t, k)
    \/ CommitEmpty(t)
    \/ CommitConflict(t)
    \/ CommitReserve(t)
    \/ CommitApply(t)
    \/ CommitApplyFails(t)
    \/ CommitRecord(t)
    \/ CommitPublish(t)
    \/ CommitReturn(t)
    \/ Abort(t)
    \/ Drop(t)

Next == \E t \in Txn : Step(t)

Spec == Init /\ [][Next]_vars

-----------------------------------------------------------------------------
(* Correctness                                                             *)

TypeOK ==
    /\ visible_version \in Version
    /\ next_version \in 1 .. MaxVersion + 1
    /\ committed_log \subseteq LogEntry
    /\ commit_mu \in Txn \cup {None}
    /\ active_snapshots \in [Version -> Nat]
    /\ phase \in [Txn -> Phases]
    /\ snapshot \in [Txn -> Version]
    /\ writes \in [Txn -> SUBSET Key]
    /\ hold \in [Txn -> BOOLEAN]
    /\ reserved \in [Txn -> Version]
    /\ applied \subseteq Key \X Version
    /\ late \in [Txn -> BOOLEAN]
    /\ history \subseteq Commit
    /\ evicted \subseteq Version

Holders(v) == {t \in Txn : hold[t] /\ snapshot[t] = v}

\* The refcount of a snapshot is the number of live handles holding it,
\* however begin, commit, abort and drop interleave: no hold leaks, and none
\* is released while another handle still shares the version.
RefcountsExact ==
    \A v \in Version : active_snapshots[v] = Cardinality(Holders(v))

Overwrites(h, g) ==
    /\ g.version > h.snapshot
    /\ g.version < h.version
    /\ g.writes \cap h.writes /= {}

\* First committer wins: no commit overwrites a key that another transaction
\* committed after its snapshot.
NoLostUpdate ==
    \A h, g \in history : ~ Overwrites(h, g)

\* What the conflict check does guarantee: a lost update needs a handle that
\* registered its snapshot two or more versions late (the window inside
\* begin), or a log entry dropped by the size cap.
NoLostUpdateInWindow ==
    \A h, g \in history :
        Overwrites(h, g) => h.late \/ g.version \in evicted

SeenAt(v) == {a \in applied : a[2] <= v}

\* The snapshot of a transaction from the load in begin to its end.
Sees == [t \in Txn |-> IF phase[t] \in {"new", "finished"} THEN None ELSE snapshot[t]]

Store == INSTANCE SnapshotStore WITH now <- visible_version, seen <- SeenAt(visible_version), at <- Sees

\* Readers see whole commits and nothing else: what is visible changes only when
\* commit publishes a version, which adds all the writes of one transaction at
\* once, so that no published version ever gains or loses a write, also when an
\* apply fails; and a transaction keeps the snapshot it began with.
CommitsAtomic == Store!Spec

-----------------------------------------------------------------------------
(* The inductive invariant.                                                *)

Committing == {"reserved", "applied", "recorded"}
Holding == {"open", "reserved", "applied", "recorded", "published", "failed"}

\* commit_mu is held exactly through the commit critical section.
MutexInv == \A t \in Txn : phase[t] \in Committing <=> commit_mu = t

\* A handle holds its snapshot from registration to release.
HoldInv == \A t \in Txn : hold[t] <=> phase[t] \in Holding

\* Versions are reserved in order and published last.
VersionInv ==
    /\ visible_version < next_version
    /\ \A h \in history : h.version < next_version
    /\ \A t \in Txn : snapshot[t] <= visible_version
    /\ \A t \in Txn :
          phase[t] \in Committing => /\ reserved[t] < next_version
                                    /\ visible_version < reserved[t]
    /\ \A t \in Txn :
          phase[t] \in {"reserved", "applied"} =>
              \A h \in history : h.version < reserved[t]

Remembered(h) ==
    \/ [commit_version |-> h.version, write_set |-> h.writes] \in committed_log
    \/ h.version \in evicted

\* The log, or the size cap, accounts for every commit a registered handle may
\* conflict with, and for those a handle about to register may.
WindowInv ==
    /\ \A h \in history : h.version >= visible_version => Remembered(h)
    /\ \A t \in Txn : hold[t] /\ ~ late[t] =>
          \A h \in history : h.version > snapshot[t] => Remembered(h)

\* Past its conflict check a handle overlaps no commit it has not seen.
CheckedInv ==
    \A t \in Txn :
        phase[t] \in {"reserved", "applied"} /\ ~ late[t] =>
            \A g \in history :
                g.version > snapshot[t] /\ g.writes \cap writes[t] /= {}
                    => g.version \in evicted

\* Above visible_version storage holds the writes of the one transaction between
\* apply and publish, all of them.
ApplyInv ==
    /\ \A a \in applied : a[2] > visible_version =>
          \E t \in Txn : phase[t] \in {"applied", "recorded"} /\ a[1] \in writes[t] /\ a[2] = reserved[t]
    /\ \A t \in Txn : phase[t] \in {"applied", "recorded"} =>
          \A k \in writes[t] : <<k, reserved[t]>> \in applied
    /\ \A t \in Txn : phase[t] \in Committing => writes[t] /= {}

\* What makes NoLostUpdateInWindow inductive: the commit section is exclusive
\* and orders the versions, a registered snapshot keeps the log entries behind
\* it, and the conflict check has compared against all of them.  ApplyInv is what
\* CommitsAtomic needs besides.
IndInv ==
    /\ TypeOK
    /\ MutexInv
    /\ HoldInv
    /\ RefcountsExact
    /\ VersionInv
    /\ WindowInv
    /\ CheckedInv
    /\ ApplyInv
    /\ NoLostUpdateInWindow
=============================================================================
