----------------------------- MODULE MvccProofs -----------------------------
(***************************************************************************)
(* Proofs about Mvcc for every set of handles and keys, every log size and *)
(* every bound on the versions.  IndInv is inductive; type correctness,    *)
(* the exactness of the snapshot refcounts, the bounded form of "first     *)
(* committer wins" and the refinement of SnapshotStore follow.             *)
(***************************************************************************)
EXTENDS Mvcc, FiniteSetTheorems, TLAPS

USE TxnFinite, LogSizeNat, MaxVersionNat, NoneNotTxn

-----------------------------------------------------------------------------
(* Refcounts                                                               *)

\* The holders of a snapshot are finitely many, and a handle that holds its
\* snapshot is counted: min_active_snapshot is never above it.
LEMMA HeldIsCounted ==
    ASSUME TypeOK, RefcountsExact
    PROVE  /\ \A v \in Version : IsFiniteSet(Holders(v))
           /\ \A t \in Txn : hold[t] => active_snapshots[snapshot[t]] > 0
<1>1. \A v \in Version : IsFiniteSet(Holders(v))
  <2> SUFFICES ASSUME NEW v \in Version PROVE IsFiniteSet(Holders(v))
    OBVIOUS
  <2>1. Holders(v) \in SUBSET Txn
    BY DEF Holders
  <2> QED BY <2>1, FS_Subset
<1>2. ASSUME NEW t \in Txn, hold[t] PROVE active_snapshots[snapshot[t]] > 0
  <2> DEFINE v == snapshot[t]
  <2>1. v \in Version
    BY DEF TypeOK
  <2>2. t \in Holders(v)
    BY <1>2 DEF Holders
  <2>3. Cardinality(Holders(v)) \in Nat /\ Cardinality(Holders(v)) /= 0
    BY <1>1, <2>1, <2>2, FS_EmptySet, FS_CardinalityType
  <2>4. active_snapshots[v] = Cardinality(Holders(v))
    BY <2>1 DEF RefcountsExact
  <2> QED BY <2>3, <2>4
<1> QED BY <1>1, <1>2

\* Transaction::release keeps the refcounts exact, whether or not the hold was
\* taken before, and whatever becomes of the snapshot field afterwards.
LEMMA ReleaseExact ==
    ASSUME TypeOK, RefcountsExact, NEW t \in Txn, Release(t),
           snapshot' \in [Txn -> Version],
           \A u \in Txn \ {t} : snapshot'[u] = snapshot[u]
    PROVE  /\ active_snapshots' \in [Version -> Nat]
           /\ hold' \in [Txn -> BOOLEAN]
           /\ RefcountsExact'
<1>1. \A v \in Version : Holders(v)' = Holders(v) \ {t}
  BY DEF TypeOK, Release, Holders
<1>2. \A v \in Version : IsFiniteSet(Holders(v))
  BY HeldIsCounted
<1>3. \A v \in Version :
         Cardinality(Holders(v)') =
             IF t \in Holders(v) THEN Cardinality(Holders(v)) - 1
                                 ELSE Cardinality(Holders(v))
  BY <1>1, <1>2, FS_RemoveElement
<1>4. \A v \in Version : t \in Holders(v) <=> hold[t] /\ v = snapshot[t]
  BY DEF Holders
<1>5. hold[t] => active_snapshots[snapshot[t]] > 0
  BY HeldIsCounted
<1>6. hold' \in [Txn -> BOOLEAN]
  BY DEF TypeOK, Release
<1>7. /\ active_snapshots' \in [Version -> Nat]
      /\ \A v \in Version :
            active_snapshots'[v] = IF hold[t] /\ v = snapshot[t]
                                   THEN active_snapshots[v] - 1
                                   ELSE active_snapshots[v]
  BY <1>5 DEF TypeOK, Release
<1>8. \A v \in Version : active_snapshots'[v] = Cardinality(Holders(v)')
  BY <1>3, <1>4, <1>7 DEF RefcountsExact
<1> QED BY <1>6, <1>7, <1>8 DEF RefcountsExact

\* Registering a snapshot keeps the refcounts exact: the second half of begin.
LEMMA RegisterExact ==
    ASSUME TypeOK, RefcountsExact, HoldInv, NEW t \in Txn, BeginRegister(t)
    PROVE  RefcountsExact'
<1>1. ~ hold[t]
  BY DEF HoldInv, BeginRegister, Holding
<1>2. \A v \in Version :
         Holders(v)' = IF v = snapshot[t] THEN Holders(v) \cup {t} ELSE Holders(v)
  BY <1>1 DEF TypeOK, BeginRegister, Holders
<1>3. \A v \in Version : IsFiniteSet(Holders(v)) /\ t \notin Holders(v)
  BY <1>1, HeldIsCounted DEF Holders
<1>4. \A v \in Version :
         Cardinality(Holders(v)') =
             IF v = snapshot[t] THEN Cardinality(Holders(v)) + 1
                                ELSE Cardinality(Holders(v))
  BY <1>2, <1>3, FS_AddElement
<1>5. \A v \in Version :
         active_snapshots'[v] = IF v = snapshot[t] THEN active_snapshots[v] + 1
                                                   ELSE active_snapshots[v]
  BY DEF TypeOK, BeginRegister
<1> QED BY <1>4, <1>5 DEF RefcountsExact
-----------------------------------------------------------------------------
(* One lemma per conjunct of IndInv, one step per action.                  *)

\* Recording a commit adds well-formed entries only, and remembers every entry
\* that some registered snapshot is behind: in the log, or as evicted.
LEMMA RecordKeeps ==
    ASSUME TypeOK, NEW t \in Txn, CommitRecord(t)
    PROVE  /\ committed_log' \subseteq LogEntry
           /\ evicted' \subseteq Version
           /\ evicted \subseteq evicted'
           /\ \A e \in committed_log \cup {[commit_version |-> reserved[t],
                                           write_set |-> writes[t]]} :
                 \A v \in Version :
                    active_snapshots[v] > 0 /\ v <= e.commit_version
                        => e \in committed_log' \/ e.commit_version \in evicted'
<1> DEFINE entry == [commit_version |-> reserved[t], write_set |-> writes[t]]
           all == committed_log \cup {entry}
           log == Trim(all)
<1>1. entry \in LogEntry
  BY DEF TypeOK, LogEntry
<1>2. all \subseteq LogEntry
  BY <1>1 DEF TypeOK
<1>3. log \subseteq LogEntry /\ Overflow(log) \subseteq log
  BY <1>2 DEF Trim, Overflow
<1>4. /\ committed_log' = log \ Overflow(log)
      /\ evicted' = evicted \cup {e.commit_version : e \in Overflow(log)}
  BY DEF CommitRecord
<1>5. committed_log' \subseteq LogEntry
  BY <1>3, <1>4
<1>6. evicted' \subseteq Version /\ evicted \subseteq evicted'
  <2>1. \A e \in Overflow(log) : e.commit_version \in Version
    BY <1>3 DEF LogEntry
  <2> HIDE DEF log
  <2>2. evicted \subseteq Version
    BY DEF TypeOK
  <2> QED BY <1>4, <2>1, <2>2
<1>7. ASSUME NEW e \in all, NEW v \in Version,
             active_snapshots[v] > 0, v <= e.commit_version
      PROVE  e \in committed_log' \/ e.commit_version \in evicted'
  <2>1. e \in log
    BY <1>7 DEF Trim
  <2> QED BY <2>1, <1>4
<1> QED BY <1>5, <1>6, <1>7

\* Every action keeps the type invariant; the decrement in release relies on
\* the refcounts being exact.
LEMMA TypeStep ==
    ASSUME IndInv, NEW t \in Txn, Step(t)
    PROVE  TypeOK'
<1> USE DEF IndInv, Phases
<1>1. CASE BeginLoad(t)
  BY <1>1 DEF TypeOK, BeginLoad, commitVars
<1>2. CASE BeginRegister(t)
  BY <1>2 DEF TypeOK, BeginRegister, commitVars
<1>3. CASE \E k \in Key : Upsert(t, k)
  BY <1>3 DEF TypeOK, Upsert, commitVars
<1>4. CASE CommitEmpty(t)
  BY <1>4, ReleaseExact DEF TypeOK, CommitEmpty, commitVars
<1>5. CASE CommitConflict(t)
  BY <1>5 DEF TypeOK, CommitConflict, commitVars
<1>6. CASE CommitReserve(t)
  BY <1>6 DEF TypeOK, CommitReserve, Version
<1>7. CASE CommitApply(t)
  BY <1>7 DEF TypeOK, CommitApply, commitVars
<1>8. CASE CommitApplyFails(t)
  BY <1>8 DEF TypeOK, CommitApplyFails
<1>9. CASE CommitRecord(t)
  <2>1. history' \subseteq Commit
    BY <1>9 DEF TypeOK, CommitRecord, Commit
  <2>2. phase' \in [Txn -> Phases]
    BY <1>9 DEF TypeOK, CommitRecord
  <2>3. committed_log' \subseteq LogEntry /\ evicted' \subseteq Version
    BY <1>9, RecordKeeps
  <2>4. UNCHANGED <<visible_version, active_snapshots, applied, snapshot,
       writes,
                    hold, reserved, late, next_version, commit_mu>>
    BY <1>9 DEF CommitRecord
  <2> QED BY <2>1, <2>2, <2>3, <2>4 DEF TypeOK
<1>10. CASE CommitPublish(t)
  BY <1>10 DEF TypeOK, CommitPublish
<1>11. CASE CommitReturn(t)
  BY <1>11, ReleaseExact DEF TypeOK, CommitReturn, commitVars
<1>12. CASE Abort(t)
  BY <1>12, ReleaseExact DEF TypeOK, Abort, commitVars
<1>13. CASE Drop(t)
  <2>1. /\ snapshot' \in [Txn -> Version]
        /\ \A u \in Txn \ {t} : snapshot'[u] = snapshot[u]
    BY <1>13 DEF TypeOK, Drop, Version
  <2>2. active_snapshots' \in [Version -> Nat] /\ hold' \in [Txn -> BOOLEAN]
    BY <1>13, <2>1, ReleaseExact DEF Drop
  <2> QED BY <1>13, <2>1, <2>2 DEF TypeOK, Drop, commitVars, Version
<1> QED
  BY <1>1, <1>2, <1>3, <1>4, <1>5, <1>6, <1>7, <1>8, <1>9, <1>10, <1>11,
     <1>12, <1>13 DEF Step

\* The commit section is entered with commit_mu free and left by releasing it.
LEMMA MutexStep ==
    ASSUME IndInv, NEW t \in Txn, Step(t)
    PROVE  MutexInv'
<1> USE DEF IndInv
<1>1. CASE BeginLoad(t)
  BY <1>1 DEF BeginLoad, commitVars, MutexInv, TypeOK, Committing
<1>2. CASE BeginRegister(t)
  BY <1>2 DEF BeginRegister, commitVars, MutexInv, TypeOK, Committing
<1>3. CASE \E k \in Key : Upsert(t, k)
  BY <1>3 DEF Upsert, commitVars, MutexInv, TypeOK, Committing
<1>4. CASE CommitEmpty(t)
  BY <1>4 DEF CommitEmpty, commitVars, MutexInv, TypeOK, Committing
<1>5. CASE CommitConflict(t)
  BY <1>5 DEF CommitConflict, commitVars, MutexInv, TypeOK, Committing
<1>6. CASE CommitReserve(t)
  BY <1>6 DEF CommitReserve, commitVars, MutexInv, TypeOK, Committing
<1>7. CASE CommitApply(t)
  BY <1>7 DEF CommitApply, commitVars, MutexInv, TypeOK, Committing
<1>8. CASE CommitApplyFails(t)
  BY <1>8 DEF CommitApplyFails, commitVars, MutexInv, TypeOK, Committing
<1>9. CASE CommitRecord(t)
  BY <1>9 DEF CommitRecord, commitVars, MutexInv, TypeOK, Committing
<1>10. CASE CommitPublish(t)
  BY <1>10 DEF CommitPublish, commitVars, MutexInv, TypeOK, Committing
<1>11. CASE CommitReturn(t)
  BY <1>11 DEF CommitReturn, commitVars, MutexInv, TypeOK, Committing
<1>12. CASE Abort(t)
  BY <1>12 DEF Abort, commitVars, MutexInv, TypeOK, Committing
<1>13. CASE Drop(t)
  BY <1>13 DEF Drop, commitVars, MutexInv, TypeOK, Committing
<1> QED
  BY <1>1, <1>2, <1>3, <1>4, <1>5, <1>6, <1>7, <1>8,
     <1>9, <1>10, <1>11, <1>12, <1>13 DEF Step

\* A hold is taken by begin and given back by the first of commit, abort, drop.
LEMMA HoldStep ==
    ASSUME IndInv, NEW t \in Txn, Step(t)
    PROVE  HoldInv'
<1> USE DEF IndInv
<1>1. CASE BeginLoad(t)
  BY <1>1 DEF BeginLoad, HoldInv, TypeOK, Holding
<1>2. CASE BeginRegister(t)
  BY <1>2 DEF BeginRegister, HoldInv, TypeOK, Holding
<1>3. CASE \E k \in Key : Upsert(t, k)
  BY <1>3 DEF Upsert, HoldInv, TypeOK, Holding
<1>4. CASE CommitEmpty(t)
  BY <1>4 DEF CommitEmpty, HoldInv, TypeOK, Holding, Release
<1>5. CASE CommitConflict(t)
  BY <1>5 DEF CommitConflict, HoldInv, TypeOK, Holding
<1>6. CASE CommitReserve(t)
  BY <1>6 DEF CommitReserve, HoldInv, TypeOK, Holding
<1>7. CASE CommitApply(t)
  BY <1>7 DEF CommitApply, HoldInv, TypeOK, Holding
<1>8. CASE CommitApplyFails(t)
  BY <1>8 DEF CommitApplyFails, HoldInv, TypeOK, Holding
<1>9. CASE CommitRecord(t)
  BY <1>9 DEF CommitRecord, HoldInv, TypeOK, Holding
<1>10. CASE CommitPublish(t)
  BY <1>10 DEF CommitPublish, HoldInv, TypeOK, Holding
<1>11. CASE CommitReturn(t)
  BY <1>11 DEF CommitReturn, HoldInv, TypeOK, Holding, Release
<1>12. CASE Abort(t)
  BY <1>12 DEF Abort, HoldInv, TypeOK, Holding, Release
<1>13. CASE Drop(t)
  BY <1>13 DEF Drop, HoldInv, TypeOK, Holding, Release
<1> QED
  BY <1>1, <1>2, <1>3, <1>4, <1>5, <1>6, <1>7, <1>8,
     <1>9, <1>10, <1>11, <1>12, <1>13 DEF Step

\* Only begin and release move a refcount, each by the handle it is for.
LEMMA RefcountStep ==
    ASSUME IndInv, NEW t \in Txn, Step(t)
    PROVE  RefcountsExact'
<1> USE DEF IndInv
<1>1. CASE BeginLoad(t)
  <2>1. ~ hold[t]
    BY <1>1 DEF BeginLoad, HoldInv, Holding
  <2>2. \A v \in Version : Holders(v)' = Holders(v)
    BY <1>1, <2>1 DEF BeginLoad, Holders, TypeOK
  <2> QED BY <1>1, <2>2 DEF BeginLoad, RefcountsExact
<1>2. CASE BeginRegister(t)
  BY <1>2, RegisterExact
<1>3. CASE \E k \in Key : Upsert(t, k)
  <2>1. \A v \in Version : Holders(v)' = Holders(v)
    BY <1>3 DEF Upsert, Holders, TypeOK
  <2> QED BY <1>3, <2>1 DEF Upsert, RefcountsExact
<1>4. CASE CommitEmpty(t)
  BY <1>4, ReleaseExact DEF CommitEmpty, TypeOK
<1>5. CASE CommitConflict(t)
  <2>1. \A v \in Version : Holders(v)' = Holders(v)
    BY <1>5 DEF CommitConflict, Holders, TypeOK
  <2> QED BY <1>5, <2>1 DEF CommitConflict, RefcountsExact
<1>6. CASE CommitReserve(t)
  <2>1. \A v \in Version : Holders(v)' = Holders(v)
    BY <1>6 DEF CommitReserve, Holders, TypeOK
  <2> QED BY <1>6, <2>1 DEF CommitReserve, RefcountsExact
<1>7. CASE CommitApply(t)
  <2>1. \A v \in Version : Holders(v)' = Holders(v)
    BY <1>7 DEF CommitApply, Holders, TypeOK
  <2> QED BY <1>7, <2>1 DEF CommitApply, RefcountsExact
<1>8. CASE CommitApplyFails(t)
  <2>1. \A v \in Version : Holders(v)' = Holders(v)
    BY <1>8 DEF CommitApplyFails, Holders, TypeOK
  <2> QED BY <1>8, <2>1 DEF CommitApplyFails, RefcountsExact
<1>9. CASE CommitRecord(t)
  <2>1. \A v \in Version : Holders(v)' = Holders(v)
    BY <1>9 DEF CommitRecord, Holders, TypeOK
  <2> QED BY <1>9, <2>1 DEF CommitRecord, RefcountsExact
<1>10. CASE CommitPublish(t)
  <2>1. \A v \in Version : Holders(v)' = Holders(v)
    BY <1>10 DEF CommitPublish, Holders, TypeOK
  <2> QED BY <1>10, <2>1 DEF CommitPublish, RefcountsExact
<1>11. CASE CommitReturn(t)
  BY <1>11, ReleaseExact DEF CommitReturn, TypeOK
<1>12. CASE Abort(t)
  BY <1>12, ReleaseExact DEF Abort, TypeOK
<1>13. CASE Drop(t)
  <2>1. /\ snapshot' \in [Txn -> Version]
        /\ \A u \in Txn \ {t} : snapshot'[u] = snapshot[u]
    BY <1>13 DEF Drop, TypeOK, Version
  <2> QED BY <1>13, <2>1, ReleaseExact DEF Drop
<1> QED
  BY <1>1, <1>2, <1>3, <1>4, <1>5, <1>6, <1>7, <1>8,
     <1>9, <1>10, <1>11, <1>12, <1>13 DEF Step

\* Versions are handed out in order under commit_mu and published in that order.
LEMMA VersionStep ==
    ASSUME IndInv, NEW t \in Txn, Step(t)
    PROVE  VersionInv'
<1> USE DEF IndInv
<1>1. CASE BeginLoad(t)
  BY <1>1 DEF BeginLoad, commitVars, VersionInv, TypeOK, Version, Commit,
       Committing
<1>2. CASE BeginRegister(t)
  BY <1>2 DEF BeginRegister, commitVars, VersionInv, TypeOK, Version, Commit,
       Committing
<1>3. CASE \E k \in Key : Upsert(t, k)
  BY <1>3 DEF Upsert, commitVars, VersionInv, TypeOK, Version, Commit,
       Committing
<1>4. CASE CommitEmpty(t)
  BY <1>4 DEF CommitEmpty, commitVars, VersionInv, TypeOK, Version, Commit,
       Committing
<1>5. CASE CommitConflict(t)
  BY <1>5 DEF CommitConflict, commitVars, VersionInv, TypeOK, Version, Commit,
       Committing
<1>6. CASE CommitReserve(t)
  <2>1. /\ UNCHANGED <<visible_version, snapshot, history>>
        /\ next_version' = next_version + 1 /\ next_version \in Nat
        /\ phase'[t] = "reserved" /\ reserved'[t] = next_version
        /\ \A u \in Txn \ {t} : phase'[u] = phase[u]
    BY <1>6 DEF CommitReserve, TypeOK
  <2>2. \A u \in Txn \ {t} : phase'[u] \notin Committing
    BY <1>6, <2>1 DEF CommitReserve, MutexInv
  <2>3. visible_version \in Nat /\ \A h \in history : h.version \in Nat
    BY DEF TypeOK, Commit, Version
  <2>4. \A u \in Txn : phase'[u] \in Committing => reserved'[u] = next_version
    BY <2>1, <2>2
  <2>5. \A u \in Txn : phase'[u] \in {"reserved", "applied"}
                         => phase'[u] \in Committing
    BY DEF Committing
  <2> QED BY <2>1, <2>3, <2>4, <2>5 DEF VersionInv
<1>7. CASE CommitApply(t)
  BY <1>7 DEF CommitApply, commitVars, VersionInv, TypeOK, Version, Commit,
       Committing
<1>8. CASE CommitApplyFails(t)
  BY <1>8 DEF CommitApplyFails, commitVars, VersionInv, TypeOK, Version,
       Commit, Committing
<1>9. CASE CommitRecord(t)
  BY <1>9 DEF CommitRecord, commitVars, VersionInv, TypeOK, Version, Commit,
       Committing, MutexInv
<1>10. CASE CommitPublish(t)
  BY <1>10 DEF CommitPublish, commitVars, VersionInv, TypeOK, Version, Commit,
       Committing, MutexInv
<1>11. CASE CommitReturn(t)
  BY <1>11 DEF CommitReturn, commitVars, VersionInv, TypeOK, Version, Commit,
       Committing
<1>12. CASE Abort(t)
  BY <1>12 DEF Abort, commitVars, VersionInv, TypeOK, Version, Commit,
       Committing
<1>13. CASE Drop(t)
  BY <1>13 DEF Drop, commitVars, VersionInv, TypeOK, Version, Commit,
       Committing
<1> QED
  BY <1>1, <1>2, <1>3, <1>4, <1>5, <1>6, <1>7, <1>8,
     <1>9, <1>10, <1>11, <1>12, <1>13 DEF Step

\* Trimming stops at the smallest registered snapshot, so what a registered or
\* registering handle may conflict with stays in the log unless the cap pops it.
LEMMA WindowStep ==
    ASSUME IndInv, NEW t \in Txn, Step(t)
    PROVE  WindowInv'
<1> USE DEF IndInv
<1>1. CASE BeginLoad(t)
  <2>1. UNCHANGED <<visible_version, history, committed_log, evicted>>
    BY <1>1 DEF BeginLoad, commitVars
  <2>2. \A u \in Txn : hold'[u] /\ ~ late'[u] =>
           /\ hold[u] /\ ~ late[u]
           /\ snapshot'[u] = snapshot[u]
    BY <1>1 DEF BeginLoad, TypeOK, HoldInv, Holding
  <2> QED BY <2>1, <2>2 DEF WindowInv, Remembered
<1>2. CASE BeginRegister(t)
  <2>1. UNCHANGED <<visible_version, snapshot, history, committed_log,
       evicted>>
    BY <1>2 DEF BeginRegister, commitVars
  <2>2. \A u \in Txn \ {t} : hold'[u] = hold[u] /\ late'[u] = late[u]
    BY <1>2 DEF BeginRegister, TypeOK
  <2>3. ~ late'[t] => visible_version <= snapshot[t] + 1
    <3>1. late'[t] <=> visible_version > snapshot[t] + 1
      BY <1>2, Zenon DEF BeginRegister, TypeOK
    <3>2. visible_version \in Nat /\ snapshot[t] \in Nat
      BY DEF TypeOK, Version
    <3> QED BY <3>1, <3>2
  <2>4. \A h \in history : h.version \in Nat
    BY DEF TypeOK, Commit, Version
  <2>5. ~ late'[t] => \A h \in history :
                         h.version > snapshot[t] => h.version >= visible_version
    BY <2>3, <2>4 DEF TypeOK, Version
  <2> QED BY <2>1, <2>2, <2>5 DEF WindowInv, Remembered
<1>3. CASE \E k \in Key : Upsert(t, k)
  <2>1. UNCHANGED <<visible_version, history, committed_log, evicted>>
    BY <1>3 DEF Upsert, commitVars
  <2>2. \A u \in Txn : hold'[u] /\ ~ late'[u] =>
           /\ hold[u] /\ ~ late[u]
           /\ snapshot'[u] = snapshot[u]
    BY <1>3 DEF Upsert, TypeOK
  <2> QED BY <2>1, <2>2 DEF WindowInv, Remembered
<1>4. CASE CommitEmpty(t)
  <2>1. UNCHANGED <<visible_version, history, committed_log, evicted>>
    BY <1>4 DEF CommitEmpty, commitVars
  <2>2. \A u \in Txn : hold'[u] /\ ~ late'[u] =>
           /\ hold[u] /\ ~ late[u]
           /\ snapshot'[u] = snapshot[u]
    BY <1>4 DEF CommitEmpty, TypeOK, Release
  <2> QED BY <2>1, <2>2 DEF WindowInv, Remembered
<1>5. CASE CommitConflict(t)
  <2>1. UNCHANGED <<visible_version, history, committed_log, evicted>>
    BY <1>5 DEF CommitConflict, commitVars
  <2>2. \A u \in Txn : hold'[u] /\ ~ late'[u] =>
           /\ hold[u] /\ ~ late[u]
           /\ snapshot'[u] = snapshot[u]
    BY <1>5 DEF CommitConflict, TypeOK
  <2> QED BY <2>1, <2>2 DEF WindowInv, Remembered
<1>6. CASE CommitReserve(t)
  <2>1. UNCHANGED <<visible_version, history, committed_log, evicted>>
    BY <1>6 DEF CommitReserve, commitVars
  <2>2. \A u \in Txn : hold'[u] /\ ~ late'[u] =>
           /\ hold[u] /\ ~ late[u]
           /\ snapshot'[u] = snapshot[u]
    BY <1>6 DEF CommitReserve, TypeOK
  <2> QED BY <2>1, <2>2 DEF WindowInv, Remembered
<1>7. CASE CommitApply(t)
  <2>1. UNCHANGED <<visible_version, history, committed_log, evicted>>
    BY <1>7 DEF CommitApply, commitVars
  <2>2. \A u \in Txn : hold'[u] /\ ~ late'[u] =>
           /\ hold[u] /\ ~ late[u]
           /\ snapshot'[u] = snapshot[u]
    BY <1>7 DEF CommitApply, TypeOK
  <2> QED BY <2>1, <2>2 DEF WindowInv, Remembered
<1>8. CASE CommitApplyFails(t)
  <2>1. UNCHANGED <<visible_version, history, committed_log, evicted>>
    BY <1>8 DEF CommitApplyFails, commitVars
  <2>2. \A u \in Txn : hold'[u] /\ ~ late'[u] =>
           /\ hold[u] /\ ~ late[u]
           /\ snapshot'[u] = snapshot[u]
    BY <1>8 DEF CommitApplyFails, TypeOK
  <2> QED BY <2>1, <2>2 DEF WindowInv, Remembered
<1>9. CASE CommitRecord(t)
  <2> DEFINE entry == [commit_version |-> reserved[t], write_set |-> writes[t]]
             new == [snapshot |-> snapshot[t], version |-> reserved[t],
                     writes |-> writes[t], late |-> late[t]]
  <2>1. UNCHANGED <<visible_version, active_snapshots, snapshot, hold, late>>
    BY <1>9 DEF CommitRecord
  <2>2. history' = history \cup {new}
    BY <1>9 DEF CommitRecord
  <2>3. ASSUME NEW h \in history', NEW u \in Txn, hold[u],
               h.version >= snapshot[u], h \in history => Remembered(h)
        PROVE  Remembered(h)'
    <3>1. snapshot[u] \in Version /\ active_snapshots[snapshot[u]] > 0
      BY <2>3, HeldIsCounted DEF TypeOK
    <3>2. CASE h = new
      <4>1. h.version = reserved[t] /\ h.writes = writes[t]
        BY <3>2
      <4>2. entry \in committed_log' \/ entry.commit_version \in evicted'
        BY <1>9, <2>3, <3>1, <4>1, RecordKeeps
      <4> QED BY <4>1, <4>2 DEF Remembered
    <3>3. CASE h \in history
      BY <1>9, <2>3, <3>1, <3>3, RecordKeeps DEF Remembered
    <3> QED BY <2>2, <3>2, <3>3
  <2>4. /\ hold[t]
        /\ snapshot[t] <= visible_version
        /\ visible_version < reserved[t]
    BY <1>9 DEF CommitRecord, HoldInv, Holding, VersionInv, Committing
  <2>5. \A h \in history' : h.version \in Nat
    BY <1>9, <2>2 DEF TypeOK, Commit, Version
  <2>6. ASSUME NEW h \in history', h.version >= visible_version
        PROVE  Remembered(h)'
    <3>1. h.version >= snapshot[t]
      BY <2>4, <2>5, <2>6 DEF TypeOK, Version
    <3>2. h \in history => Remembered(h)
      BY <2>6 DEF WindowInv
    <3> QED BY <2>3, <2>4, <3>1, <3>2
  <2>7. ASSUME NEW u \in Txn, hold[u], ~ late[u],
               NEW h \in history', h.version > snapshot[u]
        PROVE  Remembered(h)'
    <3>1. h.version >= snapshot[u]
      BY <2>5, <2>7 DEF TypeOK, Version
    <3>2. h \in history => Remembered(h)
      BY <2>7 DEF WindowInv
    <3> QED BY <2>3, <2>7, <3>1, <3>2
  <2> QED BY <2>1, <2>6, <2>7 DEF WindowInv
<1>10. CASE CommitPublish(t)
  <2>1. UNCHANGED <<snapshot, hold, late, history, committed_log, evicted>>
    BY <1>10 DEF CommitPublish
  <2>2. visible_version' \in Nat /\ visible_version \in Nat
        /\ visible_version < visible_version'
    BY <1>10 DEF CommitPublish, VersionInv, Committing, TypeOK, Version
  <2>3. \A h \in history : h.version \in Nat
    BY DEF TypeOK, Commit, Version
  <2>4. \A h \in history :
           h.version >= visible_version' => h.version >= visible_version
    BY <2>2, <2>3
  <2> QED BY <2>1, <2>4 DEF WindowInv, Remembered
<1>11. CASE CommitReturn(t)
  <2>1. UNCHANGED <<visible_version, history, committed_log, evicted>>
    BY <1>11 DEF CommitReturn, commitVars
  <2>2. \A u \in Txn : hold'[u] /\ ~ late'[u] =>
           /\ hold[u] /\ ~ late[u]
           /\ snapshot'[u] = snapshot[u]
    BY <1>11 DEF CommitReturn, TypeOK, Release
  <2> QED BY <2>1, <2>2 DEF WindowInv, Remembered
<1>12. CASE Abort(t)
  <2>1. UNCHANGED <<visible_version, history, committed_log, evicted>>
    BY <1>12 DEF Abort, commitVars
  <2>2. \A u \in Txn : hold'[u] /\ ~ late'[u] =>
           /\ hold[u] /\ ~ late[u]
           /\ snapshot'[u] = snapshot[u]
    BY <1>12 DEF Abort, TypeOK, Release
  <2> QED BY <2>1, <2>2 DEF WindowInv, Remembered
<1>13. CASE Drop(t)
  <2>1. UNCHANGED <<visible_version, history, committed_log, evicted>>
    BY <1>13 DEF Drop, commitVars
  <2>2. \A u \in Txn : hold'[u] /\ ~ late'[u] =>
           /\ hold[u] /\ ~ late[u]
           /\ snapshot'[u] = snapshot[u]
    BY <1>13 DEF Drop, TypeOK, Release
  <2> QED BY <2>1, <2>2 DEF WindowInv, Remembered
<1> QED
  BY <1>1, <1>2, <1>3, <1>4, <1>5, <1>6, <1>7, <1>8,
     <1>9, <1>10, <1>11, <1>12, <1>13 DEF Step

\* The conflict check compares against everything the window remembers, and no
\* other commit is recorded before commit_mu is released.
LEMMA CheckedStep ==
    ASSUME IndInv, NEW t \in Txn, Step(t)
    PROVE  CheckedInv'
<1> USE DEF IndInv
<1>1. CASE BeginLoad(t)
  <2>1. UNCHANGED <<history, evicted>>
    BY <1>1 DEF BeginLoad, commitVars
  <2>2. \A u \in Txn : phase'[u] \in {"reserved", "applied"} /\ ~ late'[u] =>
           /\ phase[u] \in {"reserved", "applied"} /\ ~ late[u]
           /\ snapshot'[u] = snapshot[u] /\ writes'[u] = writes[u]
    BY <1>1 DEF BeginLoad, TypeOK
  <2> QED BY <2>1, <2>2 DEF CheckedInv
<1>2. CASE BeginRegister(t)
  <2>1. UNCHANGED <<history, evicted>>
    BY <1>2 DEF BeginRegister, commitVars
  <2>2. \A u \in Txn : phase'[u] \in {"reserved", "applied"} /\ ~ late'[u] =>
           /\ phase[u] \in {"reserved", "applied"} /\ ~ late[u]
           /\ snapshot'[u] = snapshot[u] /\ writes'[u] = writes[u]
    BY <1>2 DEF BeginRegister, TypeOK
  <2> QED BY <2>1, <2>2 DEF CheckedInv
<1>3. CASE \E k \in Key : Upsert(t, k)
  <2>1. UNCHANGED <<history, evicted>>
    BY <1>3 DEF Upsert, commitVars
  <2>2. \A u \in Txn : phase'[u] \in {"reserved", "applied"} /\ ~ late'[u] =>
           /\ phase[u] \in {"reserved", "applied"} /\ ~ late[u]
           /\ snapshot'[u] = snapshot[u] /\ writes'[u] = writes[u]
    BY <1>3 DEF Upsert, TypeOK
  <2> QED BY <2>1, <2>2 DEF CheckedInv
<1>4. CASE CommitEmpty(t)
  <2>1. UNCHANGED <<history, evicted>>
    BY <1>4 DEF CommitEmpty, commitVars
  <2>2. \A u \in Txn : phase'[u] \in {"reserved", "applied"} /\ ~ late'[u] =>
           /\ phase[u] \in {"reserved", "applied"} /\ ~ late[u]
           /\ snapshot'[u] = snapshot[u] /\ writes'[u] = writes[u]
    BY <1>4 DEF CommitEmpty, TypeOK
  <2> QED BY <2>1, <2>2 DEF CheckedInv
<1>5. CASE CommitConflict(t)
  <2>1. UNCHANGED <<history, evicted>>
    BY <1>5 DEF CommitConflict, commitVars
  <2>2. \A u \in Txn : phase'[u] \in {"reserved", "applied"} /\ ~ late'[u] =>
           /\ phase[u] \in {"reserved", "applied"} /\ ~ late[u]
           /\ snapshot'[u] = snapshot[u] /\ writes'[u] = writes[u]
    BY <1>5 DEF CommitConflict, TypeOK
  <2> QED BY <2>1, <2>2 DEF CheckedInv
<1>6. CASE CommitReserve(t)
  <2>1. UNCHANGED <<history, evicted, snapshot, writes, late>>
    BY <1>6 DEF CommitReserve
  <2>2. \A u \in Txn \ {t} : phase'[u] = phase[u]
    BY <1>6 DEF CommitReserve, TypeOK
  <2>3. ASSUME NEW g \in history, ~ late[t], g.version > snapshot[t],
               g.writes \cap writes[t] /= {}
        PROVE  g.version \in evicted
    <3>1. hold[t]
      BY <1>6 DEF CommitReserve, HoldInv, Holding
    <3>2. Remembered(g)
      BY <2>3, <3>1 DEF WindowInv
    <3>3. [commit_version |-> g.version, write_set |-> g.writes]
              \notin committed_log
      BY <1>6, <2>3 DEF CommitReserve, Conflicts
    <3> QED BY <3>2, <3>3 DEF Remembered
  <2> QED BY <2>1, <2>2, <2>3 DEF CheckedInv
<1>7. CASE CommitApply(t)
  <2>1. UNCHANGED <<history, evicted>>
    BY <1>7 DEF CommitApply, commitVars
  <2>2. \A u \in Txn : phase'[u] \in {"reserved", "applied"} /\ ~ late'[u] =>
           /\ phase[u] \in {"reserved", "applied"} /\ ~ late[u]
           /\ snapshot'[u] = snapshot[u] /\ writes'[u] = writes[u]
    BY <1>7 DEF CommitApply, TypeOK
  <2> QED BY <2>1, <2>2 DEF CheckedInv
<1>8. CASE CommitApplyFails(t)
  <2>1. UNCHANGED <<history, evicted>>
    BY <1>8 DEF CommitApplyFails, commitVars
  <2>2. \A u \in Txn : phase'[u] \in {"reserved", "applied"} /\ ~ late'[u] =>
           /\ phase[u] \in {"reserved", "applied"} /\ ~ late[u]
           /\ snapshot'[u] = snapshot[u] /\ writes'[u] = writes[u]
    BY <1>8 DEF CommitApplyFails, TypeOK
  <2> QED BY <2>1, <2>2 DEF CheckedInv
<1>9. CASE CommitRecord(t)
  <2>1. commit_mu = t
    BY <1>9 DEF CommitRecord, MutexInv, Committing
  <2>2. \A u \in Txn \ {t} : phase[u] \notin {"reserved", "applied"}
    BY <2>1 DEF MutexInv, Committing
  <2>3. \A u \in Txn : phase'[u] \notin {"reserved", "applied"}
    BY <1>9, <2>2 DEF CommitRecord, TypeOK
  <2> QED BY <2>3 DEF CheckedInv
<1>10. CASE CommitPublish(t)
  <2>1. UNCHANGED <<history, evicted>>
    BY <1>10 DEF CommitPublish, commitVars
  <2>2. \A u \in Txn : phase'[u] \in {"reserved", "applied"} /\ ~ late'[u] =>
           /\ phase[u] \in {"reserved", "applied"} /\ ~ late[u]
           /\ snapshot'[u] = snapshot[u] /\ writes'[u] = writes[u]
    BY <1>10 DEF CommitPublish, TypeOK
  <2> QED BY <2>1, <2>2 DEF CheckedInv
<1>11. CASE CommitReturn(t)
  <2>1. UNCHANGED <<history, evicted>>
    BY <1>11 DEF CommitReturn, commitVars
  <2>2. \A u \in Txn : phase'[u] \in {"reserved", "applied"} /\ ~ late'[u] =>
           /\ phase[u] \in {"reserved", "applied"} /\ ~ late[u]
           /\ snapshot'[u] = snapshot[u] /\ writes'[u] = writes[u]
    BY <1>11 DEF CommitReturn, TypeOK
  <2> QED BY <2>1, <2>2 DEF CheckedInv
<1>12. CASE Abort(t)
  <2>1. UNCHANGED <<history, evicted>>
    BY <1>12 DEF Abort, commitVars
  <2>2. \A u \in Txn : phase'[u] \in {"reserved", "applied"} /\ ~ late'[u] =>
           /\ phase[u] \in {"reserved", "applied"} /\ ~ late[u]
           /\ snapshot'[u] = snapshot[u] /\ writes'[u] = writes[u]
    BY <1>12 DEF Abort, TypeOK
  <2> QED BY <2>1, <2>2 DEF CheckedInv
<1>13. CASE Drop(t)
  <2>1. UNCHANGED <<history, evicted>>
    BY <1>13 DEF Drop, commitVars
  <2>2. \A u \in Txn : phase'[u] \in {"reserved", "applied"} /\ ~ late'[u] =>
           /\ phase[u] \in {"reserved", "applied"} /\ ~ late[u]
           /\ snapshot'[u] = snapshot[u] /\ writes'[u] = writes[u]
    BY <1>13 DEF Drop, TypeOK
  <2> QED BY <2>1, <2>2 DEF CheckedInv
<1> QED
  BY <1>1, <1>2, <1>3, <1>4, <1>5, <1>6, <1>7, <1>8,
     <1>9, <1>10, <1>11, <1>12, <1>13 DEF Step

\* The commit that is being recorded overlaps only commits it saw, unless it
\* was late or the cap dropped the entry.
LEMMA NoLostUpdateStep ==
    ASSUME IndInv, NEW t \in Txn, Step(t)
    PROVE  NoLostUpdateInWindow'
<1> USE DEF IndInv
<1>1. CASE BeginLoad(t)
  BY <1>1 DEF BeginLoad, commitVars, NoLostUpdateInWindow, Overwrites
<1>2. CASE BeginRegister(t)
  BY <1>2 DEF BeginRegister, commitVars, NoLostUpdateInWindow, Overwrites
<1>3. CASE \E k \in Key : Upsert(t, k)
  BY <1>3 DEF Upsert, commitVars, NoLostUpdateInWindow, Overwrites
<1>4. CASE CommitEmpty(t)
  BY <1>4 DEF CommitEmpty, commitVars, NoLostUpdateInWindow, Overwrites
<1>5. CASE CommitConflict(t)
  BY <1>5 DEF CommitConflict, commitVars, NoLostUpdateInWindow, Overwrites
<1>6. CASE CommitReserve(t)
  BY <1>6 DEF CommitReserve, commitVars, NoLostUpdateInWindow, Overwrites
<1>7. CASE CommitApply(t)
  BY <1>7 DEF CommitApply, commitVars, NoLostUpdateInWindow, Overwrites
<1>8. CASE CommitApplyFails(t)
  BY <1>8 DEF CommitApplyFails, commitVars, NoLostUpdateInWindow, Overwrites
<1>9. CASE CommitRecord(t)
  <2> DEFINE new == [snapshot |-> snapshot[t], version |-> reserved[t],
                     writes |-> writes[t], late |-> late[t]]
  <2>1. history' = history \cup {new}
    BY <1>9 DEF CommitRecord
  <2>2. evicted \subseteq evicted'
    BY <1>9, RecordKeeps
  <2>3. \A h \in history : h.version \in Nat /\ h.version < reserved[t]
    BY <1>9 DEF CommitRecord, VersionInv, TypeOK, Commit, Version
  <2>4. reserved[t] \in Nat
    BY DEF TypeOK, Version
  <2>5. ASSUME NEW g \in history, Overwrites(new, g)
        PROVE  new.late \/ g.version \in evicted
    BY <1>9, <2>5 DEF Overwrites, CheckedInv, CommitRecord
  <2>6. ASSUME NEW h \in history' PROVE ~ Overwrites(h, new)
    <3>1. h.version \in Nat /\ h.version <= reserved[t]
      <4>1. CASE h \in history
        BY <2>3, <2>4, <4>1
      <4>2. CASE h = new
        BY <2>4, <4>2
      <4> QED BY <2>1, <4>1, <4>2
    <3>2. new.version = reserved[t]
      OBVIOUS
    <3> HIDE DEF new
    <3>3. ~ (new.version < h.version)
      BY <2>4, <3>1, <3>2
    <3> QED BY <3>3 DEF Overwrites
  <2> QED BY <2>1, <2>2, <2>5, <2>6 DEF NoLostUpdateInWindow
<1>10. CASE CommitPublish(t)
  BY <1>10 DEF CommitPublish, commitVars, NoLostUpdateInWindow, Overwrites
<1>11. CASE CommitReturn(t)
  BY <1>11 DEF CommitReturn, commitVars, NoLostUpdateInWindow, Overwrites
<1>12. CASE Abort(t)
  BY <1>12 DEF Abort, commitVars, NoLostUpdateInWindow, Overwrites
<1>13. CASE Drop(t)
  BY <1>13 DEF Drop, commitVars, NoLostUpdateInWindow, Overwrites
<1> QED
  BY <1>1, <1>2, <1>3, <1>4, <1>5, <1>6, <1>7, <1>8,
     <1>9, <1>10, <1>11, <1>12, <1>13 DEF Step

\* Only apply adds to storage, at the reserved version, and only publish moves
\* visible_version, over all that apply added.
LEMMA ApplyStep ==
    ASSUME IndInv, NEW t \in Txn, Step(t)
    PROVE  ApplyInv'
<1> USE DEF IndInv
<1>1. CASE CommitReserve(t)
  BY <1>1 DEF CommitReserve, ApplyInv, Committing, MutexInv, TypeOK
<1>2. CASE CommitApply(t)
  <2>1. /\ applied' = applied \cup (writes[t] \X {reserved[t]})
        /\ phase' = [phase EXCEPT ![t] = "applied"]
        /\ UNCHANGED <<visible_version, writes, reserved>>
    BY <1>2 DEF CommitApply
  <2>2. phase[t] = "reserved" /\ phase \in [Txn -> Phases]
    BY <1>2 DEF CommitApply, TypeOK
  <2>3. \A u \in Txn : u /= t => phase[u] \notin Committing
    BY <2>2 DEF MutexInv, Committing
  <2>4. \A a \in applied : ~ (a[2] > visible_version)
    BY <2>2, <2>3 DEF ApplyInv, Committing
  <2>5. ASSUME NEW a \in applied', a[2] > visible_version'
        PROVE  a[1] \in writes'[t] /\ a[2] = reserved'[t]
    BY <2>1, <2>4, <2>5
  <2>6. \A u \in Txn : phase'[u] \in Committing => u = t
    BY <2>1, <2>2, <2>3
  <2>7. writes[t] /= {}
    BY <2>2 DEF ApplyInv, Committing
  <2> QED BY <2>1, <2>2, <2>5, <2>6, <2>7 DEF ApplyInv, Committing
<1>3. CASE CommitRecord(t)
  BY <1>3 DEF CommitRecord, ApplyInv, Committing, TypeOK
<1>4. CASE CommitPublish(t)
  <2>1. /\ visible_version' = reserved[t]
        /\ phase' = [phase EXCEPT ![t] = "published"]
        /\ UNCHANGED <<applied, writes, reserved>>
    BY <1>4 DEF CommitPublish
  <2>2. phase[t] = "recorded" /\ phase \in [Txn -> Phases]
    BY <1>4 DEF CommitPublish, TypeOK
  <2>3. \A u \in Txn : u /= t => phase[u] \notin Committing
    BY <2>2 DEF MutexInv, Committing
  <2>4. \A a \in applied : a[2] \in Nat /\ (a[2] > visible_version => a[2] = reserved[t])
    <3>1. \A a \in applied : a[2] \in Nat
      BY DEF TypeOK, Version
    <3>2. \A a \in applied : a[2] > visible_version => a[2] = reserved[t]
      BY <2>2, <2>3 DEF ApplyInv, Committing
    <3> QED BY <3>1, <3>2
  <2>5. visible_version < reserved[t] /\ visible_version \in Nat /\ reserved[t] \in Nat
    BY <2>2 DEF VersionInv, Committing, TypeOK, Version
  <2>6. \A a \in applied : ~ (a[2] > reserved[t])
    BY <2>4, <2>5
  <2>7. \A u \in Txn : phase'[u] \notin Committing
    BY <2>1, <2>2, <2>3 DEF Committing
  <2> QED BY <2>1, <2>6, <2>7 DEF ApplyInv, Committing
<1>5. CASE /\ UNCHANGED <<visible_version, applied>>
           /\ \A u \in Txn : phase'[u] \in Committing \/ phase[u] \in {"applied", "recorded"} =>
                 phase'[u] = phase[u] /\ writes'[u] = writes[u] /\ reserved'[u] = reserved[u]
  BY <1>5 DEF ApplyInv, Committing
<1>6. CASE Step(t) /\ ~ CommitReserve(t) /\ ~ CommitApply(t) /\ ~ CommitRecord(t) /\ ~ CommitPublish(t)
  BY <1>5, <1>6 DEF Step, TypeOK, Committing, BeginLoad, BeginRegister, Upsert, CommitEmpty, CommitConflict,
       CommitApplyFails, CommitReturn, Abort, Drop
<1> QED BY <1>1, <1>2, <1>3, <1>4, <1>6

-----------------------------------------------------------------------------
(* The theorems                                                            *)

\* A new transaction manager satisfies the inductive invariant.
LEMMA InitIndInv == Init => IndInv
<1> SUFFICES ASSUME Init PROVE IndInv
  OBVIOUS
<1>1. TypeOK
  BY DEF Init, TypeOK, Version, Phases
<1>2. RefcountsExact
  <2>1. \A v \in Version : Holders(v) = {}
    BY DEF Init, Holders
  <2> QED BY <2>1, FS_EmptySet DEF Init, RefcountsExact
<1>3. MutexInv /\ HoldInv
  BY DEF Init, MutexInv, HoldInv, Committing, Holding
<1>4. VersionInv /\ WindowInv /\ CheckedInv /\ ApplyInv /\ NoLostUpdateInWindow
  BY DEF Init, VersionInv, WindowInv, CheckedInv, ApplyInv, NoLostUpdateInWindow,
       Committing
<1> QED BY <1>1, <1>2, <1>3, <1>4 DEF IndInv

\* A step that changes nothing keeps the inductive invariant.
LEMMA StutterIndInv == IndInv /\ UNCHANGED vars => IndInv'
<1> SUFFICES ASSUME IndInv, UNCHANGED vars PROVE IndInv'
  OBVIOUS
<1> USE DEF vars, txnVars, commitVars
<1>1. TypeOK' /\ MutexInv' /\ HoldInv'
  BY DEF IndInv, TypeOK, MutexInv, HoldInv
<1>2. RefcountsExact'
  BY DEF IndInv, RefcountsExact, Holders
<1>3. VersionInv' /\ CheckedInv' /\ ApplyInv'
  BY DEF IndInv, VersionInv, CheckedInv, ApplyInv
<1>4. WindowInv'
  BY DEF IndInv, WindowInv, Remembered
<1>5. NoLostUpdateInWindow'
  BY DEF IndInv, NoLostUpdateInWindow, Overwrites
<1> QED BY <1>1, <1>2, <1>3, <1>4, <1>5 DEF IndInv

\* The inductive invariant holds of every behaviour of the transaction manager.
THEOREM Inductive == Spec => []IndInv
<1>1. IndInv /\ [Next]_vars => IndInv'
  <2>1. ASSUME IndInv, NEW t \in Txn, Step(t) PROVE IndInv'
    BY <2>1, TypeStep, MutexStep, HoldStep, RefcountStep, VersionStep,
       WindowStep, CheckedStep, ApplyStep, NoLostUpdateStep DEF IndInv
  <2> QED BY <2>1, StutterIndInv DEF Next
<1> QED BY InitIndInv, <1>1, PTL DEF Spec

\* Every variable of the transaction manager keeps its type; in particular no
\* refcount goes below zero.
THEOREM TypeCorrect == Spec => []TypeOK
<1>1. IndInv => TypeOK
  BY DEF IndInv
<1> QED BY Inductive, <1>1, PTL

\* Refcounts of active snapshots are exact (begin, commit, abort and drop of any
\* number of handles): compaction's floor never passes a registered reader.
THEOREM RefcountsAreExact == Spec => []RefcountsExact
<1>1. IndInv => RefcountsExact
  BY DEF IndInv
<1> QED BY Inductive, <1>1, PTL

\* First committer wins, up to the two gaps the code leaves open: commit loses
\* no update of a promptly registered handle that the cap did not drop.
THEOREM FirstCommitterWins == Spec => []NoLostUpdateInWindow
<1>1. IndInv => NoLostUpdateInWindow
  BY DEF IndInv
<1> QED BY Inductive, <1>1, PTL

\* Readers see whole commits: the transaction manager implements SnapshotStore.
\* A publish is the store's Commit, the load in begin its Begin, the step that
\* gives a handle up its End; every other step leaves what is visible alone,
\* since apply writes above visible_version.
THEOREM Atomic == Spec => CommitsAtomic
<1> USE DEF Store!state
<1>1. Init => Store!Init
  BY DEF Init, Store!Init, Sees, SeenAt
<1>2. IndInv /\ [Next]_vars => [Store!Next]_(Store!state)
  <2> SUFFICES ASSUME IndInv, [Next]_vars PROVE [Store!Next]_(Store!state)
    OBVIOUS
  <2>1. CASE UNCHANGED vars
    BY <2>1 DEF vars, txnVars, SeenAt, Sees
  <2>2. CASE Next
    <3> PICK t \in Txn : Step(t)
      BY <2>2 DEF Next
    <3> DEFINE Idle == {"new", "finished"}
    <3>0. /\ phase \in [Txn -> Phases] /\ snapshot \in [Txn -> Version]
          /\ \A u \in Txn : snapshot[u] /= None
      BY NoneNotVersion DEF IndInv, TypeOK, Version
    <3>1. CASE BeginLoad(t)
      <4>1. Sees' = [Sees EXCEPT ![t] = visible_version]
        BY <3>0, <3>1 DEF BeginLoad, Sees, Phases
      <4>2. Sees[t] = None /\ UNCHANGED <<visible_version, applied>>
        BY <3>1 DEF BeginLoad, Sees
      <4>3. Store!Begin(t)
        BY <4>1, <4>2 DEF Store!Begin, SeenAt
      <4> QED BY <4>3 DEF Store!Next
    <3>2. CASE CommitPublish(t)
      <4>1. /\ visible_version' = reserved[t] /\ UNCHANGED <<applied, writes, reserved, snapshot>>
            /\ phase[t] = "recorded" /\ phase' = [phase EXCEPT ![t] = "published"]
        BY <3>2 DEF CommitPublish
      <4>2. Sees' = Sees /\ Sees[t] /= None
        BY <3>0, <4>1 DEF Sees
      <4>3. reserved[t] \in Nat /\ visible_version \in Nat /\ visible_version < reserved[t]
        BY <4>1 DEF IndInv, TypeOK, Version, VersionInv, Committing
      <4>4. writes[t] \in SUBSET Key /\ writes[t] /= {}
        BY <4>1 DEF IndInv, TypeOK, ApplyInv, Committing
      <4>5. \A u \in Txn : u /= t => phase[u] \notin Committing
        BY <4>1 DEF IndInv, MutexInv, Committing
      <4>6. ASSUME NEW a \in applied, a[2] > visible_version
            PROVE  a[1] \in writes[t] /\ a[2] = reserved[t]
        BY <4>5, <4>6 DEF IndInv, ApplyInv, Committing
      <4>7. \A k \in writes[t] : <<k, reserved[t]>> \in applied
        BY <4>1 DEF IndInv, ApplyInv
      <4>8. \A a \in applied : a = <<a[1], a[2]>> /\ a[2] \in Nat
        BY DEF IndInv, TypeOK, Version
      <4>9. SeenAt(visible_version)' = SeenAt(visible_version) \cup (writes[t] \X {reserved[t]})
        <5>1. SeenAt(visible_version)' = {a \in applied : a[2] <= reserved[t]}
          BY <4>1 DEF SeenAt
        <5>2. ASSUME NEW a \in applied
              PROVE  a[2] <= reserved[t] /\ (a[2] <= visible_version \/ a \in writes[t] \X {reserved[t]})
          <6>1. CASE a[2] > visible_version
            BY <4>3, <4>6, <4>8, <6>1
          <6>2. CASE ~ (a[2] > visible_version)
            BY <4>3, <4>8, <6>2
          <6> QED BY <6>1, <6>2
        <5>3. \A a \in writes[t] \X {reserved[t]} : a \in applied
          BY <4>7
        <5> QED BY <5>1, <5>2, <5>3 DEF SeenAt
      <4>10. Store!Commit(t)
        BY <4>1, <4>2, <4>3, <4>4, <4>9 DEF Store!Commit
      <4> QED BY <4>10 DEF Store!Next
    <3>3. CASE CommitApply(t)
      <4>1. /\ applied' = applied \cup (writes[t] \X {reserved[t]}) /\ UNCHANGED <<visible_version, snapshot>>
            /\ phase[t] = "reserved" /\ phase' = [phase EXCEPT ![t] = "applied"]
        BY <3>3 DEF CommitApply
      <4>2. Sees' = Sees
        BY <3>0, <4>1 DEF Sees
      <4>3. reserved[t] \in Nat /\ visible_version \in Nat /\ visible_version < reserved[t]
        BY <4>1 DEF IndInv, TypeOK, Version, VersionInv, Committing
      <4>4. \A a \in writes[t] \X {reserved[t]} : ~ (a[2] <= visible_version)
        BY <4>3
      <4>5. SeenAt(visible_version)' = SeenAt(visible_version)
        BY <4>1, <4>4 DEF SeenAt
      <4> QED BY <4>1, <4>2, <4>5
    <3>4. CASE CommitEmpty(t) \/ CommitReturn(t) \/ Abort(t) \/ Drop(t)
      <4>1. UNCHANGED <<visible_version, applied>>
        BY <3>4 DEF CommitEmpty, CommitReturn, Abort, Drop
      <4>2. phase[t] /= "new" /\ (\A u \in Txn : u /= t => phase'[u] = phase[u] /\ snapshot'[u] = snapshot[u])
            /\ phase'[t] \in Idle
        BY <3>0, <3>4 DEF CommitEmpty, CommitReturn, Abort, Drop
      <4>3. CASE phase[t] = "finished"
        BY <3>0, <4>1, <4>2, <4>3 DEF Sees, SeenAt
      <4>4. CASE phase[t] /= "finished"
        <5>1. Sees[t] /= None
          BY <3>0, <4>2, <4>4 DEF Sees
        <5>2. Sees' = [Sees EXCEPT ![t] = None]
          BY <4>2 DEF Sees
        <5>3. Store!End(t)
          BY <4>1, <5>1, <5>2 DEF Store!End, SeenAt
        <5> QED BY <5>3 DEF Store!Next
      <4> QED BY <4>3, <4>4
    <3>5. CASE BeginRegister(t) \/ (\E k \in Key : Upsert(t, k)) \/ CommitConflict(t) \/ CommitReserve(t)
               \/ CommitApplyFails(t) \/ CommitRecord(t)
      <4>1. UNCHANGED <<visible_version, applied, snapshot>>
        BY <3>5 DEF BeginRegister, Upsert, CommitConflict, CommitReserve, CommitApplyFails, CommitRecord
      <4>2. \A u \in Txn : phase'[u] \in Idle <=> phase[u] \in Idle
        BY <3>0, <3>5 DEF BeginRegister, Upsert, CommitConflict, CommitReserve, CommitApplyFails, CommitRecord
      <4> QED BY <4>1, <4>2 DEF Sees, SeenAt
    <3> QED BY <3>1, <3>2, <3>3, <3>4, <3>5 DEF Step
  <2> QED BY <2>1, <2>2
<1> QED BY Inductive, <1>1, <1>2, PTL DEF Spec, CommitsAtomic, Store!Spec
=============================================================================
