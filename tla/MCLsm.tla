-------------------------------- MODULE MCLsm --------------------------------
(* Model checking the LSM tree, one deployment per question so that each   *)
(* stays small, and the bytes and texts of MCFormats: a behaviour is one   *)
(* of the tree, or picks an input of a format while the tree rests.        *)
EXTENDS LsmRead, TLC

CONSTANTS ENTRIES_PER_BLOCK, ID_BYTES, GEN_BYTES

VARIABLE case

Formats == INSTANCE MCFormats

Deployment == [sync_on_commit |-> TRUE, wal |-> "new", snapshots |-> FALSE,
               faults |-> {}, crashes |-> 0, ssts |-> 3, keys |-> Key,
               readers |-> {}]

\* A second crash over the remains of the first.
Recrash == [Deployment EXCEPT !.faults = {"power"}, !.crashes = 2]

\* Every I/O error, and a process kill.
Faulty == [Deployment EXCEPT !.faults = Faults \ {"power"}, !.crashes = 1]

\* fsync off, and a process kill.
NoSync == [Deployment EXCEPT !.sync_on_commit = FALSE, !.crashes = 1]

\* An upgrade from a log without framing, crashed twice.
Upgrade == [Deployment EXCEPT !.wal = "legacy", !.faults = {"power"},
                              !.crashes = 2]

\* Online backups.
Backup == [Deployment EXCEPT !.snapshots = TRUE, !.ssts = 4]

\* Reads of one key beside commits, flushes and compactions.
Queried == {[Deployment EXCEPT !.keys = {k}, !.readers = Reader] : k \in Key}

Deployments == {Recrash, Faulty, NoSync, Upgrade, Backup} \cup Queried

\* The tree compares keys only for equality.
Interchangeable == Permutations(Key)

PartsInit ==
    /\ ReadInit
    /\ case = [part |-> "tree"] \/ (conf \in Queried /\ wal = FreshWal /\ Formats!Init)

PartsNext ==
    \/ case.part = "tree" /\ ReadNext /\ UNCHANGED case
    \/ Formats!Next /\ UNCHANGED <<vars, op>>

PartsSpec == PartsInit /\ [][PartsNext]_<<vars, op, case>>

-----------------------------------------------------------------------------
(* The properties that are not stated in the components.  Those of formats  *)
(* are about every input that is picked.                                    *)

\* What is opened is whole: after any crash and any fault a transaction's writes
\* are recovered together or not at all, and the directory that snapshot_to wrote
\* opens to exactly what was visible when it was taken.
RecoveredWhole == RecoveryAtomic /\ BackupExact

\* What is stored is found: a scan of a key prefix means exactly the rows it meets
\* and keys sort as what they were made of, and point reads, batches and scans of a
\* table or the memtable answer what the snapshot sees, or fail where a block is
\* damaged (KeyBuilder, SstReader, MemTable).
StoredFound ==
    [][/\ Formats!PrefixScansExact(case') /\ Formats!KeyOrderExact(case')
       /\ Formats!PointReadsExact(case') /\ Formats!ScansExact(case')]_case

\* Catalog rows, fields, payloads and frames are read as they were written, by the
\* server and by both clients, and a torn or foreign one is refused (the catalog's
\* codec, the wire protocol, its TypeScript client).
CodecsExact ==
    [][/\ Formats!RowsExact(case') /\ Formats!FieldsExact(case')
       /\ Formats!PayloadsExact(case') /\ Formats!FramesExact(case')]_case

\* Queries, rules and schemas that are written out parse to themselves, however
\* they are spaced and commented (parse_query, the rules' parser, parse_schema and
\* emit_schema, the clients' builders).
TextsReparsed ==
    [][/\ Formats!QueryReparsed(case') /\ Formats!RulesReparsed(case')
       /\ Formats!SchemaReparsed(case')]_case

\* What is missing never decides in favour of a caller: a clause that grants while
\* a field, a claim, the uid, a to-one link or a relation too large to read is missing
\* grants also when that is known.  Being anonymous is a fact to a clause that reads
\* request.auth, and so is a target of a to-many relation that is gone or lacks the
\* field to a clause that denies a member (the rules' evaluation).
AbsenceNeverGrants == [][Formats!AbsenceNeverGrants(case')]_case
=============================================================================
