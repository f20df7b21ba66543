------------------------------ MODULE MCStorage ------------------------------
(* Model checking the parts of the storage engine around the LSM tree: each *)
(* behaviour is one of transactions (Mvcc), the directory guard             *)
(* (OwnerFence), the replay loop (WalReplay), the chunked scan (ChunkScan)  *)
(* or the zone-map scan (ZoneScan).  While transactions rest, the other     *)
(* parts use the variables v1 to v8 in turn, each for its own state.        *)
EXTENDS Mvcc, Sequences, SequencesExt

CONSTANTS
    Process, NoToken, MaxOpen, MaxDamage,       \* OwnerFence
    MaxRecs,                                    \* length of the logs replayed
    MaxKey, NumSources, MaxDistinct,            \* ChunkScan
    Row, Field, BlockSize, MaxWrites            \* ZoneScan

VARIABLES part, v1, v2, v3, v4, v5, v6, v7, v8

v == <<v1, v2, v3, v4, v5, v6, v7, v8>>

Log == INSTANCE Wal

Rec == {Log!Data(k, 1) : k \in {"a", "b"}}
          \cup {Log!Footer(1, n) : n \in 0 .. 2} \cup {Log!Torn}

Guard == INSTANCE OwnerFence WITH
    flock_works <- v1, lock_file <- v2, flock <- v3, pc <- v4, opens <- v5, fenced <- v6, lane <- v7, damage <- v8

ASSUME Guard!GuardAssumption

Replay == INSTANCE WalReplay WITH
    File <- [framed : BOOLEAN, recs : BoundedSeq(Rec, MaxRecs)], Writes <- {<<"a">>, <<"a", "b">>},
    file <- v1, offset <- v2, pending <- v3, records <- v4, valid_len <- v5, pc <- v6

Chunk == INSTANCE ChunkScan WITH sources <- v1, start <- v2, collected <- v3, done <- v4

Zone == INSTANCE ZoneScan WITH
    Key <- Row, MaxVersion <- MaxWrites, active <- v1, sst_files <- v2, version <- v3

PartsInit ==
    /\ Init
    /\ \/ part = "transactions" /\ v1 = None /\ v2 = None /\ v3 = None /\ v4 = None /\ v5 = None
          /\ v6 = None /\ v7 = None /\ v8 = None
       \/ part = "guard" /\ Guard!Init
       \/ part = "replay" /\ Replay!Init /\ v7 = None /\ v8 = None
       \/ part = "chunk" /\ Chunk!Init /\ v5 = None /\ v6 = None /\ v7 = None /\ v8 = None
       \/ part = "zone" /\ Zone!Init /\ v4 = None /\ v5 = None /\ v6 = None /\ v7 = None /\ v8 = None

PartsNext ==
    /\ UNCHANGED part
    /\ \/ part = "transactions" /\ Next /\ UNCHANGED v
       \/ part = "guard" /\ Guard!Next /\ UNCHANGED vars
       \/ part = "replay" /\ Replay!Next /\ UNCHANGED <<vars, v7, v8>>
       \/ part = "chunk" /\ Chunk!Next /\ UNCHANGED <<vars, v5, v6, v7, v8>>
       \/ part = "zone" /\ Zone!Next /\ UNCHANGED <<vars, v4, v5, v6, v7, v8>>

PartsSpec == PartsInit /\ [][PartsNext]_<<part, vars, v>>

\* Handles and keys are interchangeable: no part tells one from another.
Interchangeable == Permutations(Txn) \cup Permutations(Key)

\* One process at a time owns the directory where flock works; elsewhere one
\* that lost it is fenced for good and finishes at most the flush and the
\* compaction that it had verified (DataDirGuard::acquire, verify_owner).
DirectoryGuarded == part = "guard" => Guard!DirectoryGuarded

\* Wal::replay_with_valid_len recovers the records, and proves the length, that
\* Wal defines, for every torn, miscounted, framed or legacy log; once the log is
\* cut there, the next batch appended is recovered with all the earlier ones.
LogRecovered ==
    part = "replay" => Replay!TypeOK /\ Replay!LoopMatchesDefinition /\ Replay!AppendAfterTruncateRecovered

\* The chunked scan hands out every live row of its snapshot once, in order,
\* across tombstone runs and compactions, and a zone-map scan misses no matching
\* row whose versions reach over at most two blocks of an SST.
RowsFound == (part = "chunk" => Chunk!ChunksExact) /\ (part = "zone" => Zone!NarrowRowNotMissed)
=============================================================================
