------------------------------ MODULE WalReplay ------------------------------
(***************************************************************************)
(* The loop of Wal::replay_with_valid_len, one record a step, over every   *)
(* log file of a bounded length.  It is compared with the definition of    *)
(* Wal that the storage model recovers with.                               *)
(***************************************************************************)
EXTENDS Wal

CONSTANTS
    File,       \* the files replayed
    Writes      \* write buffers appended after recovery (sequences of keys)

VARIABLES
    file,       \* the log being read
    offset,     \* records consumed
    pending,    \* data records of the batch being read
    records,    \* data records of completed batches
    valid_len,  \* length proven to belong to recovered records
    pc          \* "loop", "tail" or "done"

vars == <<file, offset, pending, records, valid_len, pc>>

Init ==
    /\ file \in File
    /\ offset = 0
    /\ pending = <<>>
    /\ records = <<>>
    /\ valid_len = 0
    /\ pc = "loop"

Here == file.recs[offset + 1]

Decodes == pc = "loop" /\ offset < Len(file.recs) /\ Here /= Torn

ReadData ==
    /\ Decodes
    /\ ~ IsFooter(Here)
    /\ offset' = offset + 1
    /\ pending' = Append(pending, Here)
    /\ UNCHANGED <<file, records, valid_len, pc>>

ReadFooter ==
    /\ Decodes
    /\ IsFooter(Here)
    /\ offset' = offset + 1
    /\ pending' = <<>>
    /\ IF Here.count = Len(pending)
       THEN /\ records' = records \o pending
            /\ valid_len' = offset'
            /\ pc' = pc
       ELSE /\ pc' = "tail"
            /\ UNCHANGED <<records, valid_len>>
    /\ UNCHANGED file

\* The end of the file, or a record that does not decode.
StopReading ==
    /\ pc = "loop"
    /\ ~ Decodes
    /\ pc' = "tail"
    /\ UNCHANGED <<file, offset, pending, records, valid_len>>

\* Mutant: a batch without a footer is kept in any file.
FinishKeepsTail ==
    /\ pc = "tail"
    /\ pc' = "done"
    /\ records' = records \o pending
    /\ valid_len' = offset
    /\ UNCHANGED <<file, offset, pending>>

\* Only a legacy file keeps a batch without a footer.
Finish ==
    /\ pc = "tail"
    /\ pc' = "done"
    /\ IF pending /= <<>> /\ ~ file.framed
       THEN /\ records' = records \o pending
            /\ valid_len' = offset
       ELSE UNCHANGED <<records, valid_len>>
    /\ UNCHANGED <<file, offset, pending>>

Next == ReadData \/ ReadFooter \/ StopReading \/ Finish

Spec == Init /\ [][Next]_vars

-----------------------------------------------------------------------------

TypeOK ==
    /\ offset \in 0 .. Len(file.recs)
    /\ valid_len \in 0 .. offset
    /\ pc \in {"loop", "tail", "done"}
    /\ \A r \in Range(pending) \cup Range(records) : IsData(r)

\* The loop computes what Wal defines: the same records in the same order and
\* the same valid length.
LoopMatchesDefinition ==
    pc = "done" => records = Replayed(file) /\ valid_len = ValidLen(file)

\* Truncating a framed file to valid_len loses nothing that was recovered, and
\* whatever batch is appended next is recovered whole after it: the torn tail
\* is never folded into the next transaction's footer count.
AppendAfterTruncateRecovered ==
    pc = "done" /\ file.framed =>
        \A w \in Writes :
            LET kept == TruncateTo(file, valid_len)
                next == Framed(kept.recs \o Batch(w, 9))
            IN  /\ Replayed(kept) = records
                /\ Replayed(next) = records \o SelectSeq(Batch(w, 9), IsData)
=============================================================================
