--------------------------------- MODULE Wal ---------------------------------
(***************************************************************************)
(* The write-ahead log's framing (crates/rhypedb-storage/src/wal.rs).      *)
(*                                                                         *)
(* A log file is its magic (framed or not) and a sequence of records: data *)
(* records, commit footers that carry the number of data records of their  *)
(* batch, and Torn, the bytes decode rejects (short, truncated or with a   *)
(* wrong checksum).  Put and Delete records are handled alike by every     *)
(* path here and are both "data".  A length is a number of records.        *)
(***************************************************************************)
EXTENDS Integers, Sequences, FiniteSetsExt

Data(k, v) == [type |-> "data", key |-> k, version |-> v, count |-> 0]
Footer(v, n) == [type |-> "commit", key |-> "", version |-> v, count |-> n]
Torn == [type |-> "torn", key |-> "", version |-> 0, count |-> 0]

IsFooter(r) == r.type = "commit"
IsData(r) == r.type = "data"

Framed(recs) == [framed |-> TRUE, recs |-> recs]
Legacy(recs) == [framed |-> FALSE, recs |-> recs]

\* A file without a magic that is not empty predates framing.
FileIsLegacy(file) == ~ file.framed /\ file.recs /= <<>>

\* Wal::create_fresh, and Wal::open on an empty file.
FreshWal == Framed(<<>>)

\* append_txn encodes the whole batch, footer last.
Batch(writes, v) ==
    [i \in 1 .. Len(writes) |-> Data(writes[i], v)]
        \o <<Footer(v, Len(writes))>>

-----------------------------------------------------------------------------
(* What replay recovers, stated without its loop.                          *)

\* Records before the first that does not decode.
Decoded(recs) ==
    Min({i \in 1 .. Len(recs) : recs[i] = Torn} \cup {Len(recs) + 1}) - 1

Footers(recs) == {i \in 1 .. Decoded(recs) : IsFooter(recs[i])}

\* A footer is balanced when it counts the data records since the last one.
Balanced(recs, i) ==
    recs[i].count = i - 1 - Max({j \in Footers(recs) : j < i} \cup {0})

Mismatch(recs) == \E i \in Footers(recs) : ~ Balanced(recs, i)

\* The end of the last batch such that it and all before it are balanced.
FooteredLen(recs) ==
    Max({i \in Footers(recs) :
            \A j \in Footers(recs) : j <= i => Balanced(recs, j)} \cup {0})

\* Mutant: footers are ignored; every record that decodes is recovered.
ValidLenDecoded(file) == Decoded(file.recs)

ValidLen(file) ==
    IF file.framed \/ Mismatch(file.recs)
    THEN FooteredLen(file.recs)
    ELSE Decoded(file.recs)

\* The data records replay yields, in file order.
Replayed(file) ==
    SelectSeq(SubSeq(file.recs, 1, ValidLen(file)), IsData)

\* What replay recovers, as the entries <<key, version>> of those records.
Recovered(file) ==
    {<<file.recs[i].key, file.recs[i].version>> :
        i \in {j \in 1 .. ValidLen(file) : IsData(file.recs[j])}}

TruncateTo(file, len) == [file EXCEPT !.recs = SubSeq(@, 1, len)]
=============================================================================
