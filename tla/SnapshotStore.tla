---------------------------- MODULE SnapshotStore ----------------------------
(***************************************************************************)
(* What transactions are promised: a store that changes by whole commits.  *)
(* seen is what a reader at the latest version now finds, each write with  *)
(* its version; at is the snapshot of every transaction under way.         *)
(* Conflicts are left out: Mvcc states what its check guarantees.          *)
(***************************************************************************)
EXTENDS Integers

CONSTANTS Txn, Key, None

VARIABLES now, seen, at

state == <<now, seen, at>>

Init ==
    /\ now = 0
    /\ seen = {}
    /\ at = [t \in Txn |-> None]

\* A transaction sees the latest version, until it ends.
Begin(t) ==
    /\ at[t] = None
    /\ at' = [at EXCEPT ![t] = now]
    /\ UNCHANGED <<now, seen>>

\* All that a transaction wrote appears at once, at a version of its own.
Commit(t) ==
    /\ at[t] /= None
    /\ now' \in Nat /\ now' > now
    /\ \E written \in SUBSET Key : written /= {} /\ seen' = seen \cup (written \X {now'})
    /\ UNCHANGED at

End(t) ==
    /\ at[t] /= None
    /\ at' = [at EXCEPT ![t] = None]
    /\ UNCHANGED <<now, seen>>

Next == \E t \in Txn : Begin(t) \/ Commit(t) \/ End(t)

Spec == Init /\ [][Next]_state
=============================================================================
