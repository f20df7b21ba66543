----------------------------- MODULE OwnerFence -----------------------------
(***************************************************************************)
(* The single-writer guard of a data directory                             *)
(* (crates/rhypedb-storage/src/lock.rs) and its use at the destructive     *)
(* boundaries of lsm.rs.                                                   *)
(*                                                                         *)
(* Processes open one directory.  flock excludes the others, or does       *)
(* nothing on some filesystems (flock_works).  acquire stamps a fresh token *)
(* over the LOCK file; flush and compaction, one lane each in a process,   *)
(* compare the file with their token before they write.  A token is the    *)
(* process and how often it has opened.                                    *)
(***************************************************************************)
EXTENDS Integers, FiniteSets, FiniteSetTheorems, TLAPS

CONSTANTS
    Process,    \* processes that may open the directory
    NoToken,    \* an empty LOCK file, or nobody
    MaxOpen,    \* bound on opens per process
    MaxDamage   \* bound on destructive passes counted per open

\* A token is not the mark of an empty file, and that mark is no process.
GuardAssumption == NoToken \notin Process \cup (Process \X Nat)

Lane == {"flush", "compact"}

VARIABLES
    flock_works,    \* whether flock(2) excludes on this filesystem
    lock_file,  \* the token in LOCK
    flock,      \* the process the kernel granted the lock to
    pc,         \* Process -> where acquire is
    opens,      \* Process -> times acquired
    fenced,     \* Process -> DataDirGuard::fenced
    lane,       \* Process -> Lane -> "idle" or "verified"
    damage      \* history: passes done on a directory stamped by another

vars == <<flock_works, lock_file, flock, pc, opens, fenced, lane, damage>>

Token(p) == <<p, opens[p]>>
IdleLanes == [l \in Lane |-> "idle"]

Init ==
    /\ flock_works \in BOOLEAN
    /\ lock_file = NoToken
    /\ flock = NoToken
    /\ pc = [p \in Process |-> "closed"]
    /\ opens = [p \in Process |-> 0]
    /\ fenced = [p \in Process |-> FALSE]
    /\ lane = [p \in Process |-> IdleLanes]
    /\ damage = [p \in Process |-> 0]

\* Mutant: the answer of flock is not looked at.
TryLockIgnored(p) ==
    /\ pc[p] = "closed"
    /\ opens[p] < MaxOpen
    /\ flock' = IF flock_works THEN p ELSE flock
    /\ opens' = [opens EXCEPT ![p] = @ + 1]
    /\ pc' = [pc EXCEPT ![p] = "locked"]
    /\ UNCHANGED <<flock_works, lock_file, fenced, lane, damage>>

\* try_lock_exclusive.  A refusal returns DataDirLocked and changes nothing.
TryLock(p) ==
    /\ pc[p] = "closed"
    /\ opens[p] < MaxOpen
    /\ flock_works => flock = NoToken
    /\ flock' = IF flock_works THEN p ELSE flock
    /\ opens' = [opens EXCEPT ![p] = @ + 1]
    /\ pc' = [pc EXCEPT ![p] = "locked"]
    /\ UNCHANGED <<flock_works, lock_file, fenced, lane, damage>>

\* write_metadata empties the file, then writes the token.
StampTruncate(p) ==
    /\ pc[p] = "locked"
    /\ lock_file' = NoToken
    /\ pc' = [pc EXCEPT ![p] = "stamping"]
    /\ UNCHANGED <<flock_works, flock, opens, fenced, lane, damage>>

StampWrite(p) ==
    /\ pc[p] = "stamping"
    /\ lock_file' = Token(p)
    /\ pc' = [pc EXCEPT ![p] = "open"]
    /\ UNCHANGED <<flock_works, flock, opens, fenced, lane, damage>>

\* verify_owner: a poisoned guard refuses at once; a mismatch poisons it.
VerifyOwner(p, l) ==
    /\ pc[p] = "open"
    /\ lane[p][l] = "idle"
    /\ ~ fenced[p]
    /\ IF lock_file = Token(p)
       THEN /\ lane' = [lane EXCEPT ![p][l] = "verified"]
            /\ UNCHANGED fenced
       ELSE /\ fenced' = [fenced EXCEPT ![p] = TRUE]
            /\ UNCHANGED lane
    /\ UNCHANGED <<flock_works, lock_file, flock, pc, opens, damage>>

\* What the boundary guards: an SST written under an id of this process, the
\* log truncated, or merged inputs unlinked.
Destroy(p, l) ==
    /\ lane[p][l] = "verified"
    /\ damage[p] < MaxDamage
    /\ lane' = [lane EXCEPT ![p][l] = "idle"]
    /\ damage' = [damage EXCEPT ![p] = IF lock_file = Token(p) THEN @ ELSE @ + 1]
    /\ UNCHANGED <<flock_works, lock_file, flock, pc, opens, fenced>>

\* The guard is dropped or the process dies, at any point: the kernel
\* releases its flock, the token stays in the file.
Close(p) ==
    /\ pc[p] /= "closed"
    /\ pc' = [pc EXCEPT ![p] = "closed"]
    /\ flock' = IF flock = p THEN NoToken ELSE flock
    /\ fenced' = [fenced EXCEPT ![p] = FALSE]
    /\ lane' = [lane EXCEPT ![p] = IdleLanes]
    /\ damage' = [damage EXCEPT ![p] = 0]
    /\ UNCHANGED <<flock_works, lock_file, opens>>

Next ==
    \E p \in Process :
        \/ TryLock(p)
        \/ StampTruncate(p)
        \/ StampWrite(p)
        \/ \E l \in Lane : VerifyOwner(p, l)
        \/ \E l \in Lane : Destroy(p, l)
        \/ Close(p)

Spec == Init /\ [][Next]_vars

-----------------------------------------------------------------------------

TypeOK ==
    /\ flock_works \in BOOLEAN
    /\ lock_file = NoToken \/ lock_file \in Process \X (1 .. MaxOpen)
    /\ flock \in Process \cup {NoToken}
    /\ pc \in [Process -> {"closed", "locked", "stamping", "open"}]
    /\ opens \in [Process -> 0 .. MaxOpen]
    /\ fenced \in [Process -> BOOLEAN]
    /\ lane \in [Process -> [Lane -> {"idle", "verified"}]]
    /\ damage \in [Process -> 0 .. MaxDamage]

\* Where flock works, one process at a time is past acquire, and none that
\* owns the directory is ever fenced off: a refused opener leaves no trace in
\* the LOCK file, and a stale token of a dead holder fences nobody.
SingleWriter ==
    flock_works =>
        /\ \A p, q \in Process : pc[p] /= "closed" /\ pc[q] /= "closed" => p = q
        /\ \A p \in Process : ~ fenced[p]

\* A process is fenced only when it has really lost the directory, and then
\* for good: the file never shows its token again while it stays open.
FenceIsFinal == \A p \in Process : fenced[p] => lock_file /= Token(p)

\* After losing the directory a process finishes at most the passes it had
\* verified before, one flush and one compaction; it starts no other.
DamageBounded == \A p \in Process : damage[p] <= Cardinality(Lane)

\* One process at a time owns the directory where flock works; elsewhere one
\* that lost it is fenced for good and finishes at most what it had verified.
DirectoryGuarded == SingleWriter /\ FenceIsFinal /\ DamageBounded

\* A pass that is verified and not yet done.
InFlight(p, l) == IF lane[p][l] = "verified" THEN 1 ELSE 0

\* The inductive invariant behind the three.  A process that is not open has
\* nothing verified, done or fenced; the file shows the token of a process only
\* while it may trust it, and never one it has yet to take; the passes done
\* since the loss and those still verified are two at most; and where flock
\* works, whoever is past it holds it and, once open, reads its own token.
GuardInv ==
    /\ flock_works \in BOOLEAN
    /\ lock_file \in {NoToken} \cup (Process \X Nat)
    /\ pc \in [Process -> {"closed", "locked", "stamping", "open"}]
    /\ opens \in [Process -> Nat]
    /\ fenced \in [Process -> BOOLEAN]
    /\ lane \in [Process -> [Lane -> {"idle", "verified"}]]
    /\ damage \in [Process -> Nat]
    /\ lock_file /= NoToken => lock_file[2] <= opens[lock_file[1]]
    /\ \A p \in Process :
          /\ pc[p] /= "open" =>
                ~ fenced[p] /\ lane[p] = IdleLanes /\ damage[p] = 0
          /\ lock_file = Token(p) =>
                ~ fenced[p] /\ damage[p] = 0 /\ pc[p] \in {"closed", "open"}
          /\ damage[p] + InFlight(p, "flush") + InFlight(p, "compact") <= 2
          /\ flock_works /\ pc[p] /= "closed" =>
                flock = p /\ ~ fenced[p] /\ (pc[p] = "open" => lock_file = Token(p))

-----------------------------------------------------------------------------
(* The guard for any processes and any number of opens.  The three parts of *)
(* DirectoryGuarded are not inductive: that a fenced process stays fenced   *)
(* needs that the LOCK file never shows a token before it is written nor    *)
(* one of an earlier open, and the bound on the damage that passes done and *)
(* passes still verified are counted together.  GuardInv says so, and each  *)
(* action keeps it.                                                         *)

\* An untouched directory has the invariant.
LEMMA InitInv == ASSUME Init PROVE GuardInv
BY SMT DEF Init, GuardInv, Token, IdleLanes, InFlight, Lane

\* A new open takes a token that no file can show yet.
LEMMA TryLockInv ==
    ASSUME GuardAssumption, GuardInv, NEW p \in Process, TryLock(p)
    PROVE  GuardInv'
BY SMT DEF GuardAssumption, GuardInv, TryLock, Token, IdleLanes, InFlight, Lane

\* The emptied file shows no token.
LEMMA StampTruncateInv ==
    ASSUME GuardAssumption, GuardInv, NEW p \in Process, StampTruncate(p)
    PROVE  GuardInv'
BY SMT DEF GuardAssumption, GuardInv, StampTruncate, Token, IdleLanes, InFlight, Lane

\* The stamp: only its writer reads its own token from here on.
LEMMA StampWriteInv ==
    ASSUME GuardAssumption, GuardInv, NEW p \in Process, StampWrite(p)
    PROVE  GuardInv'
BY SMT DEF GuardAssumption, GuardInv, StampWrite, Token, IdleLanes, InFlight, Lane

\* verify_owner marks a pass only where the file shows the token, and poisons
\* the guard only where flock let two processes in.
LEMMA VerifyOwnerInv ==
    ASSUME GuardAssumption, GuardInv, NEW p \in Process, NEW l \in Lane, VerifyOwner(p, l)
    PROVE  GuardInv'
<1>1. CASE lock_file = Token(p)
  <2>1. /\ UNCHANGED <<flock_works, lock_file, flock, pc, opens, fenced, damage>>
        /\ lane' = [lane EXCEPT ![p] = [lane[p] EXCEPT ![l] = "verified"]]
        /\ pc[p] = "open" /\ damage[p] = 0
    BY <1>1, SMT DEF GuardInv, VerifyOwner
  <2>2. lane' \in [Process -> [Lane -> {"idle", "verified"}]]
    BY <2>1, SMT DEF GuardInv
  <2>3. \A q \in Process : q /= p => lane'[q] = lane[q]
    BY <2>1 DEF GuardInv
  <2>4. \A q \in Process :
          damage[q] + InFlight(q, "flush")' + InFlight(q, "compact")' <= 2
    BY <2>1, <2>3, SMT DEF GuardInv, InFlight
  <2>5. \A q \in Process : pc[q] /= "open" => lane'[q] = IdleLanes
    BY <2>1, <2>3 DEF GuardInv
  <2>6. \A q \in Process : Token(q)' = Token(q)
    BY <2>1 DEF Token
  <2>7. QED
    BY <2>1, <2>2, <2>4, <2>5, <2>6, SMT DEF GuardInv, IdleLanes
<1>2. CASE lock_file /= Token(p)
  <2>1. /\ UNCHANGED <<flock_works, lock_file, flock, pc, opens, lane, damage>>
        /\ fenced' = [fenced EXCEPT ![p] = TRUE]
        /\ pc[p] = "open" /\ ~ flock_works
    BY <1>2, SMT DEF GuardInv, VerifyOwner
  <2>2. fenced' \in [Process -> BOOLEAN] /\ \A q \in Process : q /= p => fenced'[q] = fenced[q]
    BY <2>1 DEF GuardInv
  <2>3. \A q \in Process : /\ Token(q)' = Token(q)
                            /\ InFlight(q, "flush")' = InFlight(q, "flush")
                            /\ InFlight(q, "compact")' = InFlight(q, "compact")
    BY <2>1 DEF Token, InFlight
  <2>4. QED
    BY <1>2, <2>1, <2>2, <2>3, SMT DEF GuardInv
<1>3. QED BY <1>1, <1>2

\* A verified pass is done, and counted if the directory was lost meanwhile.
LEMMA DestroyInv ==
    ASSUME GuardAssumption, GuardInv, NEW p \in Process, NEW l \in Lane, Destroy(p, l)
    PROVE  GuardInv'
BY SMT DEF GuardAssumption, GuardInv, Destroy, Token, IdleLanes, InFlight, Lane

\* A close or a death forgets what the process held, but for the token.
LEMMA CloseInv ==
    ASSUME GuardAssumption, GuardInv, NEW p \in Process, Close(p)
    PROVE  GuardInv'
BY SMT DEF GuardAssumption, GuardInv, Close, Token, IdleLanes, InFlight, Lane

\* Every step keeps the invariant.
LEMMA NextInv == ASSUME GuardAssumption, GuardInv, [Next]_vars PROVE GuardInv'
<1>1. CASE UNCHANGED vars
  BY <1>1, SMT DEF vars, GuardInv, Token, IdleLanes, InFlight
<1>2. CASE Next
  <2>1. PICK p \in Process :
          \/ TryLock(p) \/ StampTruncate(p) \/ StampWrite(p) \/ Close(p)
          \/ \E l \in Lane : VerifyOwner(p, l) \/ Destroy(p, l)
    BY <1>2 DEF Next
  <2>2. QED
    BY <2>1, TryLockInv, StampTruncateInv, StampWriteInv, VerifyOwnerInv, DestroyInv, CloseInv
<1>3. QED BY <1>1, <1>2

\* There are two lanes.
LEMMA LaneCount == Cardinality(Lane) = 2
<1>1. Lane = {"flush"} \cup {"compact"}
  BY DEF Lane
<1>2. IsFiniteSet({"flush"}) /\ Cardinality({"flush"}) = 1
  BY FS_Singleton
<1>3. QED BY <1>1, <1>2, FS_AddElement

\* The invariant implies what the guard promises.
LEMMA InvGuarded == ASSUME GuardInv, GuardAssumption PROVE DirectoryGuarded
<1>1. SingleWriter
  BY DEF GuardInv, SingleWriter
<1>2. FenceIsFinal
  BY DEF GuardInv, FenceIsFinal
<1>3. DamageBounded
  BY LaneCount, SMT DEF GuardInv, DamageBounded, InFlight
<1>4. QED BY <1>1, <1>2, <1>3 DEF DirectoryGuarded

\* Where flock works one process at a time owns the directory; elsewhere the loser
\* is fenced for good and does at most one flush and one compaction more
\* (DataDirGuard::acquire, verify_owner), for any processes and any bounds.
THEOREM DirectoryAlwaysGuarded ==
    ASSUME GuardAssumption PROVE Spec => []DirectoryGuarded
<1>1. Init => GuardInv
  BY InitInv
<1>2. GuardInv /\ [Next]_vars => GuardInv'
  BY NextInv
<1>3. GuardInv => DirectoryGuarded
  BY InvGuarded
<1>4. QED BY <1>1, <1>2, <1>3, PTL DEF Spec
=============================================================================
